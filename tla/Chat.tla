-------------------------------- MODULE Chat --------------------------------
(* Dialogs about ads (ConversationsService), blocking (BlockedUsersService)*)
(* and what deleting an account or an ad does to them.  A handler is split *)
(* at its awaits:                                                          *)
(*                                                                         *)
(*   startConversation   read ad -> isBlocked -> upsert -> createMessage   *)
(*   sendMessage         read    -> isBlocked -> createMessage             *)
(*   blockUser           upsert  -> hide                                   *)
(*   deleteConversation  read    -> delete | hide                          *)
(*   markRead            read    -> update                                 *)
(*   deleteAccount       scan    -> commit    (one transaction)            *)
(*                                                                         *)
(* Of the messages of a dialog only who has not read the last one is kept. *)
(*                                                                         *)
(* A definition op_variant before op is op with a mistake in it; nothing   *)
(* here uses it.  Putting it in op's place breaks one of the properties.   *)
(***************************************************************************)
EXTENDS Naturals

CONSTANTS
  Users,
  Ads,
  SellerOf,        (* the owner of an ad                                   *)
  Conversations,   (* ids                                                  *)
  Requests,        (* slots for requests being handled at the same time    *)
  Crashes,         (* may the process crash?                               *)
  null

ASSUME ChatAssumption ==
  /\ SellerOf \in [Ads -> Users]
  /\ Crashes \in BOOLEAN
  /\ null \notin Users /\ null \notin Ads /\ null \notin Conversations

VARIABLES
  convs,     (* the rows of conversations, by id                           *)
  blocked,   (* the rows of blocked_users: <<blocker, blocked>>            *)
  ads,       (* the ads that have a row                                    *)
  deleted,   (* accounts with deletedAt set                                *)
  req        (* the request handled in each slot                           *)

vars == <<convs, blocked, ads, deleted, req>>

-----------------------------------------------------------------------------
(* Types.                                                                  *)

Conversation == [state : {"unborn", "open", "gone"},
                 ad : Ads \cup {null}, buyer : Users \cup {null},
                 seller : Users \cup {null},
                 hiddenBy : SUBSET Users,      \* hiddenByBuyer, -BySeller
                 unread : Users \cup {null}]   \* who has not read the last one

Dialog(state, ad, buyer, seller) ==
  [state |-> state, ad |-> ad, buyer |-> buyer, seller |-> seller,
   hiddenBy |-> {}, unread |-> null]

Unborn == Dialog("unborn", null, null, null)

Request == [step : {"idle", "isBlocked", "upsert", "createMessage", "hideAll",
                    "delete", "hide", "read", "commit"},
            user : Users \cup {null},
            other : Users \cup {null},          \* the counterpart
            ad : Ads \cup {null},               \* startConversation's
            conv : Conversations \cup {null},
            orphans : SUBSET Conversations]     \* deleteAccount's

At(step, user, other, ad, conv) ==
  [step |-> step, user |-> user, other |-> other, ad |-> ad, conv |-> conv,
   orphans |-> {}]

Idle == At("idle", null, null, null, null)

TypeOK ==
  /\ convs \in [Conversations -> Conversation]
  /\ blocked \subseteq Users \X Users
  /\ ads \subseteq Ads
  /\ deleted \subseteq Users
  /\ req \in [Requests -> Request]

Init ==
  /\ convs = [c \in Conversations |-> Unborn]
  /\ blocked = {}
  /\ ads = Ads
  /\ deleted = {}
  /\ req = [r \in Requests |-> Idle]

-----------------------------------------------------------------------------
(* Helpers.                                                                *)

Become(r, q) == req' = [req EXCEPT ![r] = q]

Go(r, step) == Become(r, [req[r] EXCEPT !.step = step])

Respond(r) == Become(r, Idle)

Open(c) == convs[c].state = "open"

Participants(c) == {convs[c].buyer, convs[c].seller}

Counterpart(c, u) ==
  IF convs[c].buyer = u THEN convs[c].seller ELSE convs[c].buyer

(* AuthGuard looks at deletedAt when the request begins.                   *)
Begin(r, u) == req[r].step = "idle" /\ u \notin deleted

isBlocked_oneWay(u, v) == <<v, u>> \in blocked

isBlocked(u, v) == <<u, v>> \in blocked \/ <<v, u>> \in blocked

-----------------------------------------------------------------------------
(* ConversationsService.                                                   *)

startConversation(r, u, a) ==
  /\ Begin(r, u)
  /\ a \in ads /\ SellerOf[a] # u
  /\ Become(r, At("isBlocked", u, SellerOf[a], a, null))
  /\ UNCHANGED <<convs, blocked, ads, deleted>>

sendMessage(r, u, c) ==
  /\ Begin(r, u)
  /\ Open(c) /\ u \in Participants(c)
  /\ Become(r, At("isBlocked", u, Counterpart(c, u), null, c))
  /\ UNCHANGED <<convs, blocked, ads, deleted>>

checkBlocked(r) ==
  LET q == req[r] IN
  /\ q.step = "isBlocked"
  /\ \/ isBlocked(q.user, q.other) /\ Respond(r)
     \/ ~isBlocked(q.user, q.other)
        /\ Go(r, IF q.conv = null THEN "upsert" ELSE "createMessage")
  /\ UNCHANGED <<convs, blocked, ads, deleted>>

upsert_alwaysCreates(r) ==
  LET q == req[r] IN
  /\ q.step = "upsert" /\ q.ad \in ads
  /\ \E c \in Conversations :
       /\ convs[c].state = "unborn"
       /\ convs' = [convs EXCEPT ![c] = Dialog("open", q.ad, q.user, q.other)]
       /\ Become(r, [q EXCEPT !.step = "createMessage", !.conv = c])
  /\ UNCHANGED <<blocked, ads, deleted>>

(* On (adId, buyerId).  The insert fails if the ad has been deleted.       *)
upsert(r) ==
  LET q == req[r]
      existing == {c \in Conversations : /\ Open(c) /\ convs[c].ad = q.ad
                                         /\ convs[c].buyer = q.user}
  IN
  /\ q.step = "upsert"
  /\ \/ /\ existing = {} /\ q.ad \notin ads
        /\ Respond(r) /\ UNCHANGED convs
     \/ \E c \in existing :
          /\ Become(r, [q EXCEPT !.step = "createMessage", !.conv = c])
          /\ UNCHANGED convs
     \/ /\ existing = {} /\ q.ad \in ads
        /\ \E c \in Conversations :
             /\ convs[c].state = "unborn"
             /\ convs' = [convs EXCEPT ![c] = Dialog("open", q.ad, q.user, q.other)]
             /\ Become(r, [q EXCEPT !.step = "createMessage", !.conv = c])
  /\ UNCHANGED <<blocked, ads, deleted>>

(* One transaction; it fails if the dialog is gone.                        *)
createMessage(r) ==
  LET q == req[r] IN
  /\ q.step = "createMessage"
  /\ IF Open(q.conv)
       THEN convs' = [convs EXCEPT ![q.conv].hiddenBy = {},
                                   ![q.conv].unread = q.other]
       ELSE UNCHANGED convs
  /\ Respond(r)
  /\ UNCHANGED <<blocked, ads, deleted>>

(* markRead: the caller's cursor is set to now.                            *)
markReadFind(r, u, c) ==
  /\ Begin(r, u)
  /\ Open(c) /\ u \in Participants(c)
  /\ Become(r, At("read", u, null, null, c))
  /\ UNCHANGED <<convs, blocked, ads, deleted>>

markRead(r) ==
  LET q == req[r] IN
  /\ q.step = "read"
  /\ IF Open(q.conv) /\ convs[q.conv].unread = q.user
       THEN convs' = [convs EXCEPT ![q.conv].unread = null]
       ELSE UNCHANGED convs
  /\ Respond(r)
  /\ UNCHANGED <<blocked, ads, deleted>>

deleteConversation(r, u, c) ==
  /\ Begin(r, u)
  /\ Open(c) /\ u \in Participants(c)
  /\ Become(r, At(IF Counterpart(c, u) \in deleted THEN "delete" ELSE "hide",
                  u, null, null, c))
  /\ UNCHANGED <<convs, blocked, ads, deleted>>

deleteRow(r) ==
  /\ req[r].step = "delete"
  /\ convs' = [convs EXCEPT ![req[r].conv].state = "gone"]
  /\ Respond(r)
  /\ UNCHANGED <<blocked, ads, deleted>>

hide(r) ==
  LET q == req[r] IN
  /\ q.step = "hide"
  /\ IF Open(q.conv)
       THEN convs' = [convs EXCEPT ![q.conv].hiddenBy = @ \cup {q.user}]
       ELSE UNCHANGED convs
  /\ Respond(r)
  /\ UNCHANGED <<blocked, ads, deleted>>

-----------------------------------------------------------------------------
(* BlockedUsersService.                                                    *)

(* The dialogs between u and v.                                            *)
Between(u, v) == {c \in Conversations : Open(c) /\ Participants(c) = {u, v}}

blockUser_noId(r, u, v) ==
  /\ Begin(r, u) /\ u # v
  /\ blocked' = blocked \cup {<<u, null>>}
  /\ Become(r, At("hideAll", u, v, null, null))
  /\ UNCHANGED <<convs, ads, deleted>>

blockUser(r, u, v) ==
  /\ Begin(r, u) /\ u # v
  /\ blocked' = blocked \cup {<<u, v>>}
  /\ Become(r, At("hideAll", u, v, null, null))
  /\ UNCHANGED <<convs, ads, deleted>>

hideAll_asBuyer(r) ==
  LET q == req[r] IN
  /\ q.step = "hideAll"
  /\ convs' = [c \in Conversations |->
       IF c \in Between(q.user, q.other) /\ convs[c].buyer = q.user
         THEN [convs[c] EXCEPT !.hiddenBy = @ \cup {q.user}] ELSE convs[c]]
  /\ Respond(r)
  /\ UNCHANGED <<blocked, ads, deleted>>

hideAll(r) ==
  LET q == req[r] IN
  /\ q.step = "hideAll"
  /\ convs' = [c \in Conversations |->
       IF c \in Between(q.user, q.other)
         THEN [convs[c] EXCEPT !.hiddenBy = @ \cup {q.user}] ELSE convs[c]]
  /\ Respond(r)
  /\ UNCHANGED <<blocked, ads, deleted>>

(* One transaction.                                                        *)
unblockUser(r, u, v) ==
  /\ Begin(r, u) /\ u # v
  /\ blocked' = blocked \ {<<u, v>>}
  /\ convs' = [c \in Conversations |->
       IF c \in Between(u, v)
         THEN [convs[c] EXCEPT !.hiddenBy = @ \ {u}] ELSE convs[c]]
  /\ UNCHANGED <<ads, deleted, req>>

-----------------------------------------------------------------------------
(* UserService.deleteAccount and AdsService.remove, as far as dialogs go.  *)

(* The transaction reads whose counterpart has already left ...            *)
deleteAccountScan(r, u) ==
  /\ Begin(r, u)
  /\ Become(r, [At("commit", u, null, null, null) EXCEPT !.orphans =
                  {c \in Conversations : /\ Open(c) /\ u \in Participants(c)
                                         /\ Counterpart(c, u) \in deleted}])
  /\ UNCHANGED <<convs, blocked, ads, deleted>>

(* ... deletes those dialogs and commits with deletedAt set.               *)
deleteAccountCommit(r) ==
  LET q == req[r] IN
  /\ q.step = "commit"
  /\ convs' = [c \in Conversations |->
       IF c \in q.orphans THEN [convs[c] EXCEPT !.state = "gone"] ELSE convs[c]]
  /\ deleted' = deleted \cup {q.user}
  /\ Respond(r)
  /\ UNCHANGED <<blocked, ads>>

removeAd_cascade(a) ==
  /\ ads' = ads \ {a}
  /\ convs' = [c \in Conversations |->
       IF convs[c].ad = a THEN [convs[c] EXCEPT !.ad = null, !.state = "gone"]
                          ELSE convs[c]]
  /\ UNCHANGED <<blocked, deleted, req>>

(* Removed or purged; Conversation.ad is SetNull.                          *)
removeAd(a) ==
  /\ a \in ads
  /\ ads' = ads \ {a}
  /\ convs' = [c \in Conversations |->
       IF convs[c].ad = a THEN [convs[c] EXCEPT !.ad = null] ELSE convs[c]]
  /\ UNCHANGED <<blocked, deleted, req>>

Crash ==
  /\ Crashes
  /\ \E r \in Requests : req[r].step # "idle"
  /\ req' = [r \in Requests |-> Idle]
  /\ UNCHANGED <<convs, blocked, ads, deleted>>

HandlerStep(r) ==
  \/ checkBlocked(r) \/ upsert(r) \/ createMessage(r) \/ markRead(r)
  \/ deleteRow(r) \/ hide(r) \/ hideAll(r) \/ deleteAccountCommit(r)

Start(r, u) ==
  \/ \E a \in Ads : startConversation(r, u, a)
  \/ \E c \in Conversations :
       sendMessage(r, u, c) \/ markReadFind(r, u, c) \/ deleteConversation(r, u, c)
  \/ \E v \in Users : blockUser(r, u, v) \/ unblockUser(r, u, v)
  \/ deleteAccountScan(r, u)

Next ==
  \/ \E r \in Requests : HandlerStep(r) \/ \E u \in Users : Start(r, u)
  \/ \E a \in Ads : removeAd(a)
  \/ Crash

Spec == Init /\ [][Next]_vars

-----------------------------------------------------------------------------
(* Properties.                                                             *)

(* "To erase it by the will of one would be unfair to the other"           *)
(* (deleteConversation): a dialog is only erased by a step of somebody     *)
(* whose counterpart has left for good, however requests overlap, and      *)
(* never with its ad.                                                      *)
LivingKeepTheirDialogs ==
  [][\A c \in Conversations :
       Open(c) /\ convs'[c].state = "gone" =>
         \E r \in Requests :
           /\ req[r].step # "idle" /\ req'[r].step = "idle"
           /\ req[r].user \in Participants(c)
           /\ Counterpart(c, req[r].user) \in deleted]_vars

(* "A repeated message of the same buyer must not breed duplicates"        *)
(* (startConversation, @@unique([adId, buyerId])).                         *)
OneDialogPerBuyer ==
  \A c, d \in Conversations :
    /\ Open(c) /\ Open(d) /\ convs[c].ad # null
    /\ convs[c].ad = convs[d].ad /\ convs[c].buyer = convs[d].buyer
    => c = d
=============================================================================
