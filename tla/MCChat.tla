------------------------------- MODULE MCChat -------------------------------
(* Instances of Chat and of ChatHistory for TLC, one beside the other: a   *)
(* behaviour is of the dialogs or of the messages of one of them (part).   *)
(* The two share no variable, so that what one part does says nothing of   *)
(* the other, and the histories of both at once would show nothing more.   *)
EXTENDS Chat, TLC

CONSTANTS u1, u2, a1, c1, c2, r1, r2, t1, t2, m1, m2, m3,
  Talkers, Messages, Limit, MaxTime   (* of ChatHistory                    *)

VARIABLES
  part,   (* "dialogs" or "history"                                        *)
  calm,   (* history: requests have come one by one, without a crash       *)
  clock, messages, lastMessageAt, readAt, sending, scroll,
  there, seen, apart

History == INSTANCE MCChatHistory WITH Users <- Talkers, req <- sending

ASSUME HistoryAssumption == History!ChatHistoryAssumption

(* u1 sells, u2 buys.                                                      *)
MCSeller == [a \in Ads |-> u1]

MCSymmetry == Permutations(Requests) \cup Permutations(Conversations)
                \cup Permutations(Talkers) \cup Permutations(Messages)

Busy == \E r \in Requests : req[r].step # "idle"

Begins == \E r \in Requests, u \in Users : Start(r, u)

(* A crash that cost a request something: not the last step it had left.   *)
Interrupted == Crash /\ ~\E r \in Requests : HandlerStep(r)

dialogs == <<vars, calm>>

history == <<clock, messages, lastMessageAt, readAt, sending, scroll, there, seen, apart>>

MCInit ==
  /\ part \in {"dialogs", "history"}
  /\ Init /\ calm = TRUE
  /\ History!MCInit

MCNext ==
  \/ /\ part = "dialogs"
     /\ Next /\ calm' = (calm /\ ~(Busy /\ Begins) /\ ~Interrupted)
     /\ UNCHANGED <<part, history>>
  \/ /\ part = "history"
     /\ History!MCNext
     /\ UNCHANGED <<part, dialogs>>

MCSpec == MCInit /\ [][MCNext]_<<part, dialogs, history>>

-----------------------------------------------------------------------------

TypesOK == TypeOK /\ (part = "history" => History!TypeOK)

(* What the comments promise, and what holds as long as requests come one  *)
(* by one.  (When they overlap each of these can be broken.)               *)

(* "If one of the two has blocked the other, no correspondence is          *)
(* possible" (model BlockedUser): sendMessage and startConversation let no *)
(* message pass in either direction.  And "Unblocked: the effect of the    *)
(* block is lifted completely" (unblockUser): a dialog becomes hidden only *)
(* for who deletes it or still blocks.                                     *)
BlockHolds ==
  [][calm' =>
       /\ \A r \in Requests :
            createMessage(r) /\ Open(req[r].conv) =>
              ~(<<req[r].user, req[r].other>> \in blocked
                \/ <<req[r].other, req[r].user>> \in blocked)
       /\ \A c \in Conversations, u \in Users :
            u \in convs'[c].hiddenBy \ convs[c].hiddenBy =>
              \/ <<u, Counterpart(c, u)>> \in blocked
              \/ \E r \in Requests : req[r].user = u /\ hide(r)]_dialogs

(* "We hide all existing dialogs with this person at once" (blockUser):    *)
(* whatever is started, sent, deleted or unblocked afterwards, none of     *)
(* them shows again before the block is lifted.                            *)
BlockedIsHidden ==
  calm => \A c \in Conversations : \A u \in Participants(c) :
    /\ Open(c) /\ <<u, Counterpart(c, u)>> \in blocked
    /\ \A r \in Requests : req[r].step # "hideAll"
    => u \in convs[c].hiddenBy

(* "A dialog is physically deleted when both participants have deleted     *)
(* their accounts" (model Conversation).                                   *)
NoOrphanDialogs ==
  calm => \A c \in Conversations :
    Open(c) => ~(Participants(c) \subseteq deleted)

(* What the participants of a dialog may rely on while requests come one   *)
(* by one: the blocked stay hidden, no dialog outlives both of them, and   *)
(* unread is what came since one marked it read (createMessage, markRead,  *)
(* getConversations).                                                      *)
ChatOneByOne ==
  /\ BlockedIsHidden
  /\ NoOrphanDialogs
  /\ part = "history" => History!UnreadUntilRead

(* Whoever goes up the history of a dialog to its beginning, cursor by     *)
(* cursor, receives every message there was when he began, none of them    *)
(* twice, in the order of their times (getMessages).  That none is twice   *)
(* holds however they come in and share their times.                       *)
HistoryIsWhole ==
  part = "history" => History!HistoryIsWhole /\ History!NothingTwice
=============================================================================
