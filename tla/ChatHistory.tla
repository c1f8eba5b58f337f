----------------------------- MODULE ChatHistory -----------------------------
(* The messages of one dialog in time (ConversationsService): a message's  *)
(* createdAt, lastMessageAt and the cursors of reading are taken when a    *)
(* statement starts, and seen when it is committed:                        *)
(*                                                                         *)
(*   createMessage   takes the time -> commit    (one transaction)         *)
(*   markRead        takes the time -> update                              *)
(*                                                                         *)
(* and what getMessages, page by page up the history, and the isUnread of  *)
(* getConversations make of it.                                            *)
(*                                                                         *)
(* A definition op_variant before op is op with a mistake in it; nothing   *)
(* here uses it.  Putting it in op's place breaks one of the properties.   *)
(***************************************************************************)
EXTENDS Naturals, Sequences, SequencesExt

CONSTANTS
  Users,     (* the two participants                                       *)
  Requests,  (* requests that may be under way at once                     *)
  Messages,  (* ids of messages                                            *)
  Limit,     (* of a page of messages                                      *)
  MaxTime,   (* bound of the clock                                         *)
  null

Time == 1 .. MaxTime

Message == [at : Time, sender : Users]

ChatHistoryAssumption ==
  /\ Limit \in Nat \ {0} /\ MaxTime \in Nat \ {0}
  /\ null \notin Users \cup Messages /\ null \notin Message

VARIABLES
  clock,     (* milliseconds, as the columns keep them                     *)
  messages,  (* createdAt and sender of the rows of messages, or null      *)
  lastMessageAt,
  readAt,    (* buyerLastReadAt and sellerLastReadAt                       *)
  req,       (* the requests                                               *)
  scroll     (* a participant's way up the history: pages and cursor       *)

vars == <<clock, messages, lastMessageAt, readAt, req, scroll>>

-----------------------------------------------------------------------------

Request == [step : {"idle", "commit", "update"}, user : Users \cup {null},
            at : Time \cup {0}]

Idle == [step |-> "idle", user |-> null, at |-> 0]

(* cursor is createdAt of the oldest message received, 0 before the first  *)
(* page and MaxTime + 1 after the last.                                    *)
Scroll == [pages : Seq(Messages), cursor : 0 .. MaxTime + 1]

Closed == [pages |-> <<>>, cursor |-> 0]

TypeOK ==
  /\ clock \in Time
  /\ messages \in [Messages -> Message \cup {null}]
  /\ lastMessageAt \in Time \cup {0}
  /\ readAt \in [Users -> Time \cup {0}]
  /\ req \in [Requests -> Request]
  /\ scroll \in Scroll

Init ==
  /\ clock = 1
  /\ messages = [m \in Messages |-> null]
  /\ lastMessageAt = 0
  /\ readAt = [u \in Users |-> 0]
  /\ req = [r \in Requests |-> Idle]
  /\ scroll = Closed

Sent == {m \in Messages : messages[m] # null}

Done == scroll.cursor = MaxTime + 1

-----------------------------------------------------------------------------
(* Reading (one statement each).                                           *)

(* ORDER BY created_at alone: the database orders equal times as it likes. *)
Newest(S) == {s \in SetToSeqs(S) :
                \A i, j \in DOMAIN s : i < j => messages[s[i]].at >= messages[s[j]].at}

Before_lte(cursor) == {m \in Sent : cursor = 0 \/ messages[m].at <= cursor}

Before(cursor) == {m \in Sent : cursor = 0 \/ messages[m].at < cursor}

take(s) == SubSeq(s, 1, IF Len(s) < Limit THEN Len(s) ELSE Limit)

(* orderBy: desc, take: limit, and reverse.                                *)
Page(s) == Reverse(take(s))

(* A participant asks for the next page up; with none left he is done.     *)
getMessages ==
  /\ ~Done
  /\ \E s \in Newest(Before(scroll.cursor)) :
       LET page == Page(s) IN
       scroll' = [pages |-> page \o scroll.pages,
                  cursor |-> IF Len(page) < Limit THEN MaxTime + 1
                                                  ELSE messages[page[1]].at]
  /\ UNCHANGED <<clock, messages, lastMessageAt, readAt, req>>

(* What getConversations may answer a participant.                         *)
isUnread(u) ==
  \E s \in Newest(Sent) :
    s # <<>> /\ messages[s[1]].sender # u /\ messages[s[1]].at > readAt[u]

-----------------------------------------------------------------------------
(* Writing.                                                                *)

Take(r, step, u) ==
  /\ req[r].step = "idle"
  /\ req' = [req EXCEPT ![r] = [step |-> step, user |-> u, at |-> clock]]
  /\ UNCHANGED <<clock, messages, lastMessageAt, readAt, scroll>>

createMessage(r, u) == Take(r, "commit", u)

(* The row of the message and the touch of its dialog.                     *)
commit(r) ==
  /\ req[r].step = "commit"
  /\ \E m \in Messages \ Sent :
       messages' = [messages EXCEPT ![m] = [at |-> req[r].at, sender |-> req[r].user]]
  /\ lastMessageAt' = req[r].at
  /\ req' = [req EXCEPT ![r] = Idle]
  /\ UNCHANGED <<clock, readAt, scroll>>

markRead(r, u) == Take(r, "update", u)

update(r) ==
  /\ req[r].step = "update"
  /\ readAt' = [readAt EXCEPT ![req[r].user] = req[r].at]
  /\ req' = [req EXCEPT ![r] = Idle]
  /\ UNCHANGED <<clock, messages, lastMessageAt, scroll>>

Tick ==
  /\ clock < MaxTime
  /\ clock' = clock + 1
  /\ UNCHANGED <<messages, lastMessageAt, readAt, req, scroll>>

Next ==
  \/ \E r \in Requests, u \in Users : createMessage(r, u) \/ markRead(r, u)
  \/ \E r \in Requests : commit(r) \/ update(r)
  \/ getMessages
  \/ Tick

Spec == Init /\ [][Next]_vars

-----------------------------------------------------------------------------
(* However messages come in and share their times, going up the history    *)
(* shows no message twice, and shows them in the order of their times      *)
(* (getMessages; what offset pages of a growing list would not do).        *)
NothingTwice ==
  \A i, j \in DOMAIN scroll.pages :
    i < j => /\ scroll.pages[i] # scroll.pages[j]
             /\ messages[scroll.pages[i]].at <= messages[scroll.pages[j]].at
=============================================================================
