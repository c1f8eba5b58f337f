---------------------------- MODULE MCChatHistory ----------------------------
(* ChatHistory with the histories its properties need.                     *)
EXTENDS ChatHistory

VARIABLES
  there,   (* history: the messages there were when the scroll began       *)
  seen,    (* history: the messages a participant had before him when he   *)
           (* marked the dialog read                                       *)
  apart    (* history: no two requests have been handled at once, and no   *)
           (* two have taken their times in one millisecond                *)

hvars == <<vars, there, seen, apart>>

MCInit ==
  /\ Init
  /\ there = {}
  /\ seen = [u \in Users |-> {}]
  /\ apart = TRUE

Begins == \E r \in Requests : req[r].step = "idle" /\ req'[r].step # "idle"

Taken == {lastMessageAt} \cup {readAt[u] : u \in Users} \cup {req[r].at : r \in Requests}
           \cup {messages[m].at : m \in Sent}

MCNext ==
  /\ Next
  /\ there' = IF scroll = Closed /\ scroll' # Closed THEN Sent ELSE there
  /\ seen' = [u \in Users |->
       IF \E r \in Requests : /\ req[r].step = "idle" /\ req'[r].step = "update"
                             /\ req'[r].user = u
         THEN Sent ELSE IF apart THEN seen[u] ELSE {}]
  /\ apart' = (apart /\ (Begins => clock \notin Taken /\ \A r \in Requests : req[r].step = "idle"))

-----------------------------------------------------------------------------
(* While requests are apart, whoever goes up the history to its beginning, *)
(* cursor by cursor, has received every message there was when he began,   *)
(* whatever has been written meanwhile (getMessages).                      *)
HistoryIsWhole == apart /\ Done => there \subseteq ToSet(scroll.pages)

(* A dialog is unread to a participant exactly when its last message is    *)
(* the other's and he has not marked the dialog read since it came, and    *)
(* its place in the list is that message's, while requests are apart       *)
(* (getConversations, markRead, createMessage).                            *)
UnreadUntilRead ==
  apart => \A s \in Newest(Sent) : s # <<>> =>
    /\ lastMessageAt = messages[s[1]].at
    /\ \A u \in Users :
         (\A r \in Requests : req[r].step # "update") =>
           (isUnread(u) <=> messages[s[1]].sender # u /\ s[1] \notin seen[u])
=============================================================================
