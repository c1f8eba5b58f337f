----------------------------- MODULE MCPagedLists -----------------------------
(* PagedLists with the histories its properties need.                      *)
EXTENDS PagedLists

VARIABLES
  steady,  (* what has been listed, and not lifted, since the reader's     *)
           (* first page                                                   *)
  calm,    (* nothing has left the list or been set back since then, and   *)
           (* no two of it have shared a time                              *)
  still    (* moreover nothing has come or been lifted                     *)

hvars == <<vars, steady, calm, still>>

MCInit == Init /\ steady = {} /\ calm = TRUE /\ still = TRUE

Untied == \A a, b \in Listed : a # b => item[a].key # item[b].key

(* The reader has not begun.                                               *)
Fresh == reader.step = "idle" /\ reader.page = 1

(* AdAutoBumpWorker writes the time at which it began, which may lie       *)
(* before that of a bump paid since: such an ad falls.                     *)
NoneFalls ==
  \A a \in Listed : a \in Listed' /\ item'[a].key >= item[a].key

MCNext ==
  /\ Next
  /\ steady' = IF Fresh THEN Listed'
                        ELSE {a \in steady : a \in Listed' /\ item'[a].key = item[a].key}
  /\ calm' = (Untied' /\ (Fresh \/ (calm /\ NoneFalls)))
  /\ still' = (calm' /\ (Fresh \/ (still /\ item' = item)))

-----------------------------------------------------------------------------
(* While nothing leaves the list or falls and no two items share a time, a *)
(* reader who goes on to the end has been shown every item that was there  *)
(* when he began and has not itself been lifted, whatever came and was     *)
(* lifted meanwhile (LIMIT and OFFSET of findAll and the other lists).     *)
NothingSkipped == calm /\ reader.step = "done" => steady \subseteq ToSet(reader.shown)

(* Of a list that stands still every page continues the one before: the    *)
(* pages together are the sorted list, without a gap or a repetition.      *)
PagesContinue ==
  still => \A s \in Sorted(Listed) :
    /\ IsPrefix(reader.shown, s)
    /\ reader.step = "done" => reader.shown = s
=============================================================================
