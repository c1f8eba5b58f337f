--------------------------- MODULE AdStateMachine ---------------------------
(***************************************************************************)
(* The table of AdStateMachineService: which moderation or owner action    *)
(* takes an ad from one status to another.  A triple <<from, action, to>>  *)
(* stands for  transitions[from][action] = to.                             *)
(***************************************************************************)

AdStatus == {"DRAFT", "PENDING", "REJECTED", "PUBLISHED", "ARCHIVED", "EXPIRED"}

Action == {"PUBLISH", "REJECT", "ARCHIVE", "ACTIVATE", "DRAFT"}

transitions ==
  { <<"DRAFT",     "PUBLISH",  "PENDING">>,
    <<"DRAFT",     "ACTIVATE", "PENDING">>,
    <<"PENDING",   "PUBLISH",  "PUBLISHED">>,
    <<"PENDING",   "REJECT",   "REJECTED">>,
    <<"PENDING",   "ARCHIVE",  "ARCHIVED">>,
    <<"PENDING",   "DRAFT",    "DRAFT">>,
    <<"REJECTED",  "ACTIVATE", "PENDING">>,
    <<"REJECTED",  "DRAFT",    "DRAFT">>,
    <<"PUBLISHED", "ARCHIVE",  "ARCHIVED">>,
    <<"ARCHIVED",  "ACTIVATE", "PENDING">>,
    <<"ARCHIVED",  "PUBLISH",  "PENDING">>,
    <<"ARCHIVED",  "DRAFT",    "DRAFT">>,
    <<"EXPIRED",   "ACTIVATE", "PENDING">>,
    <<"EXPIRED",   "DRAFT",    "DRAFT">> }

(* transition(from, action) returns `to'; where no triple matches it throws *)
(* and the handler that called it answers 400.                              *)
transition(from, action, to) == <<from, action, to>> \in transitions
=============================================================================
