------------------------------- MODULE Profile -------------------------------
(* The public face of one account: the seller's type and the business name *)
(* that DaData confirmed (update, verifyBusiness), the avatar and its file *)
(* in S3 (updateAvatar), and what deleteAccount does to them.  No account  *)
(* depends on another's here.  A request awaits between its steps, and     *)
(* others run meanwhile; S3 and DaData may fail, the process may die.      *)
(*                                                                         *)
(* A definition op_variant before op is op with a mistake in it; nothing   *)
(* here uses it.  Putting it in op's place breaks one of the properties.   *)
(***************************************************************************)
EXTENDS FiniteSets

CONSTANTS
  Requests,  (* requests that may be under way at once                     *)
  Files,     (* names of uploaded avatars                                  *)
  external,  (* a picture that is not ours: the URL an OAuth provider gave *)
  null

ProfileAssumption ==
  /\ external # null
  /\ {external, null} \cap Files = {}

VARIABLES
  row,       (* the account's row in users                                 *)
  files,     (* the avatars in S3                                          *)
  req        (* the requests                                               *)

vars == <<row, files, req>>

-----------------------------------------------------------------------------

Type == {"INDIVIDUAL", "INDIVIDUAL_ENTREPRENEUR", "BUSINESS"}

(* What an INN can stand for.                                              *)
Verifiable == {"INDIVIDUAL_ENTREPRENEUR", "BUSINESS"}

Picture == Files \cup {external, null}

(* businessInn, businessName and businessVerifiedAt are written together;  *)
(* business is the type of seller that the verified name names.            *)
Row == [type : Type, business : Verifiable \cup {null}, picture : Picture,
        deleted : BOOLEAN]

(* step is what a request does next, with the argument it came with and    *)
(* what it has read of the row.                                            *)
Request == [step : {"idle", "updating", "verifying", "uploaded", "replacing",
                    "saving", "deleting", "anonymizing"},
            arg : Type \cup Picture, old : Type \cup Picture]

Idle == [step |-> "idle", arg |-> null, old |-> null]

TypeOK ==
  /\ row \in Row
  /\ files \subseteq Files
  /\ req \in [Requests -> Request]

Init ==
  /\ row \in [type : {"INDIVIDUAL"}, business : {null},
              picture : {external, null}, deleted : {FALSE}]
  /\ files = {}
  /\ req = [r \in Requests |-> Idle]

-----------------------------------------------------------------------------

(* AuthGuard lets the request of an account through that is not deleted    *)
(* when it comes; the handler's own findById does not look again.          *)
Start(r, step, arg, old) ==
  /\ req[r].step = "idle"
  /\ ~row.deleted
  /\ req' = [req EXCEPT ![r] = [step |-> step, arg |-> arg, old |-> old]]

At(r, step) == req[r].step = step

Goes(r, step, old) ==
  req' = [req EXCEPT ![r].step = step, ![r].old = old]

Ends(r) == req' = [req EXCEPT ![r] = Idle]

(* The answer is an error: DaData or S3 could not be reached, the INN is   *)
(* nobody's or of a closed firm, the database failed.  Nothing is undone.  *)
fail(r) ==
  /\ ~At(r, "idle")
  /\ Ends(r)
  /\ UNCHANGED <<row, files>>

crash ==
  /\ \E r \in Requests : ~At(r, "idle")
  /\ req' = [r \in Requests |-> Idle]
  /\ UNCHANGED <<row, files>>

-----------------------------------------------------------------------------
(* Type of seller.                                                         *)

(* t = null: the form did not send a type.                                 *)
update(r, t) ==
  /\ Start(r, "updating", t, row.type)
  /\ UNCHANGED <<row, files>>

(* typeChanged compares with the type that findById read.                  *)
updateWrite(r) ==
  LET dtoType     == req[r].arg
      typeChanged == dtoType # null /\ dtoType # req[r].old
  IN
  /\ At(r, "updating")
  /\ row' = [row EXCEPT !.type = IF dtoType = null THEN @ ELSE dtoType,
                        !.business = IF typeChanged THEN null ELSE @]
  /\ Ends(r)
  /\ UNCHANGED files

(* The question goes out to DaData.                                        *)
verifyBusiness(r) ==
  /\ Start(r, "verifying", null, null)
  /\ UNCHANGED <<row, files>>

(* DaData knows the INN, as an active firm or entrepreneur.                *)
verified(r, t) ==
  /\ At(r, "verifying")
  /\ row' = [row EXCEPT !.type = t, !.business = t]
  /\ Ends(r)
  /\ UNCHANGED files

-----------------------------------------------------------------------------
(* Avatar.                                                                 *)

(* The controller uploads the file, under a name that was never used.      *)
upload(r, f) ==
  /\ f \notin files \cup {row.picture}
  /\ \A q \in Requests : f \notin {req[q].arg, req[q].old}
  /\ Start(r, "uploaded", f, null)
  /\ files' = files \cup {f}
  /\ UNCHANGED row

updateAvatar(r) ==
  /\ At(r, "uploaded")
  /\ Goes(r, "replacing", row.picture)
  /\ UNCHANGED <<row, files>>

(* Everything goes that is not the new file.                               *)
deleteOld_others(r) ==
  /\ At(r, "replacing")
  /\ files' = files \cap {req[r].arg}
  /\ Goes(r, "saving", null)
  /\ UNCHANGED row

(* deleteFile of the picture that was read, if it is ours (S3 does not     *)
(* mind that a file is not there).                                         *)
deleteOld(r) ==
  /\ At(r, "replacing")
  /\ files' = files \ {req[r].old}
  /\ Goes(r, "saving", null)
  /\ UNCHANGED row

(* S3 refuses: the error is caught and the old file stays.                 *)
deleteOldFails(r) ==
  /\ At(r, "replacing")
  /\ req[r].old \in files
  /\ Goes(r, "saving", null)
  /\ UNCHANGED <<row, files>>

savePicture(r) ==
  /\ At(r, "saving")
  /\ row' = [row EXCEPT !.picture = req[r].arg]
  /\ Ends(r)
  /\ UNCHANGED files

-----------------------------------------------------------------------------
(* Deletion of the account (an administrator's is refused).                *)

deleteAccount(r) ==
  /\ Start(r, "deleting", null, row.picture)
  /\ UNCHANGED <<row, files>>

(* Before the transaction; when S3 refuses, the account is not deleted.    *)
deleteFileByUrl(r) ==
  /\ At(r, "deleting")
  /\ files' = files \ {req[r].old}
  /\ Goes(r, "anonymizing", null)
  /\ UNCHANGED row

(* The transaction's last statement.                                       *)
anonymize(r) ==
  /\ At(r, "anonymizing")
  /\ row' = [row EXCEPT !.picture = null, !.deleted = TRUE]
  /\ Ends(r)
  /\ UNCHANGED files

-----------------------------------------------------------------------------

Step(r) ==
  \/ \E t \in Type \cup {null} : update(r, t)
  \/ updateWrite(r)
  \/ verifyBusiness(r)
  \/ \E t \in Verifiable : verified(r, t)
  \/ \E f \in Files : upload(r, f)
  \/ updateAvatar(r)
  \/ deleteOld(r)
  \/ savePicture(r)
  \/ deleteAccount(r)
  \/ deleteFileByUrl(r)
  \/ anonymize(r)

Next ==
  \/ \E r \in Requests : Step(r) \/ deleteOldFails(r) \/ fail(r)
  \/ crash

Spec == Init /\ [][Next]_vars
=============================================================================
