------------------------- MODULE VehicleVerification -------------------------
(***************************************************************************)
(* The vehicle ownership documents of one user, and the two flags of the    *)
(* user that tell about them: is_vehicle_ownership_document_submitted and   *)
(* the badge is_vehicle_verified.  Every handler of UserDocumentService     *)
(* reads a document, writes it, and then writes the user, in three calls.   *)
(***************************************************************************)
EXTENDS Integers, FiniteSets

CONSTANTS
  Doc,     \* bound: identities of documents, free again when nobody holds them
  Req,     \* slots: how many requests run together
  NoDoc,   \* "no document" in a slot
  Faults   \* TRUE iff a database call may be rejected

ASSUME ConstantsAssumption ==
  /\ IsFiniteSet(Doc)
  /\ IsFiniteSet(Req)
  /\ NoDoc \notin Doc
  /\ Faults \in BOOLEAN

VARIABLES
  docs,       \* documents in the database
  verified,   \* documents with is_verified
  matching,   \* documents whose unique_id is the user's licence_id
  badge,      \* the user's is_vehicle_verified
  submitted,  \* the user's is_vehicle_ownership_document_submitted
  req,        \* the requests in flight
  torn,       \* auxiliary: a document was written and the user was not
  overlapped  \* auxiliary: two handlers have been in flight at once

vars == <<docs, verified, matching, badge, submitted, req, torn,
          overlapped>>

-----------------------------------------------------------------------------
RowPoints  == {"existing", "create", "update", "delete", "verify"}
UserPoints == {"submit", "withdraw", "award"}
Request == [pc   : {"idle"} \cup RowPoints \cup UserPoints,
            doc  : Doc \cup {NoDoc},
            flag : BOOLEAN]   \* is_verified as read, or as asked for
NoRequest == [pc |-> "idle", doc |-> NoDoc, flag |-> FALSE]

Init ==
  /\ docs = {} /\ verified = {} /\ matching = {}
  /\ badge = FALSE /\ submitted = FALSE /\ torn = FALSE
  /\ overlapped = FALSE
  /\ req = [r \in Req |-> NoRequest]

At(r, p) == req[r].pc = p
Go(r, p) == req' = [req EXCEPT ![r].pc = p]
Finish(r) == req' = [req EXCEPT ![r] = NoRequest]
Start(r, p, d, flag) ==
  /\ At(r, "idle")
  /\ req' = [req EXCEPT ![r] = [pc |-> p, doc |-> d, flag |-> flag]]
  /\ overlapped' = (overlapped \/ \E q \in Req : ~At(q, "idle"))

-----------------------------------------------------------------------------
\* uploadDocument: a request with a file starts.
UploadBegin(r) ==
  /\ Start(r, "existing", NoDoc, FALSE)
  /\ UNCHANGED <<docs, verified, matching, badge, submitted, torn>>

UploadExisting(r) ==
  /\ At(r, "existing")
  /\ IF docs = {} THEN Go(r, "create") ELSE Finish(r)
  /\ UNCHANGED <<docs, verified, matching, badge, submitted, torn,
                 overlapped>>

UploadCreate(r) ==
  /\ At(r, "create")
  /\ \E d \in Doc \ (docs \cup {req[q].doc : q \in Req}) :
       /\ docs' = docs \cup {d}
       /\ matching' \in {matching, matching \cup {d}}
  /\ Go(r, "submit")
  /\ UNCHANGED <<verified, badge, submitted, torn, overlapped>>

UploadSubmit(r) ==
  /\ At(r, "submit")
  /\ submitted' = TRUE
  /\ Finish(r)
  /\ UNCHANGED <<docs, verified, matching, badge, torn, overlapped>>

-----------------------------------------------------------------------------
\* updateDocument: the unique_id may change; a verified document stays so.
UpdateBegin(r, d) ==
  /\ d \in docs
  /\ Start(r, "update", d, FALSE)
  /\ UNCHANGED <<docs, verified, matching, badge, submitted, torn>>

\* An update of a document that is gone is rejected.
UpdateRow(r) ==
  /\ At(r, "update")
  /\ LET d == req[r].doc IN
       matching' \in IF d \in docs THEN {matching \cup {d}, matching \ {d}}
                     ELSE {matching}
  /\ Finish(r)
  /\ UNCHANGED <<docs, verified, badge, submitted, torn, overlapped>>

-----------------------------------------------------------------------------
\* deleteDocument keeps in mind whether the document was verified when read.
DeleteBegin(r, d) ==
  /\ d \in docs
  /\ Start(r, "delete", d, d \in verified)
  /\ UNCHANGED <<docs, verified, matching, badge, submitted, torn>>

DeleteRow(r) ==
  /\ At(r, "delete")
  /\ docs' = docs \ {req[r].doc}
  /\ verified' = verified \ {req[r].doc}
  /\ matching' = matching \ {req[r].doc}
  /\ IF req[r].doc \in docs THEN Go(r, "withdraw") ELSE Finish(r)
  /\ UNCHANGED <<badge, submitted, torn, overlapped>>

\* Variant: the badge is kept.
DeleteKeepBadge(r) ==
  /\ At(r, "withdraw")
  /\ submitted' = FALSE
  /\ Finish(r)
  /\ UNCHANGED <<docs, verified, matching, badge, torn, overlapped>>

DeleteWithdraw(r) ==
  /\ At(r, "withdraw")
  /\ submitted' = FALSE
  /\ badge' = (badge /\ ~req[r].flag)
  /\ Finish(r)
  /\ UNCHANGED <<docs, verified, matching, torn, overlapped>>

-----------------------------------------------------------------------------
\* verifyDocument by an administrator; ok is what the administrator decides.
VerifyBegin(r, d, ok) ==
  /\ d \in docs
  /\ ok => d \in matching
  /\ Start(r, "verify", d, ok)
  /\ UNCHANGED <<docs, verified, matching, badge, submitted, torn>>

\* Variant: a document that is gone is written again.
VerifyAnyRow(r) ==
  /\ At(r, "verify")
  /\ verified' = IF req[r].flag THEN verified \cup {req[r].doc}
                 ELSE verified \ {req[r].doc}
  /\ Go(r, "award")
  /\ UNCHANGED <<docs, matching, badge, submitted, torn, overlapped>>

\* An update of a document that is gone is rejected.
VerifyRow(r) ==
  /\ At(r, "verify")
  /\ IF req[r].doc \in docs
       THEN /\ verified' = IF req[r].flag THEN verified \cup {req[r].doc}
                           ELSE verified \ {req[r].doc}
            /\ Go(r, "award")
       ELSE /\ UNCHANGED verified
            /\ Finish(r)
  /\ UNCHANGED <<docs, matching, badge, submitted, torn, overlapped>>

VerifyAward(r) ==
  /\ At(r, "award")
  /\ badge' = req[r].flag
  /\ Finish(r)
  /\ UNCHANGED <<docs, verified, matching, submitted, torn, overlapped>>

\* A rejected call ends the handler; what it wrote stays.
Fail(r) ==
  /\ Faults
  /\ ~At(r, "idle")
  /\ torn' = (torn \/ req[r].pc \in UserPoints)
  /\ Finish(r)
  /\ UNCHANGED <<docs, verified, matching, badge, submitted, overlapped>>

-----------------------------------------------------------------------------
Arrive(r) ==
  \/ UploadBegin(r)
  \/ \E d \in Doc : \/ UpdateBegin(r, d) \/ DeleteBegin(r, d)
                    \/ \E ok \in BOOLEAN : VerifyBegin(r, d, ok)

Step(r) == \/ UploadExisting(r) \/ UploadCreate(r) \/ UploadSubmit(r)
           \/ UpdateRow(r) \/ DeleteRow(r) \/ DeleteWithdraw(r)
           \/ VerifyRow(r) \/ VerifyAward(r)

Next == \E r \in Req : Arrive(r) \/ Step(r) \/ Fail(r)

Spec == Init /\ [][Next]_vars

-----------------------------------------------------------------------------
\* The types of the variables; only a document that exists is verified.
TypeOK ==
  /\ docs \subseteq Doc
  /\ verified \subseteq docs /\ matching \subseteq docs
  /\ badge \in BOOLEAN /\ submitted \in BOOLEAN /\ torn \in BOOLEAN
  /\ overlapped \in BOOLEAN
  /\ req \in [Req -> Request]

\* Uploads that do not overlap with another handler never leave two documents.
OneDocument == overlapped \/ Cardinality(docs) <= 1

\* Handlers that do not overlap leave a badge that tells that a verified
\* document exists and a flag that tells that a document does, unless one is
\* about to write the user, or failed to: a handler that fails before it
\* writes the document leaves both right.
Settled         == ~torn /\ \A r \in Req : req[r].pc \notin UserPoints
BadgeAgrees     == Settled /\ ~overlapped => (badge <=> verified # {})
SubmittedAgrees == Settled /\ ~overlapped => (submitted <=> docs # {})

\* The user and the documents agree, as far as handlers do not overlap.
DocumentsAgree == OneDocument /\ BadgeAgrees /\ SubmittedAgrees

\* "Only one document per type is allowed" (UserDocumentController).
\* The code does not keep this: two uploads at once both find none.
OneDocumentPerType == Cardinality(docs) <= 1

\* "Verification failed: License plate in profile does not match the document
\* unique ID": no document becomes verified that names another licence.
\* The code does not keep this: the unique_id may change after it was compared.
VerifiedMatches == [][verified' \ verified \subseteq matching']_vars
=============================================================================
