---------------------------- MODULE AccountAccess ----------------------------
(***************************************************************************)
(* The access to one account: its password, the one-time code and the       *)
(* token with which a forgotten password is replaced, and the two flags     *)
(* that lock it, is_blocked and is_deleted.  A request reaches the row      *)
(* through JwtGuard, or without it for sign-in and the steps of a reset.    *)
(* Comparing and hashing a password take an await each but read nothing     *)
(* that others write, so they belong to the read they follow.               *)
(***************************************************************************)
EXTENDS Integers, FiniteSets

CONSTANTS
  Password,   \* secrets a request may carry
  Req,        \* slots: how many requests run together
  MaxCodes,   \* bound: codes that are generated, and tokens
  None,       \* null
  Faults      \* TRUE iff a database call may be rejected

ASSUME ConstantsAssumption ==
  /\ Password # {}
  /\ MaxCodes \in Nat
  /\ None \notin Password /\ None \notin Int
  /\ Faults \in BOOLEAN

VARIABLES
  password,  \* the secret whose hash the row holds
  otp,       \* otp: a code, or null
  fresh,     \* otp_expires is null or in the future
  token,     \* otp_verification_token, or null
  blocked,   \* is_blocked
  deleted,   \* is_deleted
  device,    \* TRUE iff fcm_token is set
  codes,     \* how many codes have been generated
  tokens,    \* how many tokens have been generated
  req,       \* the requests in flight
  inbox,     \* codes that have been mailed to the owner
  handed,    \* tokens that have been answered
  over,      \* auxiliary: codes that were stored and then replaced, used or expired
  spent,     \* auxiliary: tokens that were stored and then replaced or used
  flips,     \* auxiliary: is_blocked was toggled an odd number of times
  crossed    \* auxiliary: two toggles have been in flight at once

locks  == <<blocked, deleted, flips, crossed>>
resets == <<otp, fresh, token, codes, tokens, inbox, handed, over, spent>>
vars   == <<password, device, locks, resets, req>>

-----------------------------------------------------------------------------
Code == 1..MaxCodes
\* Points a request reaches once it was admitted to a live account.
Admitted == {"device", "changeRead", "change", "deleteRead", "delete"}
\* Points behind a comparison with the password that was read.
Trusted  == {"device", "change", "delete"}
Request  ==
  [pc    : Admitted \cup {"idle", "sign", "changeGuard", "deleteGuard",
             "codeStore", "codeMail", "verifyFind", "verify",
             "verifyAnswer", "resetFind", "reset", "toggleFind", "toggle"},
   given : Password \cup {None},   \* the password the request carries
   want  : Password \cup {None},   \* the password it asks for
   item  : Code \cup {None},       \* the code or the token it carries, if known
   flag  : BOOLEAN,                \* is_blocked as read
   barred : BOOLEAN,  \* auxiliary: the account was locked ever since it began
   right  : BOOLEAN]  \* auxiliary: given was the password since it began
NoRequest == [pc |-> "idle", given |-> None, want |-> None, item |-> None,
              flag |-> FALSE, barred |-> FALSE, right |-> FALSE]

Init ==
  /\ password \in Password /\ device = FALSE
  /\ otp = None /\ fresh = TRUE /\ token = None /\ codes = 0 /\ tokens = 0
  /\ blocked = FALSE /\ deleted = FALSE
  /\ req = [r \in Req |-> NoRequest]
  /\ inbox = {} /\ handed = {} /\ over = {} /\ spent = {}
  /\ flips = FALSE /\ crossed = FALSE

Locked == blocked \/ deleted
At(r, p) == req[r].pc = p
Go(r, p) == req' = [req EXCEPT ![r].pc = p]
Finish(r) == req' = [req EXCEPT ![r] = NoRequest]
\* The request continues at p if it may, and is answered with an error if not.
Proceed(r, may, p) == IF may THEN Go(r, p) ELSE Finish(r)

Start(r, p, given, want, item) ==
  /\ At(r, "idle")
  /\ req' = [req EXCEPT ![r] = [pc |-> p, given |-> given, want |-> want,
                item |-> item, flag |-> FALSE, barred |-> Locked,
                right |-> given = password]]

\* Request r writes the password and ends.
WritePassword(r) ==
  /\ password' = req[r].want
  /\ req' = [q \in Req |-> IF q = r THEN NoRequest
       ELSE [req[q] EXCEPT !.right = @ \/ req[q].given = req[r].want]]

-----------------------------------------------------------------------------
\* signin, for an identifier of this account; given is the password typed.
SignBegin(r, given) ==
  /\ Start(r, "sign", given, None, None)
  /\ UNCHANGED <<password, device, locks, resets>>

\* The row is read and the password compared; a request that carries an
\* fcm_token goes on to store it.
SignFind(r) ==
  /\ At(r, "sign")
  /\ \E carriesToken \in BOOLEAN :
       Proceed(r, ~Locked /\ req[r].given = password /\ carriesToken,
               "device")
  /\ UNCHANGED <<password, device, locks, resets>>

SignDevice(r) ==
  /\ At(r, "device")
  /\ device' = TRUE
  /\ Finish(r)
  /\ UNCHANGED <<password, locks, resets>>

-----------------------------------------------------------------------------
\* Variant: the guard lets deleted accounts in.
GuardBlockedOnly(r, from, to) ==
  /\ At(r, from)
  /\ Proceed(r, ~blocked, to)
  /\ UNCHANGED <<password, device, locks, resets>>

\* JwtGuard: a token of the account is not enough, its row decides.
Guard(r, from, to) ==
  /\ At(r, from)
  /\ Proceed(r, ~Locked, to)
  /\ UNCHANGED <<password, device, locks, resets>>

-----------------------------------------------------------------------------
\* changePassword; a confirmation that differs changes nothing.
ChangeBegin(r, given, want) ==
  /\ Start(r, "changeGuard", given, want, None)
  /\ UNCHANGED <<password, device, locks, resets>>

\* Variant: only the new password is compared with the old one.
ChangeReadNew(r) ==
  /\ At(r, "changeRead")
  /\ Proceed(r, req[r].want # password, "change")
  /\ UNCHANGED <<password, device, locks, resets>>

ChangeRead(r) ==
  /\ At(r, "changeRead")
  /\ Proceed(r, req[r].given = password /\ req[r].want # password, "change")
  /\ UNCHANGED <<password, device, locks, resets>>

ChangeWrite(r) ==
  /\ At(r, "change")
  /\ WritePassword(r)
  /\ UNCHANGED <<device, locks, resets>>

\* deleteAccount marks the row.
DeleteBegin(r, given) ==
  /\ Start(r, "deleteGuard", given, None, None)
  /\ UNCHANGED <<password, device, locks, resets>>

DeleteRead(r) ==
  /\ At(r, "deleteRead")
  /\ Proceed(r, req[r].given = password, "delete")
  /\ UNCHANGED <<password, device, locks, resets>>

DeleteWrite(r) ==
  /\ At(r, "delete")
  /\ deleted' = TRUE
  /\ Finish(r)
  /\ UNCHANGED <<password, device, blocked, flips, crossed, resets>>

-----------------------------------------------------------------------------
\* forgetPassword: a code is generated, stored, and mailed once it is stored.
\* Neither this nor the next two handlers ask whether the account is locked.
CodeBegin(r) ==
  /\ codes < MaxCodes
  /\ At(r, "idle")
  /\ codes' = codes + 1
  /\ req' = [req EXCEPT ![r] = [NoRequest EXCEPT !.pc = "codeStore",
                                                 !.item = codes + 1]]
  /\ UNCHANGED <<password, device, locks, otp, fresh, token, tokens, inbox,
                 handed, over, spent>>

\* Variant: the update is not awaited, so the mail does not depend on it.
CodeStoreUnawaited(r) ==
  /\ At(r, "codeStore")
  /\ Go(r, "codeMail")
  /\ UNCHANGED <<password, device, locks, resets>>

CodeStore(r) ==
  /\ At(r, "codeStore")
  /\ otp' = req[r].item /\ fresh' = TRUE
  /\ over' = over \cup ({otp} \ {None})
  /\ Go(r, "codeMail")
  /\ UNCHANGED <<password, device, locks, token, codes, tokens, inbox,
                 handed, spent>>

CodeMail(r) ==
  /\ At(r, "codeMail")
  /\ inbox' = inbox \cup {req[r].item}
  /\ Finish(r)
  /\ UNCHANGED <<password, device, locks, otp, fresh, token, codes, tokens,
                 handed, over, spent>>

\* Ten minutes pass since a code was stored.
Expire ==
  /\ otp # None /\ fresh
  /\ fresh' = FALSE
  /\ over' = over \cup {otp}
  /\ UNCHANGED <<password, device, locks, otp, token, codes, tokens, req,
                 inbox, handed, spent>>

-----------------------------------------------------------------------------
\* verifyOtp, by anybody, since the route is public: with a code that was mailed
\* or with another text, which is None.
VerifyBegin(r, c) ==
  /\ c \in inbox \cup {None}
  /\ Start(r, "verifyFind", None, None, c)
  /\ UNCHANGED <<password, device, locks, resets>>

\* A code is compared while one is stored, and its expiry when there is one;
\* with none stored any code is accepted.  The token is generated here.
VerifyFind(r) ==
  /\ At(r, "verifyFind")
  /\ \/ /\ otp \in {None, req[r].item} /\ fresh
        /\ tokens < MaxCodes
        /\ tokens' = tokens + 1
        /\ req' = [req EXCEPT ![r].pc = "verify", ![r].item = tokens + 1]
     \/ /\ otp \notin {None, req[r].item} \/ ~fresh
        /\ UNCHANGED tokens
        /\ Finish(r)
  /\ UNCHANGED <<password, device, locks, otp, fresh, token, codes, inbox,
                 handed, over, spent>>

\* Variant: the expiry of the code stays in the row.
VerifyKeepExpiry(r) ==
  /\ At(r, "verify")
  /\ otp' = None /\ token' = req[r].item
  /\ over' = over \cup ({otp} \ {None})
  /\ spent' = spent \cup ({token} \ {None})
  /\ Go(r, "verifyAnswer")
  /\ UNCHANGED <<password, device, locks, fresh, codes, tokens, inbox, handed>>

VerifyWrite(r) ==
  /\ At(r, "verify")
  /\ otp' = None /\ fresh' = TRUE /\ token' = req[r].item
  /\ over' = over \cup ({otp} \ {None})
  /\ spent' = spent \cup ({token} \ {None})
  /\ Go(r, "verifyAnswer")
  /\ UNCHANGED <<password, device, locks, codes, tokens, inbox, handed>>

VerifyAnswer(r) ==
  /\ At(r, "verifyAnswer")
  /\ handed' = handed \cup {req[r].item}
  /\ Finish(r)
  /\ UNCHANGED <<password, device, locks, otp, fresh, token, codes, tokens,
                 inbox, over, spent>>

-----------------------------------------------------------------------------
\* resetPassword, public as well: with a token that was answered or another text.
ResetBegin(r, t, want) ==
  /\ t \in handed \cup {None}
  /\ Start(r, "resetFind", None, want, t)
  /\ UNCHANGED <<password, device, locks, resets>>

\* A token is compared while one is stored; with none stored any is accepted.
ResetFind(r) ==
  /\ At(r, "resetFind")
  /\ Proceed(r, token \in {None, req[r].item}, "reset")
  /\ UNCHANGED <<password, device, locks, resets>>

ResetWrite(r) ==
  /\ At(r, "reset")
  /\ token' = None
  /\ spent' = spent \cup ({token} \ {None})
  /\ WritePassword(r)
  /\ UNCHANGED <<device, locks, otp, fresh, codes, tokens, inbox, handed,
                 over>>

-----------------------------------------------------------------------------
\* blockUnblockAccountByAdmin writes the negation of what it read.
ToggleBegin(r) ==
  /\ Start(r, "toggleFind", None, None, None)
  /\ crossed' = (crossed \/ \E q \in Req : req[q].pc \in {"toggleFind", "toggle"})
  /\ UNCHANGED <<password, device, blocked, deleted, resets, flips>>

ToggleFind(r) ==
  /\ At(r, "toggleFind")
  /\ req' = [req EXCEPT ![r].pc = "toggle", ![r].flag = blocked]
  /\ UNCHANGED <<password, device, locks, resets>>

\* Request r writes is_blocked and ends.
WriteBlocked(r, b) ==
  /\ blocked' = b
  /\ flips' = ~flips
  /\ req' = [q \in Req |-> IF q = r THEN NoRequest
                ELSE [req[q] EXCEPT !.barred = @ /\ (b \/ deleted)]]

\* Variant: the account can only be blocked.
ToggleBlocks(r) ==
  /\ At(r, "toggle")
  /\ WriteBlocked(r, TRUE)
  /\ UNCHANGED <<password, device, deleted, resets, crossed>>

ToggleWrite(r) ==
  /\ At(r, "toggle")
  /\ WriteBlocked(r, ~req[r].flag)
  /\ UNCHANGED <<password, device, deleted, resets, crossed>>

\* A rejected call ends the handler; what it wrote stays.
Fail(r) ==
  /\ Faults
  /\ ~At(r, "idle")
  /\ Finish(r)
  /\ UNCHANGED <<password, device, locks, resets>>

-----------------------------------------------------------------------------
Arrive(r) ==
  \/ CodeBegin(r) \/ ToggleBegin(r)
  \/ \E given \in Password :
       \/ SignBegin(r, given) \/ DeleteBegin(r, given)
       \/ \E want \in Password : ChangeBegin(r, given, want)
  \/ \E item \in Code \cup {None} :
       \/ VerifyBegin(r, item)
       \/ \E want \in Password : ResetBegin(r, item, want)

Step(r) ==
  \/ SignFind(r) \/ SignDevice(r)
  \/ Guard(r, "changeGuard", "changeRead") \/ ChangeRead(r) \/ ChangeWrite(r)
  \/ Guard(r, "deleteGuard", "deleteRead") \/ DeleteRead(r) \/ DeleteWrite(r)
  \/ CodeStore(r) \/ CodeMail(r)
  \/ VerifyFind(r) \/ VerifyWrite(r) \/ VerifyAnswer(r)
  \/ ResetFind(r) \/ ResetWrite(r)
  \/ ToggleFind(r) \/ ToggleWrite(r)

Next == Expire \/ \E r \in Req : Arrive(r) \/ Step(r) \/ Fail(r)

Spec == Init /\ [][Next]_vars

-----------------------------------------------------------------------------
\* The types of the variables; an expiry in the past stands beside a code only,
\* so it never refuses a code that is yet to be stored.
TypeOK ==
  /\ password \in Password /\ device \in BOOLEAN
  /\ otp \in Code \cup {None} /\ token \in Code \cup {None}
  /\ fresh \in BOOLEAN /\ (otp = None => fresh)
  /\ codes \in 0..MaxCodes /\ tokens \in 0..MaxCodes
  /\ blocked \in BOOLEAN /\ deleted \in BOOLEAN
  /\ req \in [Req -> Request]
  /\ inbox \subseteq 1..codes /\ over \subseteq 1..codes
  /\ handed \subseteq 1..tokens /\ spent \subseteq 1..tokens
  /\ flips \in BOOLEAN /\ crossed \in BOOLEAN

\* A request that arrives while the account is locked is not admitted as long
\* as the account stays locked, whatever was signed in or in flight before.
LockedStaysOut == \A r \in Req : req[r].barred => req[r].pc \notin Admitted

\* Whoever is behind changePassword, deleteAccount or a sign-in has given a
\* password that was the account's at some moment of the request, although the
\* password may have been replaced since it was read.  A reset asks for none.
TrustedKnewPassword == \A r \in Req : req[r].pc \in Trusted => req[r].right

\* A code the owner was mailed is accepted until another one is stored, it is
\* used, or ten minutes are over: no failure between the update and the mail,
\* and no second request, leaves the owner with a code that never worked.
MailedCodeWorks == \A c \in inbox \ over : otp = c /\ fresh

\* A token that was answered resets the password until another one is
\* stored or a reset has used it.
HandedTokenWorks == \A t \in handed \ spent : token = t

\* What was mailed and what was answered is accepted.
CodesWork == MailedCodeWorks /\ HandedTokenWorks

\* Unless two toggles were in flight at once, every toggle of an administrator
\* counts.
ToggleCounted == crossed \/ blocked = flips
=============================================================================
