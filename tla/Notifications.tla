--------------------------- MODULE Notifications -----------------------------
(***************************************************************************)
(* The notification dispatcher beyond parking and chat, with the            *)
(* preferences it asks, the events it leaves in the feed of a user, and the *)
(* callers that launch it without waiting: group membership, documents, the *)
(* expiry check, notices of an area, and the moderation of ratings.         *)
(*                                                                          *)
(* A dispatch works through its users one by one, one database or socket    *)
(* call a step.  What it notifies of goes on changing meanwhile.            *)
(***************************************************************************)

CONSTANTS
  User,    \* users
  Admin,   \* those with the role ADMIN
  Ratee,   \* the user whose rating is modelled
  Near,    \* users within the radius of a notice to an area
  Active,  \* bound: users who do something, and whom things happen to
  Job,     \* bound: dispatches that are followed
  Scenes,  \* bound: the kinds of dispatch that meet in one behaviour, and
           \* "feed" where the users work on their feeds
  None,    \* no user, no preferences
  Faults   \* TRUE iff a database or push call may be rejected

Types == {"rating", "groupChat", "system"}   \* keys of the preferences used
TypeOf == [rating |-> "rating", added |-> "groupChat", removed |-> "groupChat",
           verified |-> "system", admin |-> "system", area |-> "system",
           expiring |-> "document", expired |-> "document"]
Kinds == DOMAIN TypeOf
News  == {"added", "removed"}

ASSUME ConstantsAssumption ==
  /\ Admin \subseteq User /\ Ratee \in User /\ Active \subseteq User /\ Near \subseteq User
  /\ Scenes \subseteq SUBSET (Kinds \cup {"feed"})
  /\ None \notin User /\ \A S \in SUBSET Types : None # S
  /\ Faults \in BOOLEAN

VARIABLES
  scene,   \* the kinds of dispatch of this behaviour
  prefs,   \* types a user has switched on, or None: no row yet
  edit,    \* an updatePreferences in flight per user
  token,   \* users with a push token
  online,  \* users with a connected socket
  member,  \* users with a membership row in the group
  due,     \* the state of a user's document
  rating,  \* the rating of Ratee by somebody
  author,  \* the request that writes it
  mod,     \* the request that decides on it
  job,     \* dispatches
  events,  \* the rows of the feed: job and user, the mark
  pushed,  \* pushes that reached the provider
  told,    \* auxiliary: every event there was
  on,      \* auxiliary: who had a job's type on at some moment of it
  steady,  \* auxiliary: who had it on all through it
  there    \* auxiliary: who was connected at some moment of a notice to an area

callers == <<member, due, rating, author, mod>>
users   == <<prefs, edit, token, online>>
aux     == <<on, steady, there>>
vars    == <<scene, users, callers, job, events, pushed, told, aux>>

-----------------------------------------------------------------------------
Edit   == [pc : {"idle", "new", "write"}, type : Types, value : BOOLEAN]
Rating == [status : {"none", "PENDING", "PUBLISHED", "REJECTED"},
           viewed : BOOLEAN]   \* auxiliary: a list for moderators showed this text
Status == {"PENDING", "PUBLISHED", "REJECTED"}
Mod    == [pc : {"idle", "write"}, gone : BOOLEAN, status : Status]
Dispatch == [pc     : {"idle", "count", "list", "next", "new", "user", "event",
                       "presence", "push", "done"},
             kind   : Kinds,
             todo   : SUBSET User,        \* users it has yet to visit
             user   : User \cup {None},   \* the user it visits
             for    : SUBSET User,        \* auxiliary: whom it was launched for
             failed : SUBSET User]        \* auxiliary: a rejected call
NoJob == [pc |-> "idle", kind |-> "admin", todo |-> {}, user |-> None,
          for |-> {}, failed |-> {}]
NoEdit == [pc |-> "idle", type |-> "system", value |-> TRUE]
NoMod  == [pc |-> "idle", gone |-> FALSE, status |-> "REJECTED"]
NoRating == [status |-> "none", viewed |-> FALSE]

Init ==
  /\ scene \in Scenes
  /\ prefs \in [User -> {None, Types}]
  /\ \A u \in User \ Active : prefs[u] = Types
  /\ edit = [u \in User |-> NoEdit]
  /\ token \in SUBSET User /\ User \ Active \subseteq token /\ online = {}
  /\ member = {} /\ due = [u \in User |-> "fine"]
  /\ rating = NoRating /\ author = "idle" /\ mod = NoMod
  /\ job = [j \in Job |-> NoJob]
  /\ events = {} /\ pushed = {} /\ told = {}
  /\ on = [j \in Job |-> {}] /\ steady = [j \in Job |-> {}]
  /\ there = [j \in Job |-> {}]

At(j, p)    == job[j].pc = p
Launched    == {j \in Job : ~At(j, "idle")}
InFlight    == {j \in Launched : ~At(j, "done")}

\* isNotificationEnabled: the default row has every type on, and a type that
\* is no key of the row, as "document", is on.
IsOn(p, u, type) == type \notin Types \/ p[u] = None \/ type \in p[u]
OnFor(p, kind)   == {u \in User : IsOn(p, u, TypeOf[kind])}

\* A caller launches a dispatch for some users; when all slots are taken the
\* dispatch is not followed.
Start(j, kind, us, pc) ==
  /\ job' = [job EXCEPT ![j] = [NoJob EXCEPT
       !.pc = pc, !.kind = kind, !.todo = us, !.for = us]]
  /\ on' = [on EXCEPT ![j] = OnFor(prefs, kind)]
  /\ steady' = [steady EXCEPT ![j] = OnFor(prefs, kind)]
  /\ there' = [there EXCEPT ![j] = IF kind = "area" THEN online ELSE {}]
  /\ UNCHANGED <<events, pushed, told, users>>

Launch(kind, us, pc) ==
  \/ \E j \in Job : At(j, "idle") /\ Start(j, kind, us, pc)
  \/ Launched = Job /\ UNCHANGED <<job, aux, events, pushed, told, users>>

Quiet == UNCHANGED <<scene, users, job, events, pushed, told, aux>>

-----------------------------------------------------------------------------
\* Group chat: a row is inserted or deleted, the number of members updated, and
\* then the user is told.
AddMember(u) ==
  /\ "added" \in scene /\ u \notin member
  /\ member' = member \cup {u}
  /\ Launch("added", {u}, "count")
  /\ UNCHANGED <<scene, due, rating, author, mod>>

RemoveMember(u) ==
  /\ "removed" \in scene /\ u \in member
  /\ member' = member \ {u}
  /\ Launch("removed", {u}, "count")
  /\ UNCHANGED <<scene, due, rating, author, mod>>

CountMembers(j) ==
  /\ At(j, "count")
  /\ job' = [job EXCEPT ![j].pc = "next"]
  /\ on' = [on EXCEPT ![j] = OnFor(prefs, job[j].kind)]
  /\ steady' = [steady EXCEPT ![j] = OnFor(prefs, job[j].kind)]
  /\ UNCHANGED <<scene, users, callers, events, pushed, told, there>>

\* Documents: the moderator's verdict goes to the owner, an upload or update
\* to the admins, who are listed by the dispatch.
SubmitDocument ==
  /\ "verified" \in scene
  /\ Launch("admin", {}, "list")
  /\ UNCHANGED <<scene, callers>>

VerifyDocument(u) ==
  /\ "verified" \in scene
  /\ Launch("verified", {u}, "next")
  /\ UNCHANGED <<scene, callers>>

RenewDocument(u) ==
  /\ "expiring" \in scene /\ due[u] # "fine"
  /\ due' = [due EXCEPT ![u] = "fine"]
  /\ Launch("admin", {}, "list")
  /\ UNCHANGED <<scene, member, rating, author, mod>>

\* Time passes: a document comes within thirty days of its end, and ends.
Age(u) ==
  /\ "expiring" \in scene /\ due[u] # "expired"
  /\ due' = [due EXCEPT ![u] = IF @ = "fine" THEN "expiring" ELSE "expired"]
  /\ UNCHANGED <<member, rating, author, mod>> /\ Quiet

\* checkExpiringDocuments, and an admin's notice to an area: both list their
\* users first.  Nothing in the repository calls checkExpiredDocuments yet, which
\* is written as checkExpiringDocuments is, "called by an external scheduler".
CheckExpiring ==
  /\ "expiring" \in scene
  /\ Launch("expiring", {}, "list")
  /\ UNCHANGED <<scene, callers>>

CheckExpired ==
  /\ "expired" \in scene
  /\ Launch("expired", {}, "list")
  /\ UNCHANGED <<scene, callers>>

SendToArea ==
  /\ "area" \in scene
  /\ Launch("area", {}, "list")
  /\ UNCHANGED <<scene, callers>>

-----------------------------------------------------------------------------
\* Ratings: an author writes or rewrites the rating, admins are told that it
\* awaits moderation, and any signed-in user sets its status, admin or not.
WriteBegin ==
  /\ "rating" \in scene /\ author = "idle"
  /\ author' = IF rating.status = "none" THEN "create" ELSE "revise"
  /\ UNCHANGED <<member, due, rating, mod>> /\ Quiet

\* A text that is new awaits moderation.
Pending == [status |-> "PENDING", viewed |-> FALSE]

\* The unique index on rater and ratee rejects a second rating.
CreateRating ==
  /\ author = "create" /\ author' = "idle"
  /\ IF rating.status = "none"
       THEN /\ rating' = Pending
            /\ Launch("admin", {}, "list")
            /\ UNCHANGED <<scene, member, due, mod>>
       ELSE UNCHANGED <<member, due, rating, mod>> /\ Quiet

\* A rating that was deleted meanwhile cannot be updated.
ReviseRating ==
  /\ author = "revise" /\ author' = "idle"
  /\ IF rating.status # "none"
       THEN /\ rating' = Pending
            /\ Launch("admin", {}, "list")
            /\ UNCHANGED <<scene, member, due, mod>>
       ELSE UNCHANGED <<member, due, rating, mod>> /\ Quiet

\* getRatingsByStatus shows the rating.
ViewRating ==
  /\ "rating" \in scene /\ rating.status # "none"
  /\ rating' = [rating EXCEPT !.viewed = TRUE]
  /\ UNCHANGED <<member, due, author, mod>> /\ Quiet

\* updateRatingStatus: the rating is found, then its status written, whatever
\* it is and was.  Bound: one request of this kind at a time.
DecideRating(status) ==
  /\ "rating" \in scene /\ mod.pc = "idle" /\ rating.status # "none"
  /\ mod' = [pc |-> "write", gone |-> FALSE, status |-> status]
  /\ UNCHANGED <<member, due, rating, author>> /\ Quiet

WriteStatus ==
  /\ mod.pc = "write"
  /\ mod' = NoMod
  /\ rating' = IF mod.gone THEN rating ELSE [rating EXCEPT !.status = mod.status]
  /\ IF ~mod.gone /\ mod.status = "PUBLISHED"
       THEN Launch("rating", {Ratee}, "next") /\ UNCHANGED scene
       ELSE Quiet
  /\ UNCHANGED <<member, due, author>>

DeleteRating ==
  /\ rating.status # "none"
  /\ rating' = NoRating
  /\ mod' = [mod EXCEPT !.gone = mod.pc # "idle"]
  /\ author' = "idle"   \* a revision in flight is rejected
  /\ UNCHANGED <<member, due>> /\ Quiet

-----------------------------------------------------------------------------
\* One dispatch.  Visit goes on to p for the user it is at, Skip to the next.
Visit(j, p) == job' = [job EXCEPT ![j].pc = p]
Skip(j)     == job' = [job EXCEPT ![j].pc = "next", ![j].user = None]
Frame       == UNCHANGED <<scene, users, callers, aux>>

\* The owners of documents that are due are notified if the query selected a
\* token of theirs.  That for expired documents selects none, so that nobody is
\* notified, although the dispatch is meant for their owners.
ExpiringOwners == {u \in token : due[u] = "expiring"}
ExpiredOwners  == {}

\* The users listed: all admins, those near, or those whose document is due.
Listed(kind) ==
  CASE kind = "admin"    -> Admin
    [] kind = "area"     -> Near
    [] kind = "expiring" -> ExpiringOwners
    [] kind = "expired"  -> ExpiredOwners

MeantFor(kind) == IF kind = "expired" THEN {u \in User : due[u] = "expired"}
                                      ELSE Listed(kind)

JobList(j) ==
  /\ At(j, "list")
  /\ job' = [job EXCEPT ![j].pc = "next",
       ![j].todo = Listed(job[j].kind), ![j].for = MeantFor(job[j].kind)]
  /\ UNCHANGED <<events, pushed, told>> /\ Frame

\* The stage after the preferences were found to allow the notification.
Allowed(kind) == CASE kind \in {"rating", "verified"} \cup News  -> "user"
                   [] kind \in {"admin", "expiring", "expired"} -> "event"
                   [] kind = "area"                              -> "presence"

\* Variant: the preferences are not asked for.
JobPrefsIgnored(j, u) ==
  /\ At(j, "next") /\ u \in job[j].todo
  /\ job' = [job EXCEPT ![j].todo = @ \ {u}, ![j].user = u,
                        ![j].pc = IF prefs[u] = None THEN "new"
                                  ELSE Allowed(job[j].kind)]
  /\ UNCHANGED <<events, pushed, told>> /\ Frame

\* isNotificationEnabled for the next user: no row yet, on, or off.
JobPrefs(j, u) ==
  /\ At(j, "next") /\ u \in job[j].todo
  /\ LET enabled == IsOn(prefs, u, TypeOf[job[j].kind]) IN
       job' = [job EXCEPT ![j].todo = @ \ {u},
         ![j].user = IF enabled THEN u ELSE None,
         ![j].pc   = IF prefs[u] = None THEN "new"
                     ELSE IF enabled THEN Allowed(job[j].kind) ELSE "next"]
  /\ UNCHANGED <<events, pushed, told>> /\ Frame

\* createDefaultPreferences: rejected when a row was created meanwhile.
JobNewPrefs(j) ==
  /\ At(j, "new")
  /\ IF prefs[job[j].user] = None
       THEN /\ prefs' = [prefs EXCEPT ![job[j].user] = Types]
            /\ Visit(j, Allowed(job[j].kind))
       ELSE /\ UNCHANGED prefs
            /\ job' = [job EXCEPT ![j].pc = "next", ![j].user = None,
                                  ![j].failed = @ \cup {job[j].user}]
  /\ UNCHANGED <<scene, edit, token, online, callers, events, pushed, told, aux>>

\* The user is read: ratings and verdicts are only recorded with a token.
JobUser(j) ==
  /\ At(j, "user")
  /\ IF job[j].user \in token \/ job[j].kind \in News
       THEN Visit(j, "event") ELSE Skip(j)
  /\ UNCHANGED <<events, pushed, told>> /\ Frame

Event(j) == [job |-> j, user |-> job[j].user, read |-> FALSE]
JobEvent(j) ==
  /\ At(j, "event")
  /\ events' = events \cup {Event(j)}
  /\ told' = told \cup {<<j, job[j].user>>}
  /\ IF job[j].kind # "area" /\ job[j].user \in token
       THEN Visit(j, "presence") ELSE Skip(j)
  /\ UNCHANGED pushed /\ Frame

\* A connected user gets no push; a notice to an area is then not recorded.
JobPresence(j) ==
  /\ At(j, "presence")
  /\ IF job[j].user \in online \/ job[j].user \notin token
       THEN Skip(j) ELSE Visit(j, "push")
  /\ UNCHANGED <<events, pushed, told>> /\ Frame

\* Variant: after a rejected push the user is notified once more.
JobPushRetries(j) ==
  /\ At(j, "push")
  /\ \/ /\ pushed' = pushed \cup {<<j, job[j].user>>}
        /\ IF job[j].kind = "area" THEN Visit(j, "event") ELSE Skip(j)
     \/ Faults /\ UNCHANGED pushed /\ Visit(j, "event")
  /\ UNCHANGED <<events, told>> /\ Frame

\* A push that is rejected is logged and taken for sent.
JobPush(j) ==
  /\ At(j, "push")
  /\ \/ pushed' = pushed \cup {<<j, job[j].user>>}
     \/ Faults /\ UNCHANGED pushed
  /\ IF job[j].kind = "area" THEN Visit(j, "event") ELSE Skip(j)
  /\ UNCHANGED <<events, told>> /\ Frame

\* Variant: a rejected call for one user ends the loop.
JobFailEnds(j) ==
  /\ Faults
  /\ At(j, "new") \/ At(j, "user") \/ At(j, "event")
  /\ job' = [job EXCEPT ![j].pc = "done", ![j].failed = @ \cup {job[j].user}]
  /\ UNCHANGED <<events, pushed, told>> /\ Frame

\* A rejected call is caught for the one user; a rejected list, or a rejected
\* update of the number of members, ends it all.
JobFail(j) ==
  /\ Faults
  /\ \/ /\ At(j, "new") \/ At(j, "user") \/ At(j, "event")
        /\ job' = [job EXCEPT ![j].pc = "next", ![j].user = None,
                              ![j].failed = @ \cup {job[j].user}]
     \/ /\ At(j, "list") \/ At(j, "count")
        /\ job' = [job EXCEPT ![j].pc = "done", ![j].failed = User]
  /\ UNCHANGED <<events, pushed, told>> /\ Frame

JobEnd(j) ==
  /\ At(j, "next") /\ job[j].todo = {}
  /\ Visit(j, "done")
  /\ UNCHANGED <<events, pushed, told>> /\ Frame

-----------------------------------------------------------------------------
\* The users: preferences, presence, and the feed.
UserFrame == UNCHANGED <<scene, token, callers, job, pushed, told>>

\* updatePreferences: the row is found or created, then updated in part.
EditBegin(u, type, value) ==
  /\ edit[u].pc = "idle"
  /\ type \in {TypeOf[k] : k \in scene \cap Kinds}
  /\ edit' = [edit EXCEPT ![u] = [pc |-> IF prefs[u] = None THEN "new" ELSE "write",
                                  type |-> type, value |-> value]]
  /\ UNCHANGED <<prefs, online, events, aux>> /\ UserFrame

EditCreate(u) ==
  /\ edit[u].pc = "new"
  /\ edit' = [edit EXCEPT ![u].pc = IF prefs[u] = None THEN "write" ELSE "idle"]
  /\ prefs' = [prefs EXCEPT ![u] = IF @ = None THEN Types ELSE @]
  /\ UNCHANGED <<online, events, aux>> /\ UserFrame

EditWrite(u) ==
  /\ edit[u].pc = "write"
  /\ edit' = [edit EXCEPT ![u] = NoEdit]
  /\ prefs' = [prefs EXCEPT ![u] = IF edit[u].value THEN @ \cup {edit[u].type}
                                                    ELSE @ \ {edit[u].type}]
  /\ on' = [j \in Job |-> IF j \in InFlight
                          THEN on[j] \cup OnFor(prefs', job[j].kind) ELSE on[j]]
  /\ steady' = [j \in Job |-> IF j \in InFlight
                   THEN steady[j] \cap OnFor(prefs', job[j].kind) ELSE steady[j]]
  /\ UNCHANGED <<online, events, there>> /\ UserFrame

Connect(u) ==
  /\ u \notin online /\ online' = online \cup {u}
  /\ there' = [j \in Job |-> IF j \in InFlight /\ job[j].kind = "area"
                             THEN there[j] \cup {u} ELSE there[j]]
  /\ UNCHANGED <<prefs, edit, events, on, steady>> /\ UserFrame

Disconnect(u) ==
  /\ u \in online /\ online' = online \ {u}
  /\ UNCHANGED <<prefs, edit, events, aux>> /\ UserFrame

Marked(E) == {[e EXCEPT !.read = TRUE] : e \in E}
Mine(u)   == {e \in events : e.user = u}

\* markAsRead and deleteEvent find the event and check its owner, which never
\* changes; an event that is gone by the second call is rejected.
ReadEvent(u, e) ==
  /\ e \in Mine(u)
  /\ events' = (events \ {e}) \cup Marked({e})
  /\ UNCHANGED <<prefs, edit, online, aux>> /\ UserFrame

ReadAll(u) ==
  /\ events' = (events \ Mine(u)) \cup Marked(Mine(u))
  /\ UNCHANGED <<prefs, edit, online, aux>> /\ UserFrame

DeleteEvent(u, e) ==
  /\ e \in Mine(u)
  /\ events' = events \ {e}
  /\ UNCHANGED <<prefs, edit, online, aux>> /\ UserFrame

DeleteAll(u) ==
  /\ events' = events \ Mine(u)
  /\ UNCHANGED <<prefs, edit, online, aux>> /\ UserFrame

-----------------------------------------------------------------------------
Call == \/ \E u \in Active : AddMember(u) \/ RemoveMember(u) \/ VerifyDocument(u)
                           \/ RenewDocument(u) \/ Age(u)
        \/ SubmitDocument \/ CheckExpiring \/ CheckExpired \/ SendToArea
        \/ WriteBegin \/ CreateRating \/ ReviseRating
        \/ ViewRating \/ \E s \in Status : DecideRating(s)
        \/ WriteStatus \/ DeleteRating

Run(j) == \/ CountMembers(j) \/ JobList(j) \/ \E u \in User : JobPrefs(j, u)
          \/ JobNewPrefs(j) \/ JobUser(j) \/ JobEvent(j) \/ JobPresence(j)
          \/ JobPush(j) \/ JobFail(j) \/ JobEnd(j)

Client(u) == \/ \E t \in Types, v \in BOOLEAN : EditBegin(u, t, v)
             \/ EditCreate(u) \/ EditWrite(u) \/ Connect(u) \/ Disconnect(u)
             \/ /\ "feed" \in scene
                /\ \/ \E e \in events : ReadEvent(u, e) \/ DeleteEvent(u, e)
                   \/ ReadAll(u) \/ DeleteAll(u)

Next == \/ Call
        \/ \E j \in Job : Run(j)
        \/ \E u \in Active : Client(u)

Spec == Init /\ [][Next]_vars

-----------------------------------------------------------------------------
\* The types of the variables; the feed holds events of dispatches, once each.
TypeOK ==
  /\ scene \in Scenes
  /\ prefs \in [User -> {None} \cup SUBSET Types]
  /\ edit \in [User -> Edit]
  /\ token \subseteq User /\ online \subseteq User /\ member \subseteq User
  /\ due \in [User -> {"fine", "expiring", "expired"}]
  /\ rating \in Rating /\ mod \in Mod /\ author \in {"idle", "create", "revise"}
  /\ job \in [Job -> Dispatch]
  /\ events \subseteq [job : Job, user : User, read : BOOLEAN]
  /\ \A e \in events : <<e.job, e.user>> \in told
  /\ \A e, f \in events : e.job = f.job /\ e.user = f.user => e = f
  /\ pushed \subseteq Job \X User /\ told \subseteq Job \X User
  /\ on \in [Job -> SUBSET User] /\ steady \in [Job -> SUBSET User]
  /\ there \in [Job -> SUBSET User]

\* Whoever switched a type off before a dispatch of it began, and left it off,
\* gets neither its event nor its push: the answer of the preferences may be
\* out of date, never older than the dispatch.
SilentWhenOff == \A e \in told \cup pushed : e[2] \in on[e[1]]

\* A dispatch that ended has reached everybody it was for who had its type on
\* all through it, a rejected call apart: with an event, for which ratings,
\* verdicts and documents want a token.  A notice to an area is recorded only
\* when it was pushed, so it leaves out who has no token, or was connected.
Reachable(j) ==
  CASE job[j].kind \in News \cup {"admin"} -> User
    [] job[j].kind = "area" -> token \ there[j]
    [] OTHER -> token
OwedStill(j) ==
  {u \in ((job[j].for \cap steady[j]) \ job[j].failed) \cap Reachable(j) :
     <<j, u>> \notin told}
Ended == Launched \ InFlight
ReachedByEvent == \A j \in Ended : job[j].kind # "expired" => OwedStill(j) = {}

\* "Check for expired documents and send alerts": the same of that check, which
\* is meant for the owners of expired documents.
\* The code does not keep this: it lists the owners without their push tokens.
ExpiredAreTold == \A j \in Ended : job[j].kind = "expired" => OwedStill(j) = {}

\* A text that is new or revised "needs moderation": what is published has been
\* shown to moderators in its present text.
\* The code does not keep this: the status can be set before anybody looked.
PublishedWasSeen == rating.status = "PUBLISHED" => rating.viewed
=============================================================================
