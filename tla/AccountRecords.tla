--------------------------- MODULE AccountRecords ----------------------------
(***************************************************************************)
(* The rows of the users: registration with its look-ups, and the handlers  *)
(* with which users change their own row, their avatar file and their       *)
(* location.  nick_name and email are alike here (both are looked up and    *)
(* both have a unique index) and are one name; licence_id is looked up and  *)
(* has no index.  Deleted accounts stay in every look-up of this module.    *)
(***************************************************************************)
EXTENDS Integers, FiniteSets

CONSTANTS
  User,      \* bound: the people who register
  Active,    \* bound: those who change their row afterwards
  Name,      \* nick names and e-mail addresses
  Plate,     \* licence plates
  Spelling,  \* ways to write one: capitals, and spaces before or after it
  Vehicle,   \* what a row says of the vehicle
  File,      \* bound: avatar files
  Req,       \* slots: how many requests run together
  None,      \* null, and a field that the body of a request leaves out
  Faults     \* TRUE iff a database call may be rejected

\* A licence as it is typed; two that differ in spelling are different texts.
Licence == [plate : Plate, spelling : Spelling]

ASSUME ConstantsAssumption ==
  /\ Active \subseteq User
  /\ None \notin User \cup Name \cup Licence \cup Vehicle \cup File
  /\ Faults \in BOOLEAN

VARIABLES
  users,     \* registered users
  name,      \* nick_name of a registered user
  licence,   \* licence_id, or null
  vehicle,   \* vehicle_type, vehicle_model and vehicle_color, or null
  avatar,    \* avatar: the file named by the row, or null
  files,     \* avatar files on disk
  verified,  \* users with license_no_verified
  located,   \* users with a UserLocation
  coded,     \* users with a qr_code
  req,       \* the requests in flight
  met,       \* auxiliary: pairs of users whose registrations ran together
  asked,     \* auxiliary: the vehicle a user asked for last
  raced,     \* auxiliary: users whose last change of the vehicle met a profile update
  frayed     \* auxiliary: users with a rejected profile update, or two at once

rows == <<users, name, licence>>
aux  == <<met, asked, raced, frayed>>
vars == <<rows, vehicle, avatar, files, verified, located, coded, req, aux>>

-----------------------------------------------------------------------------
Registering == {"name", "licence", "create"}
Request ==
  [pc      : Registering \cup {"idle", "profileRead", "profile",
               "addVehicle", "updateVehicle", "locationFind",
               "locationUpdate", "locationCreate", "licenceRead",
               "licenceWrite", "qrRead", "qrWrite"},
   user    : User \cup {None},
   name    : Name \cup {None},
   licence : Licence \cup {None},
   vehicle : Vehicle \cup {None},
   file    : File \cup {None},   \* uploaded, then the avatar to be written
   body    : SUBSET {"vehicle", "file"},  \* what the body of an update holds
   knew    : BOOLEAN]  \* auxiliary: the user had a location when it began
NoRequest == [pc |-> "idle", user |-> None, name |-> None, licence |-> None,
              vehicle |-> None, file |-> None, body |-> {},
              knew |-> FALSE]

Init ==
  /\ users = {} /\ files = {} /\ verified = {} /\ located = {} /\ coded = {}
  /\ name = [u \in User |-> None] /\ licence = [u \in User |-> None]
  /\ vehicle = [u \in User |-> None] /\ avatar = [u \in User |-> None]
  /\ req = [r \in Req |-> NoRequest]
  /\ met = {} /\ raced = {} /\ frayed = {}
  /\ asked = [u \in User |-> None]

At(r, p) == req[r].pc = p
Go(r, p) == req' = [req EXCEPT ![r].pc = p]
Finish(r) == req' = [req EXCEPT ![r] = NoRequest]
Proceed(r, may, p) == IF may THEN Go(r, p) ELSE Finish(r)
Start(r, q) == At(r, "idle") /\ req' = [req EXCEPT ![r] = q]
Fresh(p, u) == [NoRequest EXCEPT !.pc = p, !.user = u]

\* The unique index on a name holds for every user but u.
Taken(n, u) == \E v \in users \ {u} : name[v] = n
\* Another profile update of u stands between its read and its write.
Editing(r, u) == \E q \in Req \ {r} : At(q, "profile") /\ req[q].user = u
\* An upload gets a name of its own, one that no row and no request holds; a
\* file on disk that nothing names any more is like one that is gone.
Unnamed(f) == /\ \A u \in User : avatar[u] # f
              /\ \A q \in Req : req[q].file # f

\* Request r writes the vehicle its user asked for.
NoteVehicle(r) ==
  LET u == req[r].user IN
    /\ asked' = [asked EXCEPT ![u] = req[r].vehicle]
    /\ raced' = IF Editing(r, u) THEN raced \cup {u} ELSE raced \ {u}

-----------------------------------------------------------------------------
\* registerUser: the name is looked up, then the licence, then the password is
\* hashed and the row is inserted.
RegisterBegin(r, u, n, l) ==
  /\ u \notin users /\ \A q \in Req : req[q].user # u
  /\ Start(r, [Fresh("name", u) EXCEPT !.name = n, !.licence = l])
  /\ LET others == {req[q].user : q \in {x \in Req : req[x].pc \in Registering}}
     IN met' = {p \in met : u \notin {p[1], p[2]}}
                   \cup ({u} \X others) \cup (others \X {u})
  /\ UNCHANGED <<rows, vehicle, avatar, files, verified, located, coded,
                 asked, raced, frayed>>

RegisterFindName(r) ==
  /\ At(r, "name")
  /\ Proceed(r, ~Taken(req[r].name, None),
             IF req[r].licence = None THEN "create" ELSE "licence")
  /\ UNCHANGED <<rows, vehicle, avatar, files, verified, located, coded, aux>>

\* Variant: a licence that has been verified is looked for.
RegisterFindVerified(r) ==
  /\ At(r, "licence")
  /\ Proceed(r, \A v \in users \cap verified : licence[v] # req[r].licence,
             "create")
  /\ UNCHANGED <<rows, vehicle, avatar, files, verified, located, coded, aux>>

RegisterFindLicence(r) ==
  /\ At(r, "licence")
  /\ Proceed(r, \A v \in users : licence[v] # req[r].licence, "create")
  /\ UNCHANGED <<rows, vehicle, avatar, files, verified, located, coded, aux>>

\* Variant: the row is written whatever the unique index says.
RegisterUpsert(r) ==
  /\ At(r, "create")
  /\ users' = users \cup {req[r].user}
  /\ name' = [name EXCEPT ![req[r].user] = req[r].name]
  /\ licence' = [licence EXCEPT ![req[r].user] = req[r].licence]
  /\ Finish(r)
  /\ UNCHANGED <<vehicle, avatar, files, verified, located, coded, aux>>

RegisterCreate(r) ==
  /\ At(r, "create")
  /\ IF Taken(req[r].name, None)
       THEN UNCHANGED rows
       ELSE /\ users' = users \cup {req[r].user}
            /\ name' = [name EXCEPT ![req[r].user] = req[r].name]
            /\ licence' = [licence EXCEPT ![req[r].user] = req[r].licence]
  /\ Finish(r)
  /\ UNCHANGED <<vehicle, avatar, files, verified, located, coded, aux>>

-----------------------------------------------------------------------------
\* updateUser: the body may name a new nick name and vehicle and carry a file,
\* which is on disk before the handler begins.
ProfileBegin(r, u, n, v, f) ==
  /\ u \in users
  /\ f # None => Unnamed(f)
  /\ Start(r, [Fresh("profileRead", u) EXCEPT
                  !.name = n, !.vehicle = v, !.file = f,
                  !.body = {x \in {"vehicle", "file"} :
                              IF x = "file" THEN f # None ELSE v # None}])
  /\ files' = files \cup ({f} \ {None})
  /\ UNCHANGED <<rows, vehicle, avatar, verified, located, coded, aux>>

\* What the read leaves to be written: every field the body leaves out is
\* filled in with what was read.
Merged(q) ==
  [q EXCEPT !.pc = "profile",
            !.name = IF @ = None THEN name[q.user] ELSE @,
            !.vehicle = IF @ = None THEN vehicle[q.user] ELSE @,
            !.file = IF @ = None THEN avatar[q.user] ELSE @]

\* Variant: fields the body leaves out are not filled in.
ProfileReadNothing(r) ==
  /\ At(r, "profileRead")
  /\ LET u == req[r].user IN
       /\ files' = IF "file" \in req[r].body THEN files \ {avatar[u]} ELSE files
       /\ req' = [req EXCEPT ![r] = [Merged(@) EXCEPT !.vehicle = req[r].vehicle]]
       /\ frayed' = IF Editing(r, u) THEN frayed \cup {u} ELSE frayed
  /\ UNCHANGED <<rows, vehicle, avatar, verified, located, coded, met, asked,
                 raced>>

\* Variant: the file of the avatar is unlinked with every update.
ProfileReadUnlink(r) ==
  /\ At(r, "profileRead")
  /\ LET u == req[r].user IN
       /\ files' = files \ {avatar[u]}
       /\ req' = [req EXCEPT ![r] = Merged(@)]
       /\ frayed' = IF Editing(r, u) THEN frayed \cup {u} ELSE frayed
  /\ UNCHANGED <<rows, vehicle, avatar, verified, located, coded, met, asked,
                 raced>>

\* With a new file the old one is unlinked at once, before the row is written.
ProfileRead(r) ==
  /\ At(r, "profileRead")
  /\ LET u == req[r].user IN
       /\ files' = IF "file" \in req[r].body THEN files \ {avatar[u]} ELSE files
       /\ req' = [req EXCEPT ![r] = Merged(@)]
       /\ frayed' = IF Editing(r, u) THEN frayed \cup {u} ELSE frayed
  /\ UNCHANGED <<rows, vehicle, avatar, verified, located, coded, met, asked,
                 raced>>

\* The update of a name that somebody else has is rejected.
ProfileWrite(r) ==
  /\ At(r, "profile")
  /\ LET q == req[r]  u == req[r].user IN
       IF Taken(q.name, u)
         THEN /\ frayed' = IF "file" \in q.body THEN frayed \cup {u} ELSE frayed
              /\ UNCHANGED <<name, vehicle, avatar, asked, raced>>
         ELSE /\ name' = [name EXCEPT ![u] = q.name]
              /\ vehicle' = [vehicle EXCEPT ![u] = q.vehicle]
              /\ avatar' = [avatar EXCEPT ![u] = q.file]
              /\ IF "vehicle" \in q.body THEN NoteVehicle(r)
                                        ELSE UNCHANGED <<asked, raced>>
              /\ UNCHANGED frayed
  /\ Finish(r)
  /\ UNCHANGED <<users, licence, files, verified, located, coded, met>>

-----------------------------------------------------------------------------
\* addVehicleInfo; the user is read to see that it exists.
AddVehicleBegin(r, u, v) ==
  /\ u \in users
  /\ Start(r, [Fresh("addVehicle", u) EXCEPT !.vehicle = v])
  /\ UNCHANGED <<rows, vehicle, avatar, files, verified, located, coded, aux>>

AddVehicle(r) ==
  /\ At(r, "addVehicle")
  /\ vehicle' = [vehicle EXCEPT ![req[r].user] = req[r].vehicle]
  /\ NoteVehicle(r)
  /\ Finish(r)
  /\ UNCHANGED <<rows, avatar, files, verified, located, coded, met, frayed>>

\* updateVehicleInfo writes only what the body holds.
UpdateVehicleBegin(r, u, v) ==
  /\ u \in users
  /\ Start(r, [Fresh("updateVehicle", u) EXCEPT !.vehicle = v])
  /\ UNCHANGED <<rows, vehicle, avatar, files, verified, located, coded, aux>>

UpdateVehicle(r) ==
  /\ At(r, "updateVehicle")
  /\ IF req[r].vehicle = None
       THEN UNCHANGED <<vehicle, asked, raced>>
       ELSE /\ vehicle' = [vehicle EXCEPT ![req[r].user] = req[r].vehicle]
            /\ NoteVehicle(r)
  /\ Finish(r)
  /\ UNCHANGED <<rows, avatar, files, verified, located, coded, met, frayed>>

-----------------------------------------------------------------------------
\* updateUserLocation: the location is looked up, then updated or created.
LocationBegin(r, u) ==
  /\ u \in users
  /\ Start(r, [Fresh("locationFind", u) EXCEPT !.knew = (u \in located)])
  /\ UNCHANGED <<rows, vehicle, avatar, files, verified, located, coded, aux>>

LocationFind(r) ==
  /\ At(r, "locationFind")
  /\ Go(r, IF req[r].user \in located THEN "locationUpdate"
                                     ELSE "locationCreate")
  /\ UNCHANGED <<rows, vehicle, avatar, files, verified, located, coded, aux>>

\* The position itself is no state of this model.
LocationUpdate(r) ==
  /\ At(r, "locationUpdate")
  /\ Finish(r)
  /\ UNCHANGED <<rows, vehicle, avatar, files, verified, located, coded, aux>>

\* A second row of the same user is rejected by the unique index.
LocationCreate(r) ==
  /\ At(r, "locationCreate")
  /\ located' = located \cup {req[r].user}
  /\ Finish(r)
  /\ UNCHANGED <<rows, vehicle, avatar, files, verified, coded, aux>>

-----------------------------------------------------------------------------
\* verifyUserLicense, with the plate the user reads off the vehicle.  Unlike
\* registration it does not mind the spelling.
LicenceBegin(r, u, l) ==
  /\ u \in users
  /\ Start(r, [Fresh("licenceRead", u) EXCEPT !.licence = l])
  /\ UNCHANGED <<rows, vehicle, avatar, files, verified, located, coded, aux>>

LicenceRead(r) ==
  /\ At(r, "licenceRead")
  /\ LET own == licence[req[r].user] IN
       Proceed(r, own # None /\ own.plate = req[r].licence.plate, "licenceWrite")
  /\ UNCHANGED <<rows, vehicle, avatar, files, verified, located, coded, aux>>

LicenceWrite(r) ==
  /\ At(r, "licenceWrite")
  /\ verified' = verified \cup {req[r].user}
  /\ Finish(r)
  /\ UNCHANGED <<rows, vehicle, avatar, files, located, coded, aux>>

\* generateQrCodeForUser keeps the code it makes from the user's id.
QrBegin(r, u) ==
  /\ u \in users
  /\ Start(r, Fresh("qrRead", u))
  /\ UNCHANGED <<rows, vehicle, avatar, files, verified, located, coded, aux>>

QrRead(r) ==
  /\ At(r, "qrRead")
  /\ Proceed(r, req[r].user \notin coded, "qrWrite")
  /\ UNCHANGED <<rows, vehicle, avatar, files, verified, located, coded, aux>>

QrWrite(r) ==
  /\ At(r, "qrWrite")
  /\ coded' = coded \cup {req[r].user}
  /\ Finish(r)
  /\ UNCHANGED <<rows, vehicle, avatar, files, verified, located, aux>>

-----------------------------------------------------------------------------
\* A rejected call ends the handler; what it wrote and unlinked stays so.
Fail(r) ==
  /\ Faults
  /\ ~At(r, "idle")
  /\ frayed' = IF At(r, "profile") /\ "file" \in req[r].body
                 THEN frayed \cup {req[r].user} ELSE frayed
  /\ Finish(r)
  /\ UNCHANGED <<rows, vehicle, avatar, files, verified, located, coded, met,
                 asked, raced>>

Arrive(r) ==
  \/ \E u \in User, n \in Name, l \in Licence \cup {None} :
       RegisterBegin(r, u, n, l)
  \/ \E u \in Active :
       \/ LocationBegin(r, u) \/ QrBegin(r, u)
       \/ \E l \in Licence : LicenceBegin(r, u, l)
       \/ \E v \in Vehicle : AddVehicleBegin(r, u, v)
       \/ \E v \in Vehicle \cup {None} :
            \/ UpdateVehicleBegin(r, u, v)
            \/ \E n \in Name \cup {None}, f \in File \cup {None} :
                 ProfileBegin(r, u, n, v, f)

Step(r) ==
  \/ RegisterFindName(r) \/ RegisterFindLicence(r) \/ RegisterCreate(r)
  \/ ProfileRead(r) \/ ProfileWrite(r) \/ AddVehicle(r) \/ UpdateVehicle(r)
  \/ LocationFind(r) \/ LocationUpdate(r) \/ LocationCreate(r)
  \/ LicenceRead(r) \/ LicenceWrite(r) \/ QrRead(r) \/ QrWrite(r)

Next == \E r \in Req : Arrive(r) \/ Step(r) \/ Fail(r)

Spec == Init /\ [][Next]_vars

-----------------------------------------------------------------------------
\* The types of the variables; registered users have names of their own.
TypeOK ==
  /\ users \subseteq User /\ files \subseteq File
  /\ name \in [User -> Name \cup {None}]
  /\ \A u \in users : name[u] # None /\ ~Taken(name[u], u)
  /\ licence \in [User -> Licence \cup {None}]
  /\ vehicle \in [User -> Vehicle \cup {None}]
  /\ asked \in [User -> Vehicle \cup {None}]
  /\ avatar \in [User -> File \cup {None}]
  /\ verified \subseteq users /\ located \subseteq users /\ coded \subseteq users
  /\ req \in [Req -> Request]
  /\ met \subseteq User \X User /\ raced \subseteq users /\ frayed \subseteq users

\* Two accounts have the same licence, spelt alike, only if their own two
\* registrations ran together: the look-up alone keeps licences apart, without
\* an index, and a registration that ended before the other began is found.
LicenceSharedByRaceOnly ==
  \A u, v \in users : u # v /\ licence[u] = licence[v] /\ licence[u] # None
                        => <<u, v>> \in met

\* "This licence ID is already associated with an account": a plate belongs to
\* one account, at the latest when its owner has verified it.  The look-up of a
\* registration tells spellings apart that the verification does not.
\* The code does not keep this once a plate is registered in two spellings.
VerifiedOwnsPlate ==
  \A u, v \in verified : u # v => licence[u].plate # licence[v].plate

\* The vehicle of a row is the one its user asked for last, unless the change
\* was made while a profile update stood between its read and its write: that
\* update restores the vehicle it has read.
VehicleAsAsked == \A u \in users : u \in raced \/ vehicle[u] = asked[u]

\* The file a row names exists, unless a profile update is about to replace
\* it, was rejected after it unlinked the file, or ran beside another.
AvatarOnDisk ==
  \A u \in users : \/ avatar[u] \in files \cup {None}
                   \/ u \in frayed
                   \/ \E r \in Req : At(r, "profile") /\ req[r].user = u

\* Only a request that began before its user had a location can be rejected
\* because two of them created one.
LocationClashOnlyAtFirst ==
  \A r \in Req : At(r, "locationCreate") => ~req[r].knew

\* The rows are well typed, unique where the schema wants it, and not rejected
\* for that without a race.
RowsSound == TypeOK /\ LocationClashOnlyAtFirst
=============================================================================
