------------------------- MODULE AccountRecordsProofs ------------------------
(***************************************************************************)
(* Proofs about AccountRecords, for any number of users, names, licences,   *)
(* vehicles, files and requests: its type invariant with the unique names,  *)
(* and that licences, vehicles and avatars go wrong by the races and        *)
(* rejections named and by nothing else.                                    *)
(***************************************************************************)
EXTENDS AccountRecords, TLAPS

-----------------------------------------------------------------------------
(* Types, and what a request in flight relies on: the user of a             *)
(* registration has no row and no other request, the user of any other      *)
(* request has a row.                                                       *)
Carried(q, us, known) ==
  /\ q.pc = "idle" => q.user = None
  /\ q.pc \in Registering => q.user \in User \ us /\ q.name \in Name
  /\ q.pc \notin Registering \cup {"idle"} => q.user \in us
  /\ q.pc = "profile" => q.name # None
  /\ q.pc = "locationFind" /\ q.knew => q.user \in known
  /\ q.pc = "locationCreate" => ~q.knew

Apart == \A r, s \in Req : r # s /\ req[r].pc \in Registering
                             => req[r].user # req[s].user

TInv ==
  /\ TypeOK
  /\ \A r \in Req : Carried(req[r], users, located)
  /\ Apart

\* A step that writes slot r and no other.
Writes(r, q) == q \in Request /\ req' = [req EXCEPT ![r] = q]

LEMMA WritesWhere ==
  ASSUME TypeOK, NEW r \in Req, NEW q, Writes(r, q)
  PROVE  /\ req' \in [Req -> Request]
         /\ req'[r] = q
         /\ \A s \in Req \ {r} : req'[s] = req[s]
BY DEF Writes, TypeOK

LEMMA FinishWrites ==
  ASSUME NEW r \in Req, Finish(r)
  PROVE  Writes(r, NoRequest)
BY DEF Finish, Writes, NoRequest, Request

LEMMA GoWrites ==
  ASSUME TypeOK, NEW r \in Req, NEW p, Go(r, p),
         p \in {"licence", "create", "locationUpdate", "locationCreate",
                "licenceWrite", "qrWrite"}
  PROVE  Writes(r, [req[r] EXCEPT !.pc = p])
BY DEF Go, Writes, Request, Registering, TypeOK

\* The slots stay as they should be when the one that is written is, and no
\* other registration loses its user.
LEMMA SlotsKept ==
  ASSUME TInv, NEW r \in Req, NEW q, Writes(r, q),
         Carried(q, users', located'),
         q.pc \in Registering => \A s \in Req \ {r} : req[s].user # q.user,
         users \subseteq users', located \subseteq located',
         \A s \in Req \ {r} : req[s].pc \in Registering => req[s].user \notin users'
  PROVE  /\ req' \in [Req -> Request]
         /\ \A s \in Req : Carried(req'[s], users', located')
         /\ Apart'
<1>1. /\ req' \in [Req -> Request] /\ req'[r] = q
      /\ \A s \in Req \ {r} : req'[s] = req[s]
  BY WritesWhere DEF TInv
<1>2. ASSUME NEW s \in Req PROVE Carried(req'[s], users', located')
  <2>1. CASE s = r
    BY <2>1, <1>1
  <2>2. CASE s # r
    <3>1. req'[s] = req[s] /\ Carried(req[s], users, located)
      BY <2>2, <1>1 DEF TInv
    <3>2. QED
      BY <3>1, <2>2 DEF Carried
  <2>3. QED
    BY <2>1, <2>2
<1>3. ASSUME NEW s \in Req, NEW t \in Req, s # t, req'[s].pc \in Registering
      PROVE  req'[s].user # req'[t].user
  <2>1. CASE s = r
    BY <2>1, <1>1, <1>3
  <2>2. CASE t = r
    <3>1. req'[s] = req[s] /\ req'[t] = q
      BY <2>2, <1>1, <1>3
    <3>2. CASE q.pc \in Registering
      BY <3>1, <3>2, <2>2, <1>3
    <3>3. CASE q.pc \notin Registering
      <4>1. q.user \in users' \cup {None}
        BY <3>3 DEF Carried
      <4>2. req[s].user \in User \ users'
        BY <1>2, <3>1, <1>3 DEF Carried
      <4>3. QED
        BY <4>1, <4>2, <3>1, ConstantsAssumption
    <3>4. QED
      BY <3>2, <3>3
  <2>3. CASE s # r /\ t # r
    BY <2>3, <1>1, <1>3 DEF TInv, Apart
  <2>4. QED
    BY <2>1, <2>2, <2>3
<1>4. QED
  BY <1>1, <1>2, <1>3 DEF Apart

\* A request that ends leaves the slots as they should be.
LEMMA FinishKeeps ==
  ASSUME TInv, NEW r \in Req, Finish(r), users' = users, located \subseteq located'
  PROVE  /\ req' \in [Req -> Request]
         /\ \A s \in Req : Carried(req'[s], users', located')
         /\ Apart'
<1>1. Writes(r, NoRequest)
  BY FinishWrites
<1>2. Carried(NoRequest, users', located') /\ NoRequest.pc \notin Registering
  BY DEF Carried, NoRequest, Registering
<1>3. \A s \in Req : req[s].pc \in Registering => req[s].user \notin users'
  BY DEF TInv, Carried
<1>4. QED
  BY <1>1, <1>2, <1>3, SlotsKept

\* So does one that goes on with what it carries.
LEMMA GoKeeps ==
  ASSUME TInv, NEW r \in Req, NEW p, Go(r, p), users' = users, located' = located,
         \/ p \in {"licence", "create"} /\ req[r].pc \in Registering
         \/ /\ p \in {"locationUpdate", "licenceWrite", "qrWrite"}
            /\ req[r].pc \notin Registering \cup {"idle"}
         \/ /\ p = "locationCreate" /\ req[r].pc = "locationFind"
            /\ req[r].user \notin located
  PROVE  /\ req' \in [Req -> Request]
         /\ \A s \in Req : Carried(req'[s], users', located')
         /\ Apart'
<1> DEFINE q == [req[r] EXCEPT !.pc = p]
<1>1. Writes(r, q)
  BY GoWrites DEF TInv
<1>2. req[r] \in Request /\ Carried(req[r], users, located)
  BY DEF TInv, TypeOK
<1>3. /\ q.pc = p /\ q.user = req[r].user /\ q.name = req[r].name
      /\ q.knew = req[r].knew
  BY <1>2 DEF Request
<1> HIDE DEF q
<1>4. Carried(q, users', located')
  BY <1>2, <1>3 DEF Carried, Registering
<1>5. q.pc \in Registering => \A s \in Req \ {r} : req[s].user # q.user
  BY <1>3 DEF TInv, Apart, Registering
<1>6. \A s \in Req : req[s].pc \in Registering => req[s].user \notin users'
  BY DEF TInv, Carried
<1>7. QED
  BY <1>1, <1>4, <1>5, <1>6, SlotsKept

\* So does one that arrives for a registered user.
LEMMA ArriveKeeps ==
  ASSUME TInv, NEW r \in Req, NEW q \in Request, Start(r, q),
         users' = users, located' = located, q.user \in users,
         q.pc \in {"profileRead", "addVehicle", "updateVehicle",
                   "locationFind", "licenceRead", "qrRead"},
         q.knew => q.user \in located
  PROVE  /\ Writes(r, q)
         /\ \A s \in Req : Carried(req'[s], users', located')
         /\ Apart'
<1>1. Writes(r, q)
  BY DEF Start, Writes
<1>2. Carried(q, users', located') /\ q.pc \notin Registering
  BY DEF Carried, Registering
<1>3. \A s \in Req : req[s].pc \in Registering => req[s].user \notin users'
  BY DEF TInv, Carried
<1>4. QED
  BY <1>1, <1>2, <1>3, SlotsKept

-----------------------------------------------------------------------------
\* What the steps with a record of their own write in it.
LEMMA RegisterBeginWrites ==
  ASSUME NEW r \in Req, NEW u \in User, NEW n \in Name,
         NEW l \in Licence \cup {None}, RegisterBegin(r, u, n, l)
  PROVE  \E q \in Request :
           /\ Start(r, q) /\ Writes(r, q)
           /\ q.pc = "name" /\ q.user = u /\ q.name = n /\ q.licence = l
           /\ q.file = None /\ q.body = {}
<1> DEFINE q == [Fresh("name", u) EXCEPT !.name = n, !.licence = l]
<1>1. /\ q \in Request /\ q.pc = "name" /\ q.user = u /\ q.name = n
      /\ q.licence = l /\ q.file = None /\ q.body = {}
  BY DEF Fresh, NoRequest, Request, Registering
<1>2. Start(r, q)
  BY DEF RegisterBegin
<1> HIDE DEF q
<1>3. Writes(r, q)
  BY <1>1, <1>2 DEF Start, Writes
<1>4. QED
  BY <1>1, <1>2, <1>3

LEMMA ProfileBeginWrites ==
  ASSUME NEW r \in Req, NEW u \in User, NEW n \in Name \cup {None},
         NEW v \in Vehicle \cup {None}, NEW f \in File \cup {None},
         ProfileBegin(r, u, n, v, f)
  PROVE  \E q \in Request :
           /\ Start(r, q) /\ Writes(r, q)
           /\ q.pc = "profileRead" /\ q.user = u /\ q.file = f /\ ~q.knew
           /\ q.vehicle = v
           /\ "vehicle" \in q.body <=> v # None
           /\ "file" \in q.body <=> f # None
<1> DEFINE b == {x \in {"vehicle", "file"} :
                   IF x = "file" THEN f # None ELSE v # None}
           q == [Fresh("profileRead", u) EXCEPT
                   !.name = n, !.vehicle = v, !.file = f, !.body = b]
<1>1. b \in SUBSET {"vehicle", "file"} /\ ("file" \in b <=> f # None)
      /\ ("vehicle" \in b <=> v # None)
  OBVIOUS
<1>2. Start(r, q)
  BY DEF ProfileBegin
<1> HIDE DEF b
<1>3. /\ q \in Request /\ q.pc = "profileRead" /\ q.user = u /\ q.file = f
      /\ ~q.knew /\ q.body = b /\ q.vehicle = v
  BY <1>1 DEF Fresh, NoRequest, Request, Registering
<1> HIDE DEF q
<1>4. Writes(r, q)
  BY <1>2, <1>3 DEF Start, Writes
<1>5. QED
  BY <1>1, <1>2, <1>3, <1>4

LEMMA ProfileReadWrites ==
  ASSUME TInv, NEW r \in Req, ProfileRead(r)
  PROVE  LET p == req[r]  u == req[r].user IN
         \E q \in Request :
           /\ Writes(r, q)
           /\ q.pc = "profile" /\ q.user = u /\ q.body = p.body
           /\ q.knew = p.knew /\ u \in users /\ q.name # None
           /\ q.vehicle = IF p.vehicle = None THEN vehicle[u] ELSE p.vehicle
           /\ q.file = IF p.file = None THEN avatar[u] ELSE p.file
<1> DEFINE p == req[r]
<1>1. p \in Request /\ p.pc = "profileRead" /\ p.user \in users
  BY DEF ProfileRead, At, TInv, TypeOK, Carried, Registering
<1>2. /\ name[p.user] \in Name \cup {None} /\ name[p.user] # None
      /\ vehicle[p.user] \in Vehicle \cup {None}
      /\ avatar[p.user] \in File \cup {None}
  BY <1>1 DEF TInv, TypeOK
<1>3. req' = [req EXCEPT ![r] = Merged(p)]
  BY DEF ProfileRead, TInv, TypeOK
<1> HIDE DEF p
<1>4. /\ Merged(p) \in Request /\ Merged(p).pc = "profile"
      /\ Merged(p).user = p.user /\ Merged(p).body = p.body
      /\ Merged(p).knew = p.knew /\ Merged(p).name # None
      /\ Merged(p).vehicle = IF p.vehicle = None THEN vehicle[p.user] ELSE p.vehicle
      /\ Merged(p).file = IF p.file = None THEN avatar[p.user] ELSE p.file
  <2> DEFINE m == IF p.name = None THEN name[p.user] ELSE p.name
             w == IF p.vehicle = None THEN vehicle[p.user] ELSE p.vehicle
             g == IF p.file = None THEN avatar[p.user] ELSE p.file
  <2>1. m \in Name /\ w \in Vehicle \cup {None} /\ g \in File \cup {None}
    BY <1>1, <1>2 DEF Request
  <2>2. Merged(p) = [p EXCEPT !.pc = "profile", !.name = m, !.vehicle = w,
                              !.file = g]
    BY <1>1 DEF Merged, Request
  <2> HIDE DEF m, w, g
  <2>3. /\ Merged(p) \in Request /\ Merged(p).pc = "profile"
        /\ Merged(p).user = p.user /\ Merged(p).body = p.body
        /\ Merged(p).knew = p.knew /\ Merged(p).name = m
        /\ Merged(p).vehicle = w /\ Merged(p).file = g
    BY <1>1, <2>1, <2>2 DEF Request
  <2>4. m # None
    BY <2>1, ConstantsAssumption
  <2>5. QED
    BY <2>3, <2>4 DEF w, g
<1>5. Writes(r, Merged(p))
  BY <1>3, <1>4 DEF Writes
<1>6. QED
  BY <1>1, <1>4, <1>5 DEF p

-----------------------------------------------------------------------------
\* The parts of TypeOK that are about the rows.
RowsTyped ==
  /\ users \subseteq User
  /\ name \in [User -> Name \cup {None}]
  /\ \A u \in users : name[u] # None /\ ~Taken(name[u], u)
  /\ licence \in [User -> Licence \cup {None}]
RestTyped ==
  /\ files \subseteq File
  /\ vehicle \in [User -> Vehicle \cup {None}]
  /\ asked \in [User -> Vehicle \cup {None}]
  /\ avatar \in [User -> File \cup {None}]
  /\ verified \subseteq users /\ located \subseteq users /\ coded \subseteq users
  /\ met \subseteq User \X User /\ raced \subseteq users /\ frayed \subseteq users

LEMMA TypeOKIs == TypeOK <=> RowsTyped /\ RestTyped /\ req \in [Req -> Request]
BY DEF TypeOK, RowsTyped, RestTyped

LEMMA RowsTypedKept ==
  ASSUME TypeOK, UNCHANGED rows
  PROVE  RowsTyped'
BY DEF TypeOK, RowsTyped, rows, Taken

\* A request that is neither idle nor a registration has a registered user.
LEMMA UserRegistered ==
  ASSUME TInv, NEW r \in Req, req[r].pc \notin Registering \cup {"idle"}
  PROVE  /\ req[r] \in Request /\ req[r].user \in users
         /\ req[r].user \in User
BY DEF TInv, TypeOK, Carried

LEMMA NoteVehicleTyped ==
  ASSUME TInv, NEW r \in Req, NoteVehicle(r), users' = users,
         req[r].pc \notin Registering \cup {"idle"}
  PROVE  asked' \in [User -> Vehicle \cup {None}] /\ raced' \subseteq users
<1>1. /\ req[r] \in Request /\ req[r].user \in users
      /\ raced \subseteq users /\ asked \in [User -> Vehicle \cup {None}]
  BY UserRegistered DEF TInv, TypeOK
<1>2. req[r].vehicle \in Vehicle \cup {None}
  BY <1>1 DEF Request
<1>3. QED
  BY <1>1, <1>2 DEF NoteVehicle

LEMMA TInvInit == Init => TInv
<1> SUFFICES ASSUME Init PROVE TInv
  OBVIOUS
<1>1. NoRequest \in Request /\ NoRequest.pc = "idle" /\ NoRequest.user = None
  BY DEF NoRequest, Request
<1>2. TypeOK
  BY <1>1 DEF Init, TypeOK, Taken
<1>3. ASSUME NEW r \in Req
      PROVE  Carried(req[r], users, located) /\ req[r].pc \notin Registering
  BY <1>1 DEF Init, Carried, Registering
<1>4. QED
  BY <1>2, <1>3 DEF TInv, Apart

\* Requests that arrive.
LEMMA TInvArrive ==
  ASSUME TInv, NEW r \in Req, Arrive(r)
  PROVE  TInv'
<1>1. ASSUME NEW u \in User, NEW n \in Name, NEW l \in Licence \cup {None},
             RegisterBegin(r, u, n, l)
      PROVE  TInv'
  <2>1. PICK q \in Request :
          /\ Start(r, q) /\ Writes(r, q)
          /\ q.pc = "name" /\ q.user = u /\ q.name = n /\ q.licence = l
    BY <1>1, RegisterBeginWrites
  <2>2. /\ u \notin users /\ \A s \in Req : req[s].user # u
        /\ UNCHANGED <<users, located>>
    BY <1>1 DEF RegisterBegin, rows
  <2>3. Carried(q, users', located')
    BY <2>1, <2>2 DEF Carried, Registering
  <2>4. \A s \in Req : req[s].pc \in Registering => req[s].user \notin users'
    BY <2>2 DEF TInv, Carried
  <2>5. /\ req' \in [Req -> Request]
        /\ \A s \in Req : Carried(req'[s], users', located')
        /\ Apart'
    BY <2>1, <2>2, <2>3, <2>4, SlotsKept
  <2>6. \A s \in Req : req[s].pc \in Registering => req[s].user \in User
    BY DEF TInv, Carried
  <2>7. met' \subseteq User \X User
    <3> DEFINE others == {req[s].user : s \in {x \in Req : req[x].pc \in Registering}}
    <3>1. others \subseteq User /\ met \subseteq User \X User
      BY <2>6 DEF TInv, TypeOK
    <3>2. met' = {p \in met : u \notin {p[1], p[2]}}
                   \cup ({u} \X others) \cup (others \X {u})
      BY <1>1 DEF RegisterBegin
    <3> HIDE DEF others
    <3>3. QED
      BY <3>1, <3>2
  <2>8. RowsTyped'
    BY <1>1, RowsTypedKept DEF RegisterBegin, TInv
  <2>9. RestTyped'
    BY <1>1, <2>7 DEF RegisterBegin, TInv, TypeOK, RestTyped, rows
  <2>10. QED
    BY <2>5, <2>8, <2>9, TypeOKIs DEF TInv, TypeOK, RowsTyped, RestTyped
<1>2. ASSUME NEW u \in User, NEW n \in Name \cup {None},
             NEW v \in Vehicle \cup {None}, NEW f \in File \cup {None},
             ProfileBegin(r, u, n, v, f)
      PROVE  TInv'
  <2>1. PICK q \in Request :
          /\ Start(r, q) /\ Writes(r, q)
          /\ q.pc = "profileRead" /\ q.user = u /\ ~q.knew
    BY <1>2, ProfileBeginWrites
  <2>2. u \in users /\ users' = users /\ located' = located
    BY <1>2 DEF ProfileBegin, rows
  <2>3. /\ \A s \in Req : Carried(req'[s], users', located')
        /\ Apart'
    BY <2>1, <2>2, ArriveKeeps
  <2>4. RowsTyped'
    BY <1>2, RowsTypedKept DEF ProfileBegin, TInv
  <2>5. RestTyped'
    BY <1>2 DEF ProfileBegin, TInv, TypeOK, RestTyped, rows, aux
  <2>6. req' \in [Req -> Request]
    BY <2>1, WritesWhere DEF TInv
  <2>7. QED
    BY <2>3, <2>4, <2>5, <2>6 DEF TInv, TypeOK, RowsTyped, RestTyped
<1>3. ASSUME NEW u \in users, NEW q \in Request, Start(r, q), q.user = u,
             UNCHANGED <<rows, vehicle, avatar, files, verified, located, coded,
                         aux>>,
             q.pc \in {"addVehicle", "updateVehicle", "locationFind",
                       "licenceRead", "qrRead"},
             q.knew => u \in located
      PROVE  TInv'
  <2>1. users' = users /\ located' = located
    BY <1>3 DEF rows
  <2>2. /\ Writes(r, q)
        /\ \A s \in Req : Carried(req'[s], users', located')
        /\ Apart'
    BY <1>3, <2>1, ArriveKeeps
  <2>3. RowsTyped'
    BY <1>3, RowsTypedKept DEF TInv
  <2>4. RestTyped'
    BY <1>3, <2>1 DEF TInv, TypeOK, RestTyped, aux
  <2>5. req' \in [Req -> Request]
    BY <2>2, WritesWhere DEF TInv
  <2>6. QED
    BY <2>2, <2>3, <2>4, <2>5 DEF TInv, TypeOK, RowsTyped, RestTyped
<1>4. ASSUME NEW u \in User, LocationBegin(r, u) PROVE TInv'
  <2> DEFINE k == u \in located
             q == [Fresh("locationFind", u) EXCEPT !.knew = k]
  <2>1. k \in BOOLEAN
    OBVIOUS
  <2>2. Start(r, q)
    BY <1>4 DEF LocationBegin
  <2> HIDE DEF k
  <2>3. q \in Request /\ q.pc = "locationFind" /\ q.user = u /\ q.knew = k
    BY <2>1 DEF Fresh, NoRequest, Request, Registering
  <2> HIDE DEF q
  <2>4. q.knew => u \in located
    BY <2>3 DEF k
  <2>5. QED
    BY <1>3, <1>4, <2>2, <2>3, <2>4 DEF LocationBegin
<1>5. ASSUME NEW u \in User, QrBegin(r, u) PROVE TInv'
  <2> DEFINE q == Fresh("qrRead", u)
  <2>1. q \in Request /\ q.pc = "qrRead" /\ q.user = u /\ ~q.knew
    BY DEF Fresh, NoRequest, Request, Registering
  <2>2. QED
    BY <1>3, <1>5, <2>1 DEF QrBegin
<1>6. ASSUME NEW u \in User, NEW l \in Licence, LicenceBegin(r, u, l) PROVE TInv'
  <2> DEFINE q == [Fresh("licenceRead", u) EXCEPT !.licence = l]
  <2>1. q \in Request /\ q.pc = "licenceRead" /\ q.user = u /\ ~q.knew
    BY DEF Fresh, NoRequest, Request, Registering
  <2>2. QED
    BY <1>3, <1>6, <2>1 DEF LicenceBegin
<1>7. ASSUME NEW u \in User, NEW v \in Vehicle, AddVehicleBegin(r, u, v) PROVE TInv'
  <2> DEFINE q == [Fresh("addVehicle", u) EXCEPT !.vehicle = v]
  <2>1. q \in Request /\ q.pc = "addVehicle" /\ q.user = u /\ ~q.knew
    BY DEF Fresh, NoRequest, Request, Registering
  <2>2. QED
    BY <1>3, <1>7, <2>1 DEF AddVehicleBegin
<1>8. ASSUME NEW u \in User, NEW v \in Vehicle \cup {None},
             UpdateVehicleBegin(r, u, v)
      PROVE  TInv'
  <2> DEFINE q == [Fresh("updateVehicle", u) EXCEPT !.vehicle = v]
  <2>1. q \in Request /\ q.pc = "updateVehicle" /\ q.user = u /\ ~q.knew
    BY DEF Fresh, NoRequest, Request, Registering
  <2>2. QED
    BY <1>3, <1>8, <2>1 DEF UpdateVehicleBegin
<1>9. QED
  BY <1>1, <1>2, <1>4, <1>5, <1>6, <1>7, <1>8, ConstantsAssumption DEF Arrive

\* Requests that go on.
LEMMA TInvStep ==
  ASSUME TInv, NEW r \in Req, Step(r)
  PROVE  TInv'
<1>1. CASE RegisterCreate(r)
  <2> DEFINE u == req[r].user
             n == req[r].name
  <2>1. /\ req[r] \in Request /\ u \in User \ users /\ n \in Name
        /\ \A s \in Req \ {r} : req[s].user # u
    BY <1>1 DEF RegisterCreate, At, Registering, TInv, TypeOK, Carried, Apart
  <2>2. n # None /\ req[r].licence \in Licence \cup {None}
    BY <2>1, ConstantsAssumption DEF Request
  <2>3. users \subseteq users' /\ users' \subseteq users \cup {u}
        /\ located' = located
    BY <1>1 DEF RegisterCreate, rows
  <2>4. RowsTyped'
    <3>1. CASE Taken(n, None)
      BY <1>1, <3>1, RowsTypedKept DEF RegisterCreate, TInv
    <3>2. CASE ~Taken(n, None)
      <4>1. /\ users' = users \cup {u} /\ name' = [name EXCEPT ![u] = n]
            /\ licence' = [licence EXCEPT ![u] = req[r].licence]
        BY <1>1, <3>2 DEF RegisterCreate
      <4>2. /\ users \subseteq User /\ name \in [User -> Name \cup {None}]
            /\ \A v \in users : name[v] # None /\ ~Taken(name[v], v)
            /\ licence \in [User -> Licence \cup {None}]
        BY DEF TInv, TypeOK
      <4> HIDE DEF u, n
      <4>3. \A v \in users : name[v] # n
        BY <3>2, <4>2, ConstantsAssumption DEF Taken
      <4>4. ASSUME NEW v \in users' PROVE name'[v] # None /\ ~Taken(name[v], v)'
        <5>1. /\ name'[u] = n
              /\ \A w \in users : name'[w] = name[w]
          BY <2>1, <4>1, <4>2
        <5>2. QED
          BY <5>1, <2>1, <2>2, <4>1, <4>2, <4>3 DEF Taken
      <4>5. QED
        BY <2>1, <2>2, <4>1, <4>2, <4>4 DEF RowsTyped
    <3>3. QED
      BY <3>1, <3>2
  <2>5. /\ req' \in [Req -> Request]
        /\ \A s \in Req : Carried(req'[s], users', located')
        /\ Apart'
    <3>1. Writes(r, NoRequest)
      BY <1>1, FinishWrites DEF RegisterCreate
    <3>2. Carried(NoRequest, users', located') /\ NoRequest.pc \notin Registering
      BY DEF Carried, NoRequest, Registering
    <3>3. ASSUME NEW s \in Req \ {r}, req[s].pc \in Registering
          PROVE  req[s].user \notin users'
      <4>1. req[s].user \notin users /\ req[s].user # u
        BY <2>1, <3>3 DEF TInv, Carried
      <4>2. QED
        BY <4>1, <2>3
    <3>4. QED
      BY <3>1, <3>2, <3>3, <2>3, SlotsKept
  <2>6. RestTyped'
    BY <1>1, <2>3 DEF RegisterCreate, TInv, TypeOK, RestTyped, aux
  <2>7. QED
    BY <2>4, <2>5, <2>6 DEF TInv, TypeOK, RowsTyped, RestTyped
<1>2. CASE ProfileRead(r)
  <2>1. PICK q \in Request :
          /\ Writes(r, q) /\ q.pc = "profile" /\ q.user = req[r].user
          /\ q.user \in users /\ q.name # None
    BY <1>2, ProfileReadWrites
  <2>2. users' = users /\ located' = located
    BY <1>2 DEF ProfileRead, rows
  <2>3. Carried(q, users', located') /\ q.pc \notin Registering
    BY <2>1, <2>2 DEF Carried, Registering
  <2>4. \A s \in Req : req[s].pc \in Registering => req[s].user \notin users'
    BY <2>2 DEF TInv, Carried
  <2>5. /\ req' \in [Req -> Request]
        /\ \A s \in Req : Carried(req'[s], users', located')
        /\ Apart'
    BY <2>1, <2>2, <2>3, <2>4, SlotsKept
  <2>6. RowsTyped'
    BY <1>2, RowsTypedKept DEF ProfileRead, TInv
  <2>7. files' \subseteq File /\ frayed' \subseteq users
    BY <1>2, <2>1 DEF ProfileRead, TInv, TypeOK
  <2>8. RestTyped'
    BY <1>2, <2>2, <2>7 DEF ProfileRead, TInv, TypeOK, RestTyped
  <2>9. QED
    BY <2>5, <2>6, <2>8 DEF TInv, TypeOK, RowsTyped, RestTyped
<1>3. CASE ProfileWrite(r)
  <2> DEFINE u == req[r].user
             q == req[r]
  <2>1. /\ q \in Request /\ u \in users /\ u \in User /\ q.pc = "profile"
        /\ q.name # None /\ q.pc \notin Registering \cup {"idle"}
    BY <1>3 DEF ProfileWrite, At, TInv, TypeOK, Carried, Registering
  <2>2. /\ q.name \in Name /\ q.vehicle \in Vehicle \cup {None}
        /\ q.file \in File \cup {None}
    BY <2>1 DEF Request
  <2>3. /\ users' = users /\ located' = located /\ licence' = licence
        /\ Finish(r) /\ UNCHANGED <<files, verified, coded, met>>
    BY <1>3 DEF ProfileWrite
  <2>4. /\ req' \in [Req -> Request]
        /\ \A s \in Req : Carried(req'[s], users', located')
        /\ Apart'
    BY <2>3, FinishKeeps
  <2>5. CASE Taken(q.name, u)
    <3>1. /\ UNCHANGED <<name, vehicle, avatar, asked, raced>>
          /\ frayed' \subseteq frayed \cup {u}
      BY <1>3, <2>5 DEF ProfileWrite
    <3>2. RowsTyped'
      BY <3>1, <2>3, RowsTypedKept DEF rows, TInv
    <3>3. RestTyped'
      BY <3>1, <2>3, <2>1 DEF TInv, TypeOK, RestTyped
    <3>4. QED
      BY <2>4, <3>2, <3>3 DEF TInv, TypeOK, RowsTyped, RestTyped
  <2>6. CASE ~Taken(q.name, u)
    <3>1. /\ name' = [name EXCEPT ![u] = q.name]
          /\ vehicle' = [vehicle EXCEPT ![u] = q.vehicle]
          /\ avatar' = [avatar EXCEPT ![u] = q.file]
          /\ NoteVehicle(r) \/ UNCHANGED <<asked, raced>>
          /\ frayed' = frayed
      BY <1>3, <2>6 DEF ProfileWrite
    <3>2. asked' \in [User -> Vehicle \cup {None}] /\ raced' \subseteq users
      BY <3>1, <2>1, <2>3, NoteVehicleTyped DEF TInv, TypeOK
    <3>3. /\ users \subseteq User /\ name \in [User -> Name \cup {None}]
          /\ \A v \in users : name[v] # None /\ ~Taken(name[v], v)
      BY DEF TInv, TypeOK
    <3>4. \A v \in users : v # u => name[v] # q.name
      BY <2>6 DEF Taken
    <3>5. RestTyped'
      BY <2>1, <2>2, <2>3, <3>1, <3>2 DEF TInv, TypeOK, RestTyped
    <3> HIDE DEF u, q
    <3>6. ASSUME NEW v \in users PROVE name'[v] # None /\ ~Taken(name[v], v)'
      <4>1. /\ name'[u] = q.name
            /\ \A w \in users : w # u => name'[w] = name[w]
        BY <2>1, <3>1, <3>3
      <4>2. QED
        BY <4>1, <2>1, <2>3, <3>3, <3>4 DEF Taken
    <3>7. RowsTyped'
      <4>1. name' \in [User -> Name \cup {None}]
        BY <2>2, <3>1, <3>3
      <4>2. QED
        BY <4>1, <2>3, <3>3, <3>6 DEF RowsTyped, TInv, TypeOK
    <3>8. QED
      BY <2>4, <3>5, <3>7 DEF TInv, TypeOK, RowsTyped, RestTyped
  <2>7. QED
    BY <2>5, <2>6
<1>4. ASSUME req[r].pc \notin Registering \cup {"idle"}, UNCHANGED rows,
             /\ req' \in [Req -> Request]
             /\ \A s \in Req : Carried(req'[s], users', located')
             /\ Apart',
             UNCHANGED <<avatar, files, met, frayed>>,
             vehicle' \in [User -> Vehicle \cup {None}],
             NoteVehicle(r) \/ UNCHANGED <<asked, raced>>,
             verified' \subseteq verified \cup {req[r].user},
             located' \subseteq located \cup {req[r].user},
             coded' \subseteq coded \cup {req[r].user}
      PROVE  TInv'
  <2>1. users' = users /\ req[r].user \in users
    BY <1>4, UserRegistered DEF rows
  <2>2. asked' \in [User -> Vehicle \cup {None}] /\ raced' \subseteq users
    BY <1>4, <2>1, NoteVehicleTyped DEF TInv, TypeOK
  <2>3. RowsTyped'
    BY <1>4, RowsTypedKept DEF TInv
  <2>4. RestTyped'
    BY <1>4, <2>1, <2>2 DEF TInv, TypeOK, RestTyped
  <2>5. QED
    BY <1>4, <2>3, <2>4 DEF TInv, TypeOK, RowsTyped, RestTyped
<1>5. vehicle \in [User -> Vehicle \cup {None}]
  BY DEF TInv, TypeOK
<1>6. CASE RegisterFindName(r) \/ RegisterFindLicence(r)
  <2>1. /\ req[r].pc \in Registering
        /\ UNCHANGED <<rows, vehicle, avatar, files, verified, located, coded, aux>>
        /\ Finish(r) \/ \E p \in {"licence", "create"} : Go(r, p)
    BY <1>6 DEF RegisterFindName, RegisterFindLicence, Proceed, At, Registering
  <2>2. users' = users /\ located' = located
    BY <2>1 DEF rows
  <2>3. /\ req' \in [Req -> Request]
        /\ \A s \in Req : Carried(req'[s], users', located')
        /\ Apart'
    BY <2>1, <2>2, FinishKeeps, GoKeeps
  <2>4. RowsTyped'
    BY <2>1, RowsTypedKept DEF TInv
  <2>5. RestTyped'
    BY <2>1, <2>2 DEF TInv, TypeOK, RestTyped, aux
  <2>6. QED
    BY <2>3, <2>4, <2>5 DEF TInv, TypeOK, RowsTyped, RestTyped
<1>7. CASE AddVehicle(r) \/ UpdateVehicle(r)
  <2>1. /\ req[r].pc \in {"addVehicle", "updateVehicle"} /\ Finish(r)
        /\ UNCHANGED <<rows, avatar, files, verified, located, coded, met, frayed>>
        /\ \/ /\ vehicle' = [vehicle EXCEPT ![req[r].user] = req[r].vehicle]
              /\ NoteVehicle(r)
           \/ UNCHANGED <<vehicle, asked, raced>>
    BY <1>7 DEF AddVehicle, UpdateVehicle, At
  <2>2. req[r].pc \notin Registering \cup {"idle"}
    BY <2>1 DEF Registering
  <2>3. req[r].user \in User /\ req[r].vehicle \in Vehicle \cup {None}
    BY <2>2, UserRegistered DEF Request
  <2>4. vehicle' \in [User -> Vehicle \cup {None}]
    BY <2>1, <2>3, <1>5
  <2>5. users' = users /\ located' = located
    BY <2>1 DEF rows
  <2>6. /\ req' \in [Req -> Request]
        /\ \A s \in Req : Carried(req'[s], users', located')
        /\ Apart'
    BY <2>1, <2>5, FinishKeeps
  <2>7. QED
    BY <2>1, <2>2, <2>4, <2>6, <1>4
<1>8. CASE LocationFind(r)
  <2>1. /\ req[r].pc = "locationFind"
        /\ UNCHANGED <<rows, vehicle, avatar, files, verified, located, coded, aux>>
        /\ \/ Go(r, "locationUpdate")
           \/ Go(r, "locationCreate") /\ req[r].user \notin located
    BY <1>8 DEF LocationFind, At
  <2>2. req[r].pc \notin Registering \cup {"idle"} /\ users' = users
    BY <2>1 DEF Registering, rows
  <2>3. /\ req' \in [Req -> Request]
        /\ \A s \in Req : Carried(req'[s], users', located')
        /\ Apart'
    BY <2>1, <2>2, GoKeeps
  <2>4. QED
    BY <2>1, <2>2, <2>3, <1>4, <1>5 DEF aux
<1>9. CASE LicenceRead(r) \/ QrRead(r)
  <2>1. /\ req[r].pc \in {"licenceRead", "qrRead"}
        /\ UNCHANGED <<rows, vehicle, avatar, files, verified, located, coded, aux>>
        /\ Finish(r) \/ \E p \in {"licenceWrite", "qrWrite"} : Go(r, p)
    BY <1>9 DEF LicenceRead, QrRead, Proceed, At
  <2>2. req[r].pc \notin Registering \cup {"idle"} /\ users' = users
    BY <2>1 DEF Registering, rows
  <2>3. /\ req' \in [Req -> Request]
        /\ \A s \in Req : Carried(req'[s], users', located')
        /\ Apart'
    BY <2>1, <2>2, FinishKeeps, GoKeeps
  <2>4. QED
    BY <2>1, <2>2, <2>3, <1>4, <1>5 DEF aux
<1>10. CASE LocationUpdate(r) \/ LocationCreate(r) \/ LicenceWrite(r) \/ QrWrite(r)
  <2>1. /\ req[r].pc \in {"locationUpdate", "locationCreate", "licenceWrite",
                          "qrWrite"}
        /\ UNCHANGED <<rows, vehicle, avatar, files, aux>> /\ Finish(r)
        /\ verified' \subseteq verified \cup {req[r].user}
        /\ located' \subseteq located \cup {req[r].user}
        /\ coded' \subseteq coded \cup {req[r].user}
        /\ located \subseteq located'
    BY <1>10 DEF LocationUpdate, LocationCreate, LicenceWrite, QrWrite, At
  <2>2. req[r].pc \notin Registering \cup {"idle"} /\ users' = users
    BY <2>1 DEF Registering, rows
  <2>3. /\ req' \in [Req -> Request]
        /\ \A s \in Req : Carried(req'[s], users', located')
        /\ Apart'
    BY <2>1, <2>2, FinishKeeps
  <2>4. QED
    BY <2>1, <2>2, <2>3, <1>4, <1>5 DEF aux
<1>11. QED
  BY <1>1, <1>2, <1>3, <1>6, <1>7, <1>8, <1>9, <1>10 DEF Step

LEMMA TInvFail ==
  ASSUME TInv, NEW r \in Req, Fail(r)
  PROVE  TInv'
<1>1. /\ Finish(r) /\ UNCHANGED <<rows, vehicle, avatar, files, verified,
                                   located, coded, met, asked, raced>>
  BY DEF Fail
<1>2. users' = users /\ located' = located
  BY <1>1 DEF rows
<1>3. /\ req' \in [Req -> Request]
      /\ \A s \in Req : Carried(req'[s], users', located')
      /\ Apart'
  BY <1>1, <1>2, FinishKeeps
<1>4. frayed' \subseteq users
  <2>1. CASE At(r, "profile")
    BY <2>1, UserRegistered DEF At, Registering, Fail, TInv, TypeOK
  <2>2. CASE ~At(r, "profile")
    BY <2>2 DEF Fail, TInv, TypeOK
  <2>3. QED
    BY <2>1, <2>2
<1>5. RowsTyped'
  BY <1>1, RowsTypedKept DEF TInv
<1>6. RestTyped'
  BY <1>1, <1>2, <1>4 DEF TInv, TypeOK, RestTyped
<1>7. QED
  BY <1>3, <1>5, <1>6 DEF TInv, TypeOK, RowsTyped, RestTyped

LEMMA TInvNext == TInv /\ [Next]_vars => TInv'
<1>1. ASSUME TInv, NEW r \in Req, Arrive(r) \/ Step(r) \/ Fail(r) PROVE TInv'
  BY <1>1, TInvArrive, TInvStep, TInvFail
<1>2. ASSUME TInv, UNCHANGED vars PROVE TInv'
  BY <1>2 DEF TInv, TypeOK, Carried, Apart, Taken, vars, rows, aux
<1>3. QED
  BY <1>1, <1>2 DEF Next

LEMMA TInvAlways == Spec => []TInv
BY TInvInit, TInvNext, PTL DEF Spec

\* The rows of the users are well typed, nick names and addresses belong to one
\* user each, and a request that began when its user had a location never
\* tries to create another.
THEOREM RowsAreSound == Spec => []RowsSound
<1>1. TInv => RowsSound
  BY DEF TInv, Carried, RowsSound, LocationClashOnlyAtFirst, At
<1>2. QED
  BY <1>1, TInvAlways, PTL

-----------------------------------------------------------------------------
(* The steps that no invariant below is about: they touch no row of interest *)
(* and move one request between points of no interest.                       *)
Editor == {"profileRead", "profile"}
Quiet(r, q) ==
  /\ Writes(r, q) /\ UNCHANGED <<rows, vehicle, avatar, files, aux>>
  /\ q.pc \notin Registering \cup Editor /\ req[r].pc \notin Registering \cup Editor
  /\ \/ q.file = None /\ q.body = {}
     \/ q.file = req[r].file /\ q.body = req[r].body

LEMMA QuietArrivals ==
  ASSUME TInv, NEW r \in Req, NEW u \in User,
         \/ LocationBegin(r, u) \/ QrBegin(r, u)
         \/ \E l \in Licence : LicenceBegin(r, u, l)
         \/ \E v \in Vehicle \cup {None} :
              AddVehicleBegin(r, u, v) \/ UpdateVehicleBegin(r, u, v)
  PROVE  \E q \in Request : Quiet(r, q)
<1>1. UNCHANGED <<rows, vehicle, avatar, files, aux>>
  BY DEF LocationBegin, QrBegin, LicenceBegin, AddVehicleBegin, UpdateVehicleBegin
<1>2. ASSUME NEW q \in Request, Start(r, q), q.file = None, q.body = {},
             q.pc \in {"locationFind", "qrRead", "licenceRead", "addVehicle",
                       "updateVehicle"}
      PROVE  Quiet(r, q)
  BY <1>1, <1>2 DEF Quiet, Start, At, Writes, Registering, Editor
<1>3. ASSUME LocationBegin(r, u) PROVE \E q \in Request : Quiet(r, q)
  <2> DEFINE k == u \in located
             q == [Fresh("locationFind", u) EXCEPT !.knew = k]
  <2>1. Start(r, q) /\ k \in BOOLEAN
    BY <1>3 DEF LocationBegin
  <2> HIDE DEF k
  <2>2. q \in Request /\ q.pc = "locationFind" /\ q.file = None /\ q.body = {}
    BY <2>1 DEF Fresh, NoRequest, Request, Registering
  <2> HIDE DEF q
  <2>3. QED
    BY <2>1, <2>2, <1>2
<1>4. ASSUME QrBegin(r, u) PROVE \E q \in Request : Quiet(r, q)
  <2> DEFINE q == Fresh("qrRead", u)
  <2>1. q \in Request /\ q.pc = "qrRead" /\ q.file = None /\ q.body = {}
    BY DEF Fresh, NoRequest, Request, Registering
  <2>2. QED
    BY <1>4, <2>1, <1>2 DEF QrBegin
<1>5. ASSUME NEW l \in Licence, LicenceBegin(r, u, l)
      PROVE  \E q \in Request : Quiet(r, q)
  <2> DEFINE q == [Fresh("licenceRead", u) EXCEPT !.licence = l]
  <2>1. q \in Request /\ q.pc = "licenceRead" /\ q.file = None /\ q.body = {}
    BY DEF Fresh, NoRequest, Request, Registering
  <2>2. QED
    BY <1>5, <2>1, <1>2 DEF LicenceBegin
<1>6. ASSUME NEW v \in Vehicle \cup {None}, NEW p \in {"addVehicle", "updateVehicle"},
             Start(r, [Fresh(p, u) EXCEPT !.vehicle = v])
      PROVE  \E q \in Request : Quiet(r, q)
  <2> DEFINE q == [Fresh(p, u) EXCEPT !.vehicle = v]
  <2>1. q \in Request /\ q.pc = p /\ q.file = None /\ q.body = {}
    BY DEF Fresh, NoRequest, Request, Registering
  <2>2. QED
    BY <1>6, <2>1, <1>2
<1>7. QED
  BY <1>3, <1>4, <1>5, <1>6 DEF AddVehicleBegin, UpdateVehicleBegin

LEMMA QuietSteps ==
  ASSUME TInv, NEW r \in Req,
         \/ LocationFind(r) \/ LocationUpdate(r) \/ LocationCreate(r)
         \/ LicenceRead(r) \/ LicenceWrite(r) \/ QrRead(r) \/ QrWrite(r)
  PROVE  \E q \in Request : Quiet(r, q)
<1>1. /\ UNCHANGED <<rows, vehicle, avatar, files, aux>>
      /\ req[r].pc \in {"locationFind", "locationUpdate", "locationCreate",
                        "licenceRead", "licenceWrite", "qrRead", "qrWrite"}
      /\ \/ Finish(r)
         \/ \E p \in {"locationUpdate", "locationCreate", "licenceWrite", "qrWrite"} :
              Go(r, p)
  BY DEF LocationFind, LocationUpdate, LocationCreate, LicenceRead, LicenceWrite,
         QrRead, QrWrite, Proceed, At, aux
<1>2. req[r].pc \notin Registering \cup Editor
  BY <1>1 DEF Registering, Editor
<1>3. CASE Finish(r)
  <2>1. /\ NoRequest.pc \notin Registering \cup Editor
        /\ NoRequest.file = None /\ NoRequest.body = {}
    BY DEF NoRequest, Registering, Editor
  <2>2. Writes(r, NoRequest)
    BY <1>3, FinishWrites
  <2>3. QED
    BY <1>1, <1>2, <2>1, <2>2 DEF Quiet, Writes
<1>4. ASSUME NEW p \in {"locationUpdate", "locationCreate", "licenceWrite", "qrWrite"},
             Go(r, p)
      PROVE  \E q \in Request : Quiet(r, q)
  <2> DEFINE q == [req[r] EXCEPT !.pc = p]
  <2>1. Writes(r, q)
    BY <1>4, GoWrites DEF TInv
  <2>2. q \in Request /\ q.pc = p /\ q.file = req[r].file /\ q.body = req[r].body
    BY <2>1 DEF Writes, TInv, TypeOK, Request
  <2> HIDE DEF q
  <2>3. q.pc \notin Registering \cup Editor
    BY <2>2 DEF Registering, Editor
  <2>4. QED
    BY <1>1, <1>2, <2>1, <2>2, <2>3 DEF Quiet
<1>5. QED
  BY <1>1, <1>3, <1>4

LEMMA StepsAre ==
  ASSUME TInv, NEW r \in Req, Arrive(r) \/ Step(r) \/ Fail(r)
  PROVE  \/ \E u \in User, n \in Name, l \in Licence \cup {None} :
              RegisterBegin(r, u, n, l)
         \/ RegisterFindName(r) \/ RegisterFindLicence(r) \/ RegisterCreate(r)
         \/ \E u \in User, n \in Name \cup {None}, v \in Vehicle \cup {None},
               f \in File \cup {None} : ProfileBegin(r, u, n, v, f)
         \/ ProfileRead(r) \/ ProfileWrite(r)
         \/ AddVehicle(r) \/ UpdateVehicle(r) \/ Fail(r)
         \/ \E q \in Request : Quiet(r, q)
<1>1. CASE Arrive(r)
  BY <1>1, QuietArrivals, ConstantsAssumption DEF Arrive
<1>2. CASE Step(r)
  BY <1>2, QuietSteps DEF Step
<1>3. QED
  BY <1>1, <1>2

-----------------------------------------------------------------------------
(* Licences.  The users of registrations that run together are paired in met; *)
(* a registration past the look-up shares its licence only with rows it has  *)
(* met.                                                                      *)
Crossing == \A r, s \in Req : /\ r # s
                              /\ req[r].pc \in Registering
                              /\ req[s].pc \in Registering
                              => <<req[r].user, req[s].user>> \in met
Cleared(q) == \A v \in users : /\ q.pc = "create" /\ q.licence # None
                              /\ licence[v] = q.licence
                              => <<q.user, v>> \in met /\ <<v, q.user>> \in met
LInv == /\ LicenceSharedByRaceOnly
        /\ Crossing
        /\ \A r \in Req : Cleared(req[r])

\* The steps that are no part of a registration keep it.
LEMMA LInvElsewhere ==
  ASSUME TInv, LInv, NEW r \in Req, NEW q, Writes(r, q),
         q.pc \notin Registering,
         users' = users, licence' = licence, met' = met
  PROVE  LInv'
<1>1. req'[r] = q /\ \A s \in Req \ {r} : req'[s] = req[s]
  BY WritesWhere DEF TInv
<1>2. Crossing'
  BY <1>1 DEF LInv, Crossing
<1>3. ASSUME NEW s \in Req PROVE Cleared(req[s])'
  BY <1>1 DEF LInv, Cleared, Registering
<1>4. LicenceSharedByRaceOnly'
  BY DEF LInv, LicenceSharedByRaceOnly
<1>5. QED
  BY <1>2, <1>3, <1>4 DEF LInv

LEMMA FinishElsewhere ==
  ASSUME TInv, LInv, NEW r \in Req, Finish(r),
         users' = users, licence' = licence, met' = met
  PROVE  LInv'
<1>1. Writes(r, NoRequest) /\ NoRequest.pc \notin Registering
  BY FinishWrites DEF NoRequest, Registering
<1>2. QED
  BY <1>1, LInvElsewhere

\* A look-up that finds nothing moves its registration on.
LEMMA LookUpKeepsLicences ==
  ASSUME TInv, LInv, NEW r \in Req, NEW p \in {"licence", "create"}, Go(r, p),
         req[r].pc \in Registering, UNCHANGED <<users, licence, met>>,
         p = "create" => \/ req[r].licence = None
                         \/ \A v \in users : licence[v] # req[r].licence
  PROVE  LInv'
<1> DEFINE q == [req[r] EXCEPT !.pc = p]
<1>1. Writes(r, q)
  BY GoWrites DEF TInv
<1>2. q.pc = p /\ q.user = req[r].user /\ q.licence = req[r].licence
  BY DEF TInv, TypeOK, Request
<1> HIDE DEF q
<1>3. req'[r] = q /\ \A s \in Req \ {r} : req'[s] = req[s]
  BY <1>1, WritesWhere DEF TInv
<1>4. Crossing'
  BY <1>2, <1>3 DEF LInv, Crossing
<1>5. ASSUME NEW s \in Req PROVE Cleared(req[s])'
  BY <1>2, <1>3 DEF LInv, Cleared
<1>6. LicenceSharedByRaceOnly'
  BY DEF LInv, LicenceSharedByRaceOnly
<1>7. QED
  BY <1>4, <1>5, <1>6 DEF LInv

LEMMA LInvNext == TInv /\ LInv /\ [Next]_vars => LInv'
<1>1. ASSUME TInv, LInv, NEW r \in Req, NEW u \in User, NEW n \in Name,
             NEW l \in Licence \cup {None}, RegisterBegin(r, u, n, l)
      PROVE  LInv'
  <2>1. PICK q \in Request : Writes(r, q) /\ q.pc = "name" /\ q.user = u
    BY <1>1, RegisterBeginWrites
  <2>2. /\ req'[r] = q /\ \A s \in Req \ {r} : req'[s] = req[s]
        /\ users' = users /\ licence' = licence /\ req[r].pc = "idle"
        /\ u \notin users /\ \A s \in Req : req[s].user # u
    BY <1>1, <2>1, WritesWhere DEF TInv, RegisterBegin, rows, Start, At
  <2> DEFINE others == {req[s].user : s \in {x \in Req : req[x].pc \in Registering}}
  <2>3. met' = {p \in met : u \notin {p[1], p[2]}}
                 \cup ({u} \X others) \cup (others \X {u})
    BY <1>1 DEF RegisterBegin
  <2>3a. \A s \in Req \ {r} : req[s].pc \in Registering => req[s].user \in others
    OBVIOUS
  <2> HIDE DEF others
  <2>3b. ASSUME NEW s \in Req \ {r}, req[s].pc \in Registering
         PROVE  <<req[s].user, u>> \in met' /\ <<u, req[s].user>> \in met'
    BY <2>3, <2>3a, <2>3b
  <2>3c. ASSUME NEW v, NEW w, <<v, w>> \in met, v # u, w # u
         PROVE  <<v, w>> \in met'
    BY <2>3, <2>3c
  <2>4. ASSUME NEW s \in Req, NEW t \in Req, s # t,
               req'[s].pc \in Registering, req'[t].pc \in Registering
        PROVE  <<req'[s].user, req'[t].user>> \in met'
    <3>1. CASE s = r
      BY <2>1, <2>2, <2>3b, <2>4, <3>1
    <3>2. CASE t = r
      BY <2>1, <2>2, <2>3b, <2>4, <3>2
    <3>3. CASE s # r /\ t # r
      BY <2>2, <2>3c, <2>4, <3>3, <1>1 DEF LInv, Crossing
    <3>4. QED
      BY <3>1, <3>2, <3>3
  <2>4a. Crossing'
    BY <2>4 DEF Crossing
  <2>5. ASSUME NEW s \in Req PROVE Cleared(req[s])'
    <3>1. CASE s = r
      BY <2>1, <2>2, <3>1 DEF Cleared
    <3>2. CASE s # r
      <4>1. req'[s] = req[s] /\ req[s].user # u /\ Cleared(req[s])
        BY <2>2, <3>2, <1>1 DEF LInv
      <4>2. QED
        BY <4>1, <2>2, <2>3c DEF Cleared
    <3>3. QED
      BY <3>1, <3>2
  <2>6. LicenceSharedByRaceOnly'
    BY <2>2, <2>3c, <1>1 DEF LInv, LicenceSharedByRaceOnly
  <2>7. QED
    BY <2>4a, <2>5, <2>6 DEF LInv
<1>2. ASSUME TInv, LInv, NEW r \in Req, RegisterFindName(r) \/ RegisterFindLicence(r)
      PROVE  LInv'
  <2>1. UNCHANGED <<users, licence, met>> /\ req[r].pc \in Registering
    BY <1>2 DEF RegisterFindName, RegisterFindLicence, rows, aux, At, Registering
  <2>2. \/ Finish(r)
        \/ \E p \in {"licence", "create"} :
             /\ Go(r, p)
             /\ p = "create" => \/ req[r].licence = None
                                \/ \A v \in users : licence[v] # req[r].licence
    BY <1>2 DEF RegisterFindName, RegisterFindLicence, Proceed
  <2>3. QED
    BY <1>2, <2>1, <2>2, FinishElsewhere, LookUpKeepsLicences
<1>3. ASSUME TInv, LInv, NEW r \in Req, RegisterCreate(r) PROVE LInv'
  <2>1. CASE UNCHANGED rows
    BY <1>3, <2>1, FinishElsewhere DEF RegisterCreate, rows, aux
  <2>2. CASE ~UNCHANGED rows
    <3> DEFINE u == req[r].user
               l == req[r].licence
    <3>1. /\ users' = users \cup {u} /\ licence' = [licence EXCEPT ![u] = l]
          /\ met' = met /\ req[r].pc = "create" /\ Finish(r)
      BY <1>3, <2>2 DEF RegisterCreate, aux, At
    <3>2. /\ u \in User /\ u \notin users
          /\ \A s \in Req \ {r} : req[s].pc \in Registering =>
               <<req[s].user, u>> \in met /\ <<u, req[s].user>> \in met
      BY <1>3, <3>1 DEF TInv, Carried, Registering, LInv, Crossing
    <3>3. /\ req'[r].pc \notin Registering
          /\ \A s \in Req \ {r} : req'[s] = req[s]
      BY <1>3, <3>1, FinishWrites, WritesWhere DEF TInv, NoRequest, Registering
    <3>4. \A v \in users : licence[v] = l /\ l # None
                          => <<u, v>> \in met /\ <<v, u>> \in met
      BY <1>3, <3>1 DEF LInv, Cleared
    <3>5. licence'[u] = l /\ \A v \in users : licence'[v] = licence[v]
      BY <1>3, <3>1, <3>2 DEF TInv, TypeOK
    <3> HIDE DEF u, l
    <3>6. Crossing'
      BY <1>3, <3>1, <3>3 DEF LInv, Crossing
    <3>7. ASSUME NEW s \in Req PROVE Cleared(req[s])'
      BY <1>3, <3>1, <3>2, <3>3, <3>5 DEF LInv, Cleared, Registering
    <3>8. LicenceSharedByRaceOnly'
      BY <1>3, <3>1, <3>4, <3>5 DEF LInv, LicenceSharedByRaceOnly
    <3>9. QED
      BY <3>6, <3>7, <3>8 DEF LInv
  <2>3. QED
    BY <2>1, <2>2
<1>4. ASSUME TInv, LInv, NEW r \in Req, NEW u \in User, NEW n \in Name \cup {None},
             NEW v \in Vehicle \cup {None}, NEW f \in File \cup {None},
             ProfileBegin(r, u, n, v, f)
      PROVE  LInv'
  <2>1. PICK q \in Request : Writes(r, q) /\ q.pc = "profileRead"
    BY <1>4, ProfileBeginWrites
  <2>2. q.pc \notin Registering /\ UNCHANGED <<users, licence, met>>
    BY <1>4, <2>1 DEF ProfileBegin, aux, rows, Registering
  <2>3. QED
    BY <1>4, <2>1, <2>2, LInvElsewhere
<1>5. ASSUME TInv, LInv, NEW r \in Req, ProfileRead(r) PROVE LInv'
  <2>1. PICK q \in Request : Writes(r, q) /\ q.pc = "profile"
    BY <1>5, ProfileReadWrites
  <2>2. q.pc \notin Registering /\ UNCHANGED <<users, licence, met>>
    BY <1>5, <2>1 DEF ProfileRead, rows, Registering
  <2>3. QED
    BY <1>5, <2>1, <2>2, LInvElsewhere
<1>6. ASSUME TInv, LInv, NEW r \in Req,
             ProfileWrite(r) \/ AddVehicle(r) \/ UpdateVehicle(r) \/ Fail(r)
      PROVE  LInv'
  BY <1>6, FinishElsewhere DEF ProfileWrite, AddVehicle, UpdateVehicle, Fail, rows
<1>7. ASSUME TInv, LInv, NEW r \in Req, NEW q \in Request, Quiet(r, q) PROVE LInv'
  BY <1>7, LInvElsewhere DEF Quiet, rows, aux
<1>8. ASSUME TInv, LInv, UNCHANGED vars PROVE LInv'
  BY <1>8 DEF LInv, LicenceSharedByRaceOnly, Crossing, Cleared, vars, rows, aux
<1>9. ASSUME TInv, LInv, NEW r \in Req, Arrive(r) \/ Step(r) \/ Fail(r) PROVE LInv'
  BY <1>1, <1>2, <1>3, <1>4, <1>5, <1>6, <1>7, <1>9, StepsAre
<1>10. QED
  BY <1>8, <1>9 DEF Next

\* Two accounts have the same licence only if their registrations ran together.
THEOREM LicencesSharedByRaceOnly == Spec => []LicenceSharedByRaceOnly
<1>1. Init => LInv
  <2> SUFFICES ASSUME Init PROVE LInv
    OBVIOUS
  <2>1. users = {} /\ \A r \in Req : req[r].pc = "idle"
    BY DEF Init, NoRequest
  <2>2. QED
    BY <2>1 DEF LInv, LicenceSharedByRaceOnly, Crossing, Cleared, Registering
<1>2. LInv => LicenceSharedByRaceOnly
  BY DEF LInv
<1>3. QED
  BY <1>1, <1>2, TInvAlways, LInvNext, PTL DEF Spec

-----------------------------------------------------------------------------
(* Vehicles.  A profile update that fills in the vehicle holds the one asked *)
(* for last, or its user is in raced already.                                *)
Asked(q) == q.pc = "profile" /\ "vehicle" \notin q.body
              => q.user \in raced \/ q.vehicle = asked[q.user]
BodyIs(q) == q.pc = "profileRead" /\ "vehicle" \notin q.body => q.vehicle = None
VInv == /\ \A u \in User : u \in raced \/ vehicle[u] = asked[u]
        /\ \A r \in Req : Asked(req[r]) /\ BodyIs(req[r])

\* The steps that write no vehicle and no point "profile" keep it.
LEMMA VInvElsewhere ==
  ASSUME TInv, VInv, NEW r \in Req, NEW q, Writes(r, q),
         q.pc # "profile", BodyIs(q), UNCHANGED <<vehicle, asked, raced>>
  PROVE  VInv'
<1>1. req'[r] = q /\ \A s \in Req \ {r} : req'[s] = req[s]
  BY WritesWhere DEF TInv
<1>2. QED
  BY <1>1 DEF VInv, Asked, BodyIs

LEMMA FinishKeepsVehicles ==
  ASSUME TInv, VInv, NEW r \in Req, Finish(r), UNCHANGED <<vehicle, asked, raced>>
  PROVE  VInv'
<1>1. Writes(r, NoRequest) /\ NoRequest.pc # "profile" /\ BodyIs(NoRequest)
  BY FinishWrites DEF NoRequest, BodyIs
<1>2. QED
  BY <1>1, VInvElsewhere

\* The vehicle asked for is written: the updates it meets are in raced then.
LEMMA VInvAsked ==
  ASSUME TInv, VInv, NEW r \in Req, Finish(r), NoteVehicle(r),
         req[r].user \in User,
         vehicle' = [vehicle EXCEPT ![req[r].user] = req[r].vehicle]
  PROVE  VInv'
<1> DEFINE u == req[r].user
           v == req[r].vehicle
<1>1. /\ req'[r].pc = "idle" /\ \A s \in Req \ {r} : req'[s] = req[s]
  BY FinishWrites, WritesWhere DEF TInv, NoRequest
<1>2. /\ asked' = [asked EXCEPT ![u] = v]
      /\ vehicle' = [vehicle EXCEPT ![u] = v]
      /\ \A w \in User \ {u} : w \in raced' <=> w \in raced
      /\ \A s \in Req \ {r} : req[s].pc = "profile" /\ req[s].user = u => u \in raced'
  BY DEF NoteVehicle, Editing, At
<1>3. asked \in [User -> Vehicle \cup {None}] /\ vehicle \in [User -> Vehicle \cup {None}]
  BY DEF TInv, TypeOK
<1>4. \A s \in Req : req[s].pc = "profile" => req[s].user \in User
  BY DEF TInv, TypeOK, Carried, Registering
<1> HIDE DEF u, v
<1>5. ASSUME NEW w \in User PROVE w \in raced' \/ vehicle'[w] = asked'[w]
  BY <1>2, <1>3 DEF VInv
<1>6. ASSUME NEW s \in Req PROVE Asked(req[s])' /\ BodyIs(req[s])'
  BY <1>1, <1>2, <1>3, <1>4 DEF VInv, Asked, BodyIs
<1>7. QED
  BY <1>5, <1>6 DEF VInv

LEMMA VInvNext == TInv /\ VInv /\ [Next]_vars => VInv'
<1>1. ASSUME TInv, VInv, NEW r \in Req, NEW u \in User, NEW n \in Name,
             NEW l \in Licence \cup {None}, RegisterBegin(r, u, n, l)
      PROVE  VInv'
  <2>1. PICK q \in Request : Writes(r, q) /\ q.pc = "name"
    BY <1>1, RegisterBeginWrites
  <2>2. UNCHANGED <<vehicle, asked, raced>>
    BY <1>1 DEF RegisterBegin
  <2>3. QED
    BY <1>1, <2>1, <2>2, VInvElsewhere DEF BodyIs
<1>2. ASSUME TInv, VInv, NEW r \in Req,
             RegisterFindName(r) \/ RegisterFindLicence(r)
      PROVE  VInv'
  <2>1. UNCHANGED <<vehicle, asked, raced>>
    BY <1>2 DEF RegisterFindName, RegisterFindLicence, aux
  <2>2. Finish(r) \/ \E p \in {"licence", "create"} : Go(r, p)
    BY <1>2 DEF RegisterFindName, RegisterFindLicence, Proceed
  <2>3. ASSUME NEW p \in {"licence", "create"}, Go(r, p) PROVE VInv'
    <3> DEFINE q == [req[r] EXCEPT !.pc = p]
    <3>1. Writes(r, q)
      BY <1>2, <2>3, GoWrites DEF TInv
    <3>2. q.pc = p
      BY <1>2 DEF TInv, TypeOK, Request
    <3> HIDE DEF q
    <3>3. QED
      BY <1>2, <2>1, <3>1, <3>2, VInvElsewhere DEF BodyIs
  <2>4. QED
    BY <1>2, <2>1, <2>2, <2>3, FinishKeepsVehicles
<1>3. ASSUME TInv, VInv, NEW r \in Req, RegisterCreate(r) \/ Fail(r) PROVE VInv'
  BY <1>3, FinishKeepsVehicles DEF RegisterCreate, Fail, aux
<1>4. ASSUME TInv, VInv, NEW r \in Req, NEW u \in User, NEW n \in Name \cup {None},
             NEW v \in Vehicle \cup {None}, NEW f \in File \cup {None},
             ProfileBegin(r, u, n, v, f)
      PROVE  VInv'
  <2>1. PICK q \in Request : Writes(r, q) /\ q.pc = "profileRead" /\ BodyIs(q)
    BY <1>4, ProfileBeginWrites DEF BodyIs
  <2>2. UNCHANGED <<vehicle, asked, raced>>
    BY <1>4 DEF ProfileBegin, aux
  <2>3. QED
    BY <1>4, <2>1, <2>2, VInvElsewhere
<1>5. ASSUME TInv, VInv, NEW r \in Req, ProfileRead(r) PROVE VInv'
  <2> DEFINE p == req[r]
  <2>1. PICK q \in Request :
          /\ Writes(r, q) /\ q.pc = "profile" /\ q.user = p.user /\ q.body = p.body
          /\ q.user \in users
          /\ q.vehicle = IF p.vehicle = None THEN vehicle[p.user] ELSE p.vehicle
    BY <1>5, ProfileReadWrites
  <2>2. /\ UNCHANGED <<vehicle, asked, raced>> /\ p.pc = "profileRead"
        /\ req'[r] = q /\ \A s \in Req \ {r} : req'[s] = req[s]
    BY <1>5, <2>1, WritesWhere DEF ProfileRead, At, TInv
  <2>3. q.user \in User
    BY <1>5, <2>1 DEF TInv, TypeOK
  <2>4. Asked(q) /\ BodyIs(q)
    BY <1>5, <2>1, <2>2, <2>3 DEF VInv, Asked, BodyIs
  <2>5. QED
    BY <1>5, <2>2, <2>4 DEF VInv, Asked, BodyIs
<1>6. ASSUME TInv, VInv, NEW r \in Req, ProfileWrite(r) PROVE VInv'
  <2> DEFINE q == req[r]
             u == req[r].user
  <2>1. u \in User /\ q.pc = "profile" /\ Finish(r)
    BY <1>6 DEF ProfileWrite, At, TInv, TypeOK, Carried, Registering
  <2>2. CASE Taken(q.name, u)
    BY <1>6, <2>1, <2>2, FinishKeepsVehicles DEF ProfileWrite
  <2>3. CASE ~Taken(q.name, u) /\ "vehicle" \in q.body
    BY <1>6, <2>1, <2>3, VInvAsked DEF ProfileWrite
  <2>4. CASE ~Taken(q.name, u) /\ "vehicle" \notin q.body
    <3>1. vehicle' = [vehicle EXCEPT ![u] = q.vehicle] /\ UNCHANGED <<asked, raced>>
      BY <1>6, <2>4 DEF ProfileWrite
    <3>2. u \in raced \/ q.vehicle = asked[u]
      BY <1>6, <2>1, <2>4 DEF VInv, Asked
    <3>3. /\ req'[r].pc = "idle" /\ \A s \in Req \ {r} : req'[s] = req[s]
      BY <1>6, <2>1, FinishWrites, WritesWhere DEF TInv, NoRequest
    <3>4. vehicle \in [User -> Vehicle \cup {None}]
      BY <1>6 DEF TInv, TypeOK
    <3> HIDE DEF q, u
    <3>5. ASSUME NEW w \in User PROVE w \in raced' \/ vehicle'[w] = asked'[w]
      BY <1>6, <3>1, <3>2, <3>4 DEF VInv
    <3>6. QED
      BY <1>6, <3>1, <3>3, <3>5 DEF VInv, Asked, BodyIs
  <2>5. QED
    BY <2>2, <2>3, <2>4
<1>7. ASSUME TInv, VInv, NEW r \in Req, AddVehicle(r) \/ UpdateVehicle(r) PROVE VInv'
  <2>1. req[r].pc \in {"addVehicle", "updateVehicle"}
    BY <1>7 DEF AddVehicle, UpdateVehicle, At
  <2>2. req[r].user \in User
    BY <1>7, <2>1, UserRegistered DEF Registering
  <2>3. QED
    BY <1>7, <2>2, VInvAsked, FinishKeepsVehicles DEF AddVehicle, UpdateVehicle
<1>8. ASSUME TInv, VInv, NEW r \in Req, NEW q \in Request, Quiet(r, q) PROVE VInv'
  BY <1>8, VInvElsewhere DEF Quiet, aux, Editor, BodyIs
<1>9. ASSUME TInv, VInv, UNCHANGED vars PROVE VInv'
  BY <1>9 DEF VInv, Asked, BodyIs, vars, rows, aux
<1>10. ASSUME TInv, VInv, NEW r \in Req, Arrive(r) \/ Step(r) \/ Fail(r) PROVE VInv'
  BY <1>1, <1>2, <1>3, <1>4, <1>5, <1>6, <1>7, <1>8, <1>10, StepsAre
<1>11. QED
  BY <1>9, <1>10 DEF Next

\* The vehicle of a row is the one its user asked for last, unless a profile
\* update stood between its read and its write when the user asked.
THEOREM VehiclesAsAsked == Spec => []VehicleAsAsked
<1>1. Init => VInv
  BY DEF Init, VInv, Asked, BodyIs, NoRequest
<1>2. TInv /\ VInv => VehicleAsAsked
  BY DEF TInv, TypeOK, VInv, VehicleAsAsked
<1>3. QED
  BY <1>1, <1>2, TInvAlways, VInvNext, PTL DEF Spec

-----------------------------------------------------------------------------
(* Avatars.  A file belongs to one user; a new upload is on disk, named by   *)
(* no row and carried by no other request; of two updates of one user that   *)
(* are past their read, the user is in frayed.                               *)
Holds(q) == /\ q.pc \notin Editor => q.file = None /\ q.body = {}
            /\ "file" \in q.body => q.file # None
            /\ q.pc = "profileRead" /\ q.file # None => "file" \in q.body
OneOwner ==
  /\ \A u, v \in User : avatar[u] # None /\ avatar[u] = avatar[v] => u = v
  /\ \A r \in Req, v \in User :
       req[r].file # None /\ req[r].file = avatar[v] => req[r].user = v
  /\ \A r, s \in Req :
       req[r].file # None /\ req[r].file = req[s].file => req[r].user = req[s].user
Uploaded(r) ==
  "file" \in req[r].body => /\ req[r].file \in files
                           /\ \A v \in User : avatar[v] # req[r].file
                           /\ \A s \in Req \ {r} : req[s].file # req[r].file
Beside == \A r, s \in Req : /\ r # s /\ At(r, "profile") /\ At(s, "profile")
                            /\ req[r].user = req[s].user
                            => req[r].user \in frayed
Intact(q) ==
  q.pc = "profile" => \/ q.user \in frayed
                      \/ /\ q.file \in files \cup {None}
                         /\ "file" \in q.body \/ avatar[q.user] = q.file
OnDisk(u) == \/ avatar[u] \in files \cup {None}
             \/ u \in frayed
             \/ \E r \in Req : At(r, "profile") /\ req[r].user = u
AInv ==
  /\ OneOwner /\ Beside
  /\ \A r \in Req : Holds(req[r]) /\ Uploaded(r) /\ Intact(req[r])
  /\ \A u \in User : OnDisk(u)

\* The steps that carry no file and touch none keep it.
LEMMA AInvElsewhere ==
  ASSUME TInv, AInv, NEW r \in Req, NEW q, Writes(r, q),
         q.pc \notin Editor, q.file = None, q.body = {}, ~At(r, "profile"),
         UNCHANGED <<avatar, files>>, frayed \subseteq frayed'
  PROVE  AInv'
<1>1. req'[r] = q /\ \A s \in Req \ {r} : req'[s] = req[s]
  BY WritesWhere DEF TInv
<1>2. req'[r].pc # "profile" /\ req'[r].file = None /\ req'[r].body = {}
  BY <1>1 DEF Editor
<1>3. OneOwner'
  BY <1>1, <1>2 DEF AInv, OneOwner
<1>4. Beside'
  BY <1>1, <1>2 DEF AInv, Beside, At
<1>5. ASSUME NEW s \in Req PROVE Holds(req[s])' /\ Intact(req[s])'
  BY <1>1 DEF AInv, Holds, Intact, Editor
<1>6. ASSUME NEW s \in Req PROVE Uploaded(s)'
  <2>1. CASE s = r
    BY <1>2, <2>1 DEF Uploaded
  <2>2. CASE s # r
    <3>1. /\ Uploaded(s) /\ req'[s] = req[s]
          /\ "file" \in req[s].body => req[s].file # None
      BY <1>1, <2>2 DEF AInv, Holds
    <3>2. QED
      BY <3>1, <1>1, <1>2 DEF Uploaded
  <2>3. QED
    BY <2>1, <2>2
<1>7. ASSUME NEW u \in User PROVE OnDisk(u)'
  BY <1>1 DEF AInv, OnDisk, At
<1>8. QED
  BY <1>3, <1>4, <1>5, <1>6, <1>7 DEF AInv

LEMMA FinishKeepsAvatars ==
  ASSUME TInv, AInv, NEW r \in Req, Finish(r), ~At(r, "profile"),
         UNCHANGED <<avatar, files>>, frayed \subseteq frayed'
  PROVE  AInv'
<1>1. /\ Writes(r, NoRequest) /\ NoRequest.pc \notin Editor
      /\ NoRequest.file = None /\ NoRequest.body = {}
  BY FinishWrites DEF NoRequest, Editor
<1>2. QED
  BY <1>1, AInvElsewhere

\* An upload arrives.
LEMMA AInvUpload ==
  ASSUME TInv, AInv, NEW r \in Req, NEW u \in User, NEW n \in Name \cup {None},
         NEW v \in Vehicle \cup {None}, NEW f \in File \cup {None},
         ProfileBegin(r, u, n, v, f)
  PROVE  AInv'
<1>1. PICK q \in Request :
        /\ Start(r, q) /\ Writes(r, q) /\ q.pc = "profileRead" /\ q.user = u
        /\ q.file = f /\ ("file" \in q.body <=> f # None)
  BY ProfileBeginWrites
<1>2. /\ req'[r] = q /\ \A s \in Req \ {r} : req'[s] = req[s]
      /\ avatar' = avatar /\ frayed' = frayed /\ files' = files \cup ({f} \ {None})
      /\ At(r, "idle")
  BY <1>1, WritesWhere DEF TInv, ProfileBegin, aux, Start
<1>3. f # None => /\ \A w \in User : avatar[w] # f
                  /\ \A s \in Req : req[s].file # f
  BY DEF ProfileBegin, Unnamed
<1>4. OneOwner'
  BY <1>1, <1>2, <1>3 DEF AInv, OneOwner
<1>5. Beside'
  BY <1>1, <1>2 DEF AInv, Beside, At
<1>6. ASSUME NEW s \in Req PROVE Holds(req[s])' /\ Intact(req[s])'
  BY <1>1, <1>2 DEF AInv, Holds, Intact, Editor
<1>7. ASSUME NEW s \in Req PROVE Uploaded(s)'
  <2>1. CASE s = r
    BY <1>1, <1>2, <1>3, <2>1 DEF Uploaded
  <2>2. CASE s # r
    <3>1. /\ Uploaded(s) /\ req'[s] = req[s]
          /\ "file" \in req[s].body => req[s].file # None
      BY <1>2, <2>2 DEF AInv, Holds
    <3>2. QED
      BY <3>1, <1>1, <1>2, <1>3 DEF Uploaded
  <2>3. QED
    BY <2>1, <2>2
<1>8. ASSUME NEW w \in User PROVE OnDisk(w)'
  BY <1>2 DEF AInv, OnDisk, At
<1>9. QED
  BY <1>4, <1>5, <1>6, <1>7, <1>8 DEF AInv

\* An update reads the row and, with a new file, unlinks the old one.
LEMMA AInvRead ==
  ASSUME TInv, AInv, NEW r \in Req, ProfileRead(r)
  PROVE  AInv'
<1> DEFINE p == req[r]
           u == req[r].user
<1>1. PICK q \in Request :
        /\ Writes(r, q) /\ q.pc = "profile" /\ q.user = u /\ q.body = p.body
        /\ u \in users /\ q.file = IF p.file = None THEN avatar[u] ELSE p.file
  BY ProfileReadWrites
<1>2. /\ req'[r] = q /\ \A s \in Req \ {r} : req'[s] = req[s]
      /\ avatar' = avatar /\ p.pc = "profileRead"
      /\ files' = IF "file" \in p.body THEN files \ {avatar[u]} ELSE files
      /\ frayed' = IF Editing(r, u) THEN frayed \cup {u} ELSE frayed
  BY <1>1, WritesWhere DEF TInv, ProfileRead, At
<1>3. /\ u \in User /\ Uploaded(r)
      /\ "file" \in p.body <=> p.file # None
      /\ frayed \subseteq frayed'
  BY <1>1, <1>2 DEF AInv, TInv, TypeOK, Holds
<1>4. \A s \in Req \ {r} : At(s, "profile") /\ req[s].user = u => u \in frayed'
  BY <1>2 DEF Editing
<1>5. q.file = p.file \/ q.file = avatar[u]
  BY <1>1
<1> HIDE DEF p, u
<1>6. OneOwner'
  <2>1. /\ \A v, w \in User : avatar[v] # None /\ avatar[v] = avatar[w] => v = w
        /\ \A s \in Req, v \in User :
             req[s].file # None /\ req[s].file = avatar[v] => req[s].user = v
        /\ \A s, t \in Req :
             req[s].file # None /\ req[s].file = req[t].file => req[s].user = req[t].user
    BY DEF AInv, OneOwner
  <2>2. ASSUME NEW v \in User, q.file # None, q.file = avatar[v] PROVE v = u
    BY <1>3, <1>5, <2>1, <2>2 DEF p, u
  <2>3. ASSUME NEW s \in Req \ {r}, q.file # None, q.file = req[s].file
        PROVE  req[s].user = u
    BY <1>3, <1>5, <2>1, <2>3 DEF p, u
  <2>4. QED
    BY <1>1, <1>2, <2>1, <2>2, <2>3 DEF OneOwner
<1>7. Beside'
  BY <1>1, <1>2, <1>3, <1>4 DEF AInv, Beside, At
<1>8. ASSUME NEW s \in Req PROVE Holds(req[s])'
  <2>1. "file" \in q.body => q.file # None
    BY <1>1, <1>3
  <2>2. QED
    BY <1>1, <1>2, <2>1 DEF AInv, Holds, Editor
<1>9. ASSUME NEW s \in Req PROVE Uploaded(s)'
  <2>1. CASE s = r
    BY <1>1, <1>2, <1>3, <2>1 DEF Uploaded, p
  <2>2. CASE s # r
    <3>1. Uploaded(s) /\ req'[s] = req[s]
      BY <1>2, <2>2 DEF AInv
    <3>2. "file" \in req[s].body => req[s].file # p.file /\ req[s].file # avatar[u]
      BY <3>1, <1>3, <2>2 DEF Uploaded, p
    <3>3. QED
      BY <3>1, <3>2, <1>2, <1>5 DEF Uploaded
  <2>3. QED
    BY <2>1, <2>2
<1>10. ASSUME NEW s \in Req PROVE Intact(req[s])'
  <2>1. CASE s # r
    <3>1. req'[s] = req[s] /\ Intact(req[s])
      BY <1>2, <2>1 DEF AInv
    <3>2. CASE req[s].pc = "profile" /\ req[s].user # u
      <4>1. req[s].file # None => req[s].file # avatar[u]
        BY <1>3, <3>2 DEF AInv, OneOwner
      <4>2. QED
        BY <3>1, <3>2, <4>1, <1>2, <1>3 DEF Intact
    <3>3. CASE ~(req[s].pc = "profile" /\ req[s].user # u)
      BY <3>1, <3>3, <2>1, <1>4 DEF Intact, At
    <3>4. QED
      BY <3>2, <3>3
  <2>2. CASE s = r
    <3>1. CASE u \in frayed'
      BY <3>1, <2>2, <1>1, <1>2 DEF Intact
    <3>2. CASE u \notin frayed'
      <4>1. avatar[u] \in files \cup {None}
        BY <3>2, <1>2, <1>3, <1>4 DEF AInv, OnDisk, At, p
      <4>2. CASE "file" \in p.body
        <5>1. q.file = p.file /\ p.file \in files'
          BY <4>2, <1>1, <1>2, <1>3 DEF Uploaded, p
        <5>2. QED
          BY <5>1, <4>2, <2>2, <1>1, <1>2 DEF Intact
      <4>3. CASE "file" \notin p.body
        BY <4>1, <4>3, <2>2, <1>1, <1>2, <1>3 DEF Intact
      <4>4. QED
        BY <4>2, <4>3
    <3>3. QED
      BY <3>1, <3>2
  <2>3. QED
    BY <2>1, <2>2
<1>11. ASSUME NEW w \in User PROVE OnDisk(w)'
  <2>1. CASE w = u
    BY <2>1, <1>1, <1>2 DEF OnDisk, At
  <2>2. CASE w # u
    <3>1. avatar[w] # None => avatar[w] # avatar[u]
      BY <2>2, <1>3 DEF AInv, OneOwner
    <3>2. OnDisk(w)
      BY DEF AInv
    <3>3. QED
      BY <3>1, <3>2, <2>2, <1>2, <1>3 DEF OnDisk, At, p
  <2>3. QED
    BY <2>1, <2>2
<1>12. QED
  BY <1>6, <1>7, <1>8, <1>9, <1>10, <1>11 DEF AInv

\* An update ends: its row names the file it carries, or is as it was.
LEMMA AInvEnd ==
  ASSUME TInv, AInv, NEW r \in Req, At(r, "profile"), Finish(r), files' = files,
         frayed \subseteq frayed',
         \/ avatar' = [avatar EXCEPT ![req[r].user] = req[r].file]
         \/ /\ avatar' = avatar
            /\ "file" \in req[r].body => req[r].user \in frayed'
  PROVE  AInv'
<1> DEFINE p == req[r]
           u == req[r].user
<1>1. /\ req'[r] = NoRequest /\ \A s \in Req \ {r} : req'[s] = req[s]
      /\ NoRequest.pc = "idle" /\ NoRequest.file = None /\ NoRequest.body = {}
  BY FinishWrites, WritesWhere DEF TInv, NoRequest
<1>2. u \in User /\ avatar \in [User -> File \cup {None}] /\ p.pc = "profile"
  BY UserRegistered DEF At, Registering, TInv, TypeOK
<1>3. /\ \/ avatar'[u] = p.file
         \/ avatar'[u] = avatar[u] /\ ("file" \in p.body => u \in frayed')
      /\ \A w \in User \ {u} : avatar'[w] = avatar[w]
  BY <1>2
<1>4. Uploaded(r) /\ Intact(p)
  BY DEF AInv
<1> HIDE DEF p, u
<1>5. OneOwner'
  <2>1. /\ \A v, w \in User : avatar[v] # None /\ avatar[v] = avatar[w] => v = w
        /\ \A s \in Req, v \in User :
             req[s].file # None /\ req[s].file = avatar[v] => req[s].user = v
        /\ \A s, t \in Req :
             req[s].file # None /\ req[s].file = req[t].file => req[s].user = req[t].user
    BY DEF AInv, OneOwner
  <2>2. ASSUME NEW v \in User, avatar'[u] # None, avatar'[u] = avatar'[v] PROVE v = u
    BY <1>2, <1>3, <2>1, <2>2 DEF p, u
  <2>3. ASSUME NEW s \in Req \ {r}, req[s].file # None, req[s].file = avatar'[u]
        PROVE  req[s].user = u
    BY <1>2, <1>3, <2>1, <2>3 DEF p, u
  <2>4. ASSUME NEW v \in User, NEW w \in User, avatar'[v] # None,
               avatar'[v] = avatar'[w]
        PROVE  v = w
    BY <1>3, <2>1, <2>2, <2>4
  <2>5. ASSUME NEW s \in Req, NEW v \in User, req'[s].file # None,
               req'[s].file = avatar'[v]
        PROVE  req'[s].user = v
    BY <1>1, <1>3, <2>1, <2>3, <2>5
  <2>6. ASSUME NEW s \in Req, NEW t \in Req, req'[s].file # None,
               req'[s].file = req'[t].file
        PROVE  req'[s].user = req'[t].user
    BY <1>1, <2>1, <2>6
  <2>7. QED
    BY <2>4, <2>5, <2>6 DEF OneOwner
<1>6. Beside'
  BY <1>1 DEF AInv, Beside, At
<1>7. ASSUME NEW s \in Req PROVE Holds(req[s])'
  BY <1>1 DEF AInv, Holds, Editor
<1>8. ASSUME NEW s \in Req PROVE Uploaded(s)'
  <2>1. CASE s = r
    BY <1>1, <2>1 DEF Uploaded
  <2>2. CASE s # r
    <3>1. Uploaded(s) /\ req'[s] = req[s] /\ Holds(req[s])
      BY <1>1, <2>2 DEF AInv
    <3>2. "file" \in req[s].body =>
            \A w \in User : avatar'[w] # req[s].file
      BY <3>1, <2>2, <1>2, <1>3 DEF Uploaded, p
    <3>3. QED
      BY <3>1, <3>2, <1>1 DEF Uploaded, Holds
  <2>3. QED
    BY <2>1, <2>2
<1>9. ASSUME NEW s \in Req PROVE Intact(req[s])'
  <2>1. CASE s = r
    BY <1>1, <2>1 DEF Intact
  <2>2. CASE s # r /\ req[s].pc = "profile"
    <3>1. req'[s] = req[s] /\ Intact(req[s])
      BY <1>1, <2>2 DEF AInv
    <3>2. CASE req[s].user = u
      <4>1. u \in frayed
        BY <2>2, <3>2, <1>2 DEF AInv, Beside, At, p, u
      <4>2. QED
        BY <3>1, <3>2, <4>1 DEF Intact
    <3>3. CASE req[s].user # u
      <4>1. req[s].user \in User
        BY <2>2, UserRegistered DEF Registering
      <4>2. QED
        BY <3>1, <3>3, <4>1, <1>3 DEF Intact
    <3>4. QED
      BY <3>2, <3>3
  <2>3. CASE s # r /\ req[s].pc # "profile"
    BY <2>3, <1>1 DEF Intact
  <2>4. QED
    BY <2>1, <2>2, <2>3
<1>10. ASSUME NEW w \in User PROVE OnDisk(w)'
  <2>1. CASE w = u
    BY <2>1, <1>2, <1>3, <1>4 DEF Intact, OnDisk, p, u
  <2>2. CASE w # u
    <3>1. OnDisk(w) /\ avatar'[w] = avatar[w]
      BY <2>2, <1>3 DEF AInv
    <3>2. QED
      BY <3>1, <2>2, <1>1 DEF OnDisk, At, u
  <2>3. QED
    BY <2>1, <2>2
<1>11. QED
  BY <1>5, <1>6, <1>7, <1>8, <1>9, <1>10 DEF AInv

LEMMA AInvNext == TInv /\ AInv /\ [Next]_vars => AInv'
<1>1. ASSUME TInv, AInv, NEW r \in Req, NEW u \in User, NEW n \in Name,
             NEW l \in Licence \cup {None}, RegisterBegin(r, u, n, l)
      PROVE  AInv'
  <2>1. PICK q \in Request : /\ Start(r, q) /\ Writes(r, q) /\ q.pc = "name"
                            /\ q.file = None /\ q.body = {}
    BY <1>1, RegisterBeginWrites
  <2>2. ~At(r, "profile") /\ UNCHANGED <<avatar, files, frayed>>
    BY <1>1, <2>1 DEF RegisterBegin, Start, At
  <2>3. QED
    BY <1>1, <2>1, <2>2, AInvElsewhere DEF Editor
<1>2. ASSUME TInv, AInv, NEW r \in Req,
             RegisterFindName(r) \/ RegisterFindLicence(r)
      PROVE  AInv'
  <2>1. UNCHANGED <<avatar, files, frayed>> /\ req[r].pc \in {"name", "licence"}
    BY <1>2 DEF RegisterFindName, RegisterFindLicence, aux, At
  <2>2. Finish(r) \/ \E p \in {"licence", "create"} : Go(r, p)
    BY <1>2 DEF RegisterFindName, RegisterFindLicence, Proceed
  <2>3. ASSUME NEW p \in {"licence", "create"}, Go(r, p) PROVE AInv'
    <3> DEFINE q == [req[r] EXCEPT !.pc = p]
    <3>1. Writes(r, q)
      BY <1>2, <2>3, GoWrites DEF TInv
    <3>2. q.pc = p /\ q.file = req[r].file /\ q.body = req[r].body
      BY <1>2 DEF TInv, TypeOK, Request
    <3> HIDE DEF q
    <3>3. q.file = None /\ q.body = {}
      BY <1>2, <2>1, <3>2 DEF AInv, Holds, Editor
    <3>4. QED
      BY <1>2, <2>1, <3>1, <3>2, <3>3, AInvElsewhere DEF Editor, At
  <2>4. QED
    BY <1>2, <2>1, <2>2, <2>3, FinishKeepsAvatars DEF At
<1>3. ASSUME TInv, AInv, NEW r \in Req,
             RegisterCreate(r) \/ AddVehicle(r) \/ UpdateVehicle(r)
      PROVE  AInv'
  <2>1. /\ req[r].pc \in {"create", "addVehicle", "updateVehicle"} /\ Finish(r)
        /\ UNCHANGED <<avatar, files, frayed>>
    BY <1>3 DEF RegisterCreate, AddVehicle, UpdateVehicle, At, aux
  <2>2. QED
    BY <1>3, <2>1, FinishKeepsAvatars DEF At
<1>4. ASSUME TInv, AInv, NEW r \in Req, ProfileWrite(r) PROVE AInv'
  BY <1>4, AInvEnd DEF ProfileWrite
<1>5. ASSUME TInv, AInv, NEW r \in Req, Fail(r) PROVE AInv'
  BY <1>5, AInvEnd, FinishKeepsAvatars DEF Fail
<1>6. ASSUME TInv, AInv, NEW r \in Req, NEW q \in Request, Quiet(r, q) PROVE AInv'
  <2>1. /\ Writes(r, q) /\ q.pc \notin Editor /\ ~At(r, "profile")
        /\ UNCHANGED <<avatar, files, frayed>>
        /\ req[r].file = None /\ req[r].body = {}
    BY <1>6 DEF Quiet, Editor, At, aux, AInv, Holds
  <2>2. q.file = None /\ q.body = {}
    BY <1>6, <2>1 DEF Quiet
  <2>3. QED
    BY <1>6, <2>1, <2>2, AInvElsewhere
<1>7. ASSUME TInv, AInv, UNCHANGED vars PROVE AInv'
  BY <1>7 DEF AInv, OneOwner, Beside, Holds, Uploaded, Intact, OnDisk, At,
              vars, rows, aux
<1>8. ASSUME TInv, AInv, NEW r \in Req, Arrive(r) \/ Step(r) \/ Fail(r) PROVE AInv'
  BY <1>1, <1>2, <1>3, <1>4, <1>5, <1>6, <1>8, StepsAre, AInvUpload, AInvRead
<1>9. QED
  BY <1>7, <1>8 DEF Next

\* The file a row names exists, unless a profile update is about to replace it,
\* was rejected after it unlinked the file, or ran beside another.
THEOREM AvatarsOnDisk == Spec => []AvatarOnDisk
<1>1. Init => AInv
  BY DEF Init, AInv, OneOwner, Beside, Holds, Uploaded, Intact, OnDisk, At,
         NoRequest, Editor
<1>2. TInv /\ AInv => AvatarOnDisk
  BY DEF TInv, TypeOK, AInv, OnDisk, AvatarOnDisk
<1>3. QED
  BY <1>1, <1>2, TInvAlways, AInvNext, PTL DEF Spec
=============================================================================
