----------------------------- MODULE RadiusUsers -----------------------------
(***************************************************************************)
(* The administrator's routes for RADIUS accounts                          *)
(* (server/controller/hotspot_user.go, server/handler/hotspot_user.go).    *)
(*                                                                         *)
(* An account is its rows in radcheck, radreply and radusergroup; nothing  *)
(* but a row in radcheck makes it exist.  No table has a unique key, so a  *)
(* name may have several rows, with the same or with different values.     *)
(* Every statement tests, updates or deletes all rows of a name, so the    *)
(* code cannot tell how many of them agree: rows[u][n] is the set of their *)
(* values.  A value stands for the pair of operator and value of an        *)
(* attribute, or for the priority in a group.                              *)
(*                                                                         *)
(* A body lists attributes and groups in arrays, where a name may occur    *)
(* any number of times and any name may occur, Cleartext-Password and      *)
(* Auth-Type too.  An array is modelled by the set of its <<name, value>>  *)
(* pairs: where the order of two entries of one name matters, either may   *)
(* be the last.                                                            *)
(*                                                                         *)
(* The create and update routes decode the body of their request into one  *)
(* package-level variable, input: a field that is absent from a body keeps *)
(* what the last request left there, two requests may decode into it at    *)
(* once, and the copy a handler works on shares its pointer and its slices *)
(* with it.  These races are choices of the actions below.                 *)
(*                                                                         *)
(* A step is one access to input or to the database.  A transaction reads  *)
(* a snapshot and takes effect when it commits; reads that decide together *)
(* are one step.                                                           *)
(***************************************************************************)
EXTENDS Integers

CONSTANTS
    User,         \* usernames
    CheckAttr,    \* other names used in checkAttributes than the two below
    ReplyAttr,    \* attribute names used in replyAttributes
    Group,        \* group names
    Value,        \* values of attributes, passwords and priorities
    Body,         \* bodies of create and update requests
    Entry,        \* <<name, value>> pairs written by the routes for one entry
    Request,      \* requests that may be in flight at the same time
    MaxCalls,     \* bound on the requests served
    Absent,       \* the field does not occur in the body
    Nil           \* a nil pointer or slice

Password == "Cleartext-Password"
AuthType == "Auth-Type"
Accept == "Accept"
Empty == ""

CheckName == {Password, AuthType} \cup CheckAttr
Name == CheckName \cup ReplyAttr \cup Group

\* The three tables have names of their own; a name occurs in one of them only so
\* that it says which.
ASSUME RadiusAssumption ==
    /\ Nil # Empty
    /\ MaxCalls \in Nat
    /\ CheckName \cap (ReplyAttr \cup Group) = {}
    /\ ReplyAttr \cap Group = {}
    /\ Entry \subseteq Name \X Value

VARIABLES
    input,    \* the package-level variable of the controller
    rows,     \* per user and name: the values of its rows
    req,      \* per request: what it does and how far it is
    calls     \* requests served so far

vars == <<input, rows, req, calls>>

-----------------------------------------------------------------------------

Fields == {"username", "password", "check", "reply", "groups"}

\* The attributes or groups of a body.
Given(names) == SUBSET (names \X Value)

HotspotUserInput ==
    [username : User \cup {Nil},
     password : Value \cup {Empty, Nil},
     check : Given(CheckName) \cup {Nil},
     reply : Given(ReplyAttr) \cup {Nil},
     groups : Given(Group) \cup {Nil}]

\* What decoding finds in a body: fields of these types, or none.
ASSUME BodyAssumption ==
    Body \subseteq [username : User \cup {Nil, Absent},
                   password : Value \cup {Empty, Nil, Absent},
                   check : Given(CheckName) \cup {Nil, Absent},
                   reply : Given(ReplyAttr) \cup {Nil, Absent},
                   groups : Given(Group) \cup {Nil, Absent}]

NoInput == [f \in Fields |-> Nil]

Stage == {"idle", "decode", "bound", "checked", "insert", "found", "write",
          "add", "set", "drop", "dropall"}

\* ok: the last request was answered with 200 or 201.
Idle(ok) == [at |-> "idle", ok |-> ok]

RadiusTypeOK ==
    /\ input \in HotspotUserInput
    /\ calls \in 0..MaxCalls
    /\ rows \in [User -> [Name -> SUBSET (Value \cup {Accept})]]
    /\ \A r \in Request : req[r].at \in Stage
    /\ \A r \in Request : req[r].at \in {"insert", "found", "write"} =>
           req[r].in \in HotspotUserInput /\ req[r].in.username # Nil

Init ==
    /\ input = NoInput
    /\ rows = [u \in User |-> [n \in Name |-> {}]]
    /\ req = [r \in Request |-> Idle(TRUE)]
    /\ calls = 0

userExists(u) == \E n \in CheckName : rows[u][n] # {}

InFlight(r) == req[r].at # "idle"

\* The fields of q, and those of s that q does not set.
Merge(q, s) == [f \in DOMAIN q \cup DOMAIN s |-> IF f \in DOMAIN q THEN q[f] ELSE s[f]]

\* Request r arrives and does its first step; alone says whether no other
\* request has been in flight since.
Arrive(r, q) ==
    /\ ~InFlight(r)
    /\ calls < MaxCalls
    /\ calls' = calls + 1
    /\ req' = [s \in Request |->
                 IF s = r THEN Merge([alone |-> \A t \in Request \ {r} : ~InFlight(t)], q)
                 ELSE IF InFlight(s) THEN [req[s] EXCEPT !.alone = FALSE]
                 ELSE req[s]]

\* Request r goes on with q.
Proceed(r, q) == req' = [req EXCEPT ![r] = Merge(q, @)] /\ UNCHANGED calls

Return(r) == req' = [req EXCEPT ![r] = Idle(TRUE)] /\ UNCHANGED calls
Refuse(r) == req' = [req EXCEPT ![r] = Idle(FALSE)] /\ UNCHANGED calls

\* Any statement may fail; its transaction is rolled back.
Fails(r) ==
    /\ req[r].at \in {"insert", "found", "write", "add", "set", "drop", "dropall"}
    /\ Refuse(r)
    /\ UNCHANGED <<input, rows>>

\* The fields of b that occur in it.
Present(b) == {f \in Fields : b[f] # Absent}

\* Decoding JSON into a struct assigns the fields that occur and no others.
Decode(fields, b) ==
    input' = [f \in Fields |-> IF f \in fields THEN b[f] ELSE input[f]]

-----------------------------------------------------------------------------
(* POST /hotspot/users and PUT /hotspot/users/:username *)

\* ShouldBindJSON into the shared input: some fields are assigned now, the
\* others, kept in todo, after any steps of other requests.
BindStarts(r, op, path) ==
    /\ \E b \in Body : \E now \in SUBSET Present(b) :
           /\ Decode(now, b)
           /\ Arrive(r, [at |-> "decode", op |-> op, path |-> path, body |-> b,
                         todo |-> Present(b) \ now])
    /\ UNCHANGED rows

CreateRoute(r) == BindStarts(r, "create", Nil)

UpdateRoute(r, u) == BindStarts(r, "update", u)

\* The rest is assigned and the result validated: a username is required.
BindEnds(r) ==
    /\ req[r].at = "decode"
    /\ Decode(req[r].todo, req[r].body)
    /\ IF input'.username = Nil
         THEN Refuse(r)
         ELSE Proceed(r, [at |-> "bound", todo |-> {}])
    /\ UNCHANGED rows

\* UpdateHotspotUser of the controller compares the username with the path and
\* then overwrites it.
UpdateChecks(r) ==
    /\ req[r].at = "bound"
    /\ req[r].op = "update"
    /\ IF input.username \notin {Nil, req[r].path}
         THEN Refuse(r) /\ UNCHANGED input
         ELSE /\ input' = [input EXCEPT !.username = req[r].path]
              /\ Proceed(r, [at |-> "checked"])
    /\ UNCHANGED rows

\* Mutant: the body is passed on without being decoded into the struct.
CalledWithBody(r, at) == Proceed(r, [at |-> at, in |-> req[r].body])

\* The handlers get a copy of input.
Called(r, at) == Proceed(r, [at |-> at, in |-> input])

\* CreateHotspotUser, up to the count of the user's rows.
CreateHotspotUser(r) ==
    /\ req[r].at = "bound"
    /\ req[r].op = "create"
    /\ input.username # Nil
    /\ IF userExists(input.username) THEN Refuse(r) ELSE Called(r, "insert")
    /\ UNCHANGED <<input, rows>>

\* UpdateHotspotUser, up to the start of its transaction.
UpdateHotspotUser(r) ==
    /\ req[r].at = "checked"
    /\ input.username # Nil
    /\ IF userExists(input.username) THEN Called(r, "found") ELSE Refuse(r)
    /\ UNCHANGED <<input, rows>>

\* What a handler may find in a pointer or slice of its copy: a later decoding
\* writes through the pointer, and over the entries of a slice, one by one.
SharedPointer(own, now) == IF own = Nil \/ now = Nil THEN {own} ELSE {own, now}

SharedSlice(own, now) ==
    IF own \in {Nil, {}, now} \/ now = Nil THEN {own}
    ELSE {own} \cup {kept \cup new : kept \in SUBSET own, new \in SUBSET now \ {{}}}

Seen(in) ==
    [username : {in.username},
     password : SharedPointer(in.password, input.password),
     check : SharedSlice(in.check, input.check),
     reply : SharedSlice(in.reply, input.reply),
     groups : SharedSlice(in.groups, input.groups)]

\* All the entries of in.
Entries(in) == UNION ({in.check, in.reply, in.groups} \ {Nil})

ValuesOf(given, n) == {v \in Value : <<n, v>> \in given}

\* One more row for each entry.
Insert(row, given) == [n \in Name |-> row[n] \cup ValuesOf(given, n)]

insertRadCheck(row, n, v) == [row EXCEPT ![n] = @ \cup {v}]

\* The password, or Auth-Type Accept where there is none.
Credential(row, password) ==
    IF password \in {Nil, Empty} THEN insertRadCheck(row, AuthType, Accept)
                                 ELSE insertRadCheck(row, Password, password)

\* The inserts of CreateHotspotUser, in one transaction.
CreateCommits(r) ==
    /\ req[r].at = "insert"
    /\ \E in \in Seen(req[r].in) :
         rows' = [rows EXCEPT ![in.username] = Insert(Credential(@, in.password), Entries(in))]
    /\ Return(r)
    /\ UNCHANGED input

\* The password is replaced, removed if empty; without one Auth-Type Accept is
\* added once more.
PasswordUpdate(row, password) ==
    IF password = Nil THEN insertRadCheck(row, AuthType, Accept)
    ELSE [row EXCEPT ![Password] = {password} \ {Empty}]

\* currentAttrMap and currentGroupMap: for every name read, the value of the row
\* that came last, in no stated order.  The password is skipped.
CurrentMaps(row) ==
    LET found == {n \in Name \ {Password} : row[n] # {}}
    IN  {m \in [found -> UNION {row[n] : n \in found}] : \A n \in found : m[n] \in row[n]}

\* UpdateHotspotUser reads the current rows inside its transaction, after its
\* write of the password.
UpdateReads(r) ==
    /\ req[r].at = "found"
    /\ \E m \in CurrentMaps(PasswordUpdate(rows[req[r].in.username], req[r].in.password)) :
         Proceed(r, [at |-> "write", map |-> m])
    /\ UNCHANGED <<input, rows>>

\* The values an update may write last to a name it found: one that was given and
\* differs from what it found.
LastWrites(map, given) ==
    LET changed == {n \in DOMAIN map : ValuesOf(given, n) \ {map[n]} # {}}
    IN  {w \in [changed -> Value] : \A n \in changed : w[n] \in ValuesOf(given, n) \ {map[n]}}

\* Mutant: names that were not given are left in place.
AgreeKeeps(row, map, given, kept, last) ==
    [n \in Name |->
       IF n \notin DOMAIN map THEN row[n] \cup ValuesOf(given, n)
       ELSE IF n \in DOMAIN last THEN {last[n] : v \in row[n]}
       ELSE row[n]]

\* The rows made to agree with what is given: a name that was not found gets its
\* entries, all rows of one that was found get the value last written, if any,
\* and a name that was found and not given is deleted unless it is to be kept.
Agree(row, map, given, kept, last) ==
    [n \in Name |->
       IF n \notin DOMAIN map THEN row[n] \cup ValuesOf(given, n)
       ELSE IF n \in DOMAIN last THEN {last[n] : v \in row[n]}
       ELSE IF ValuesOf(given, n) # {} \/ n \in kept THEN row[n] ELSE {}]

\* Mutant: Auth-Type is replaced although the update has just added it.
PreservedNone(password) == {}

\* authTypeAdded: the update has just added Auth-Type itself.
Preserved(password) == IF password = Nil THEN {AuthType} ELSE {}

\* The names of a table that is not given are left alone.
Kept(in) ==
    UNION {Preserved(in.password),
           IF in.check = Nil THEN CheckName ELSE {},
           IF in.reply = Nil THEN ReplyAttr ELSE {},
           IF in.groups = Nil THEN Group ELSE {}}

\* The writes of UpdateHotspotUser, in one transaction.
UpdateCommits(r) ==
    /\ req[r].at = "write"
    /\ \E in \in Seen(req[r].in) : \E last \in LastWrites(req[r].map, Entries(in)) :
         rows' = [rows EXCEPT ![in.username] =
                    Agree(PasswordUpdate(@, in.password), req[r].map, Entries(in), Kept(in), last)]
    /\ Return(r)
    /\ UNCHANGED input

-----------------------------------------------------------------------------
(* DELETE /hotspot/users/:username and the routes for one entry *)

\* A request that works on its path parameters and a body of its own.
Begin(r, at, u, n, v) ==
    Arrive(r, [at |-> at, user |-> u, name |-> n, value |-> v])

NotFound(r) == ~InFlight(r) /\ Refuse(r)

DeleteHotspotUser(r, u) ==
    /\ IF userExists(u) THEN Begin(r, "dropall", u, Nil, Nil) ELSE NotFound(r)
    /\ UNCHANGED <<input, rows>>

\* All three tables, in one transaction.
DeleteCommits(r) ==
    /\ req[r].at = "dropall"
    /\ rows' = [rows EXCEPT ![req[r].user] = [n \in Name |-> {}]]
    /\ Return(r)
    /\ UNCHANGED input

\* checkAttributeExists, replyAttributeExists, userGroupExists
entryExists(u, n) == rows[u][n] # {}

\* An entry is updated if it exists and inserted otherwise.
AddOrUpdate(r, u, names) ==
    /\ \E e \in Entry :
         /\ e[1] \in names
         /\ IF userExists(u)
              THEN Begin(r, IF entryExists(u, e[1]) THEN "set" ELSE "add", u, e[1], e[2])
              ELSE NotFound(r)
    /\ UNCHANGED <<input, rows>>

Delete(r, u, names) ==
    /\ \E n \in names :
         IF userExists(u) /\ entryExists(u, n) THEN Begin(r, "drop", u, n, Nil) ELSE NotFound(r)
    /\ UNCHANGED <<input, rows>>

AddOrUpdateRadCheckAttribute(r, u) == AddOrUpdate(r, u, CheckName)
AddOrUpdateRadReplyAttribute(r, u) == AddOrUpdate(r, u, ReplyAttr)
AddRadUserGroup(r, u) == AddOrUpdate(r, u, Group)

DeleteRadCheckAttribute(r, u) == Delete(r, u, CheckName)
DeleteRadReplyAttribute(r, u) == Delete(r, u, ReplyAttr)
DeleteRadUserGroup(r, u) == Delete(r, u, Group)

\* The write of such a request: an insert, an update of every row of the name,
\* or a delete of them.
WriteEntry(r, at, Written(_)) ==
    /\ req[r].at = at
    /\ rows' = [rows EXCEPT ![req[r].user][req[r].name] = Written(@)]
    /\ Return(r)
    /\ UNCHANGED input

InsertEntry(r) == WriteEntry(r, "add", LAMBDA s : s \cup {req[r].value})
UpdateEntry(r) == WriteEntry(r, "set", LAMBDA s : {req[r].value : v \in s})
DeleteEntry(r) == WriteEntry(r, "drop", LAMBDA s : {})

-----------------------------------------------------------------------------

BodyRoutes(r) ==
    \/ CreateRoute(r)
    \/ \E u \in User : UpdateRoute(r, u)
    \/ BindEnds(r)
    \/ UpdateChecks(r)
    \/ CreateHotspotUser(r)
    \/ CreateCommits(r)
    \/ UpdateHotspotUser(r)
    \/ UpdateReads(r)
    \/ UpdateCommits(r)

PathRoutes(r) ==
    \/ \E u \in User : DeleteHotspotUser(r, u)
    \/ \E u \in User : AddOrUpdateRadCheckAttribute(r, u) \/ DeleteRadCheckAttribute(r, u)
    \/ \E u \in User : AddOrUpdateRadReplyAttribute(r, u) \/ DeleteRadReplyAttribute(r, u)
    \/ \E u \in User : AddRadUserGroup(r, u) \/ DeleteRadUserGroup(r, u)
    \/ DeleteCommits(r)
    \/ InsertEntry(r)
    \/ UpdateEntry(r)
    \/ DeleteEntry(r)

Next == \E r \in Request : BodyRoutes(r) \/ PathRoutes(r) \/ Fails(r)

Spec == Init /\ [][Next]_vars

-----------------------------------------------------------------------------
(* Properties *)

HasCredential(row) == row[Password] # {} \/ row[AuthType] # {}

\* Request r was told to take a credential of u away.
RemovesCredential(r, u) ==
    \/ req[r].at \in {"drop", "dropall"} /\ req[r].user = u
    \/ /\ req[r].at = "write" /\ req[r].in.username = u
       /\ Empty \in SharedPointer(req[r].in.password, input.password)

\* An account with a password or an Auth-Type row, one of which it takes to
\* authenticate, keeps one of them until a request deletes the account or the row,
\* or sets an empty password: replacing its check attributes, in any order with
\* other requests and whatever names they list, never does.
CredentialsKept ==
    [][\A u \in User : HasCredential(rows[u]) /\ ~HasCredential(rows'[u])
         => \E r \in Request : req'[r] # req[r] /\ RemovesCredential(r, u)]_vars

\* The rows an update that ran alone leaves of those it found before.
Effect(now, before, in) ==
    /\ in.password # Nil =>
         now[Password] = ({in.password} \ {Empty}) \cup ValuesOf(Entries(in), Password)
    /\ \A n \in Name \ ({Password, AuthType} \cup Kept(in)) :
         LET given == ValuesOf(Entries(in), n)
         IN  /\ given = {} => now[n] = {}
             /\ given # {} => now[n] \cap given # {}
             /\ (\A v, w \in before[n] : v = w) /\ (\A v, w \in given : v = w)
                  => now[n] = given

\* An update that met no other request leaves a row for the names it was given and
\* for no others, Auth-Type aside, whatever orphaned rows earlier races left.  A
\* name whose rows agreed before has the given value and no other; of one whose
\* rows differed, one row at least has a value that was given.  (The others may
\* stay, as the handler compares the input with one of the rows only.)
UpdateTakesEffect ==
    [][\A r \in Request :
         req[r].at = "write" /\ req[r].alone /\ req'[r] = Idle(TRUE)
           => LET u == req[r].in.username IN Effect(rows'[u], rows[u], req[r].in)]_vars

\* "Update group memberships if provided (nil means no change ...)": an update
\* whose body has no groups leaves the user's groups as they are.
OmittedIsKept ==
    [][\A r \in Request :
         req[r].at = "write" /\ req[r].body.groups = Absent /\ req'[r].at = "idle"
           => \A n \in Group : rows'[req[r].path][n] = rows[req[r].path][n]]_vars

=============================================================================
