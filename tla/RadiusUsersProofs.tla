-------------------------- MODULE RadiusUsersProofs --------------------------
(***************************************************************************)
(* Safety of the administrator's routes for RADIUS accounts, for any       *)
(* users, attributes, groups, bodies and number of requests.               *)
(***************************************************************************)
EXTENDS RadiusUsers, TLAPS

Row == [Name -> SUBSET (Value \cup {Accept})]

\* What a request carries at each stage.
Carries(q) ==
    /\ "at" \in DOMAIN q /\ q.at \in Stage
    /\ q.at \in {"decode", "bound", "checked"} =>
         /\ {"op", "path", "body", "todo"} \subseteq DOMAIN q
         /\ q.op \in {"create", "update"} /\ (q.op = "update" => q.path \in User)
         /\ q.body \in Body /\ q.todo \subseteq Present(q.body)
    /\ q.at = "checked" => q.op = "update"
    /\ q.at \in {"insert", "found", "write"} =>
         "in" \in DOMAIN q /\ q.in \in HotspotUserInput /\ q.in.username # Nil
    /\ q.at = "write" => "map" \in DOMAIN q /\ Password \notin DOMAIN q.map
    /\ q.at \in {"add", "set", "drop", "dropall"} =>
         {"user", "name", "value"} \subseteq DOMAIN q /\ q.user \in User
    /\ q.at \in {"add", "set", "drop"} => q.name \in Name
    /\ q.at \in {"add", "set"} => q.value \in Value

RequestOK(q) == Carries(q) /\ (q.at # "idle" => "alone" \in DOMAIN q)

RequestsInv ==
    /\ calls \in 0 .. MaxCalls
    /\ req = [r \in Request |-> req[r]]
    /\ \A r \in Request : RequestOK(req[r])

TypeInv ==
    /\ input \in HotspotUserInput
    /\ rows \in [User -> Row]
    /\ RequestsInv

\* What an update with input in may find in the rows rs.
MapsOf(rs, in) == CurrentMaps(PasswordUpdate(rs[in.username], in.password))

\* While a request is alone no other is in flight and what it read is still so.
AloneInv ==
    \A r \in Request : req[r].at # "idle" /\ req[r].alone =>
        /\ \A s \in Request \ {r} : req[s].at = "idle"
        /\ req[r].at \in {"insert", "found", "write"} => req[r].in = input
        /\ req[r].at = "write" => req[r].map \in MapsOf(rows, req[r].in)

\* The inductive invariant.
Inv == TypeInv /\ AloneInv

-----------------------------------------------------------------------------
(* Rows *)

LEMMA Names ==
    /\ CheckName \subseteq Name /\ ReplyAttr \subseteq Name /\ Group \subseteq Name
    /\ Password \in Name /\ AuthType \in Name /\ Password # AuthType
BY DEF Name, CheckName, Password, AuthType

LEMMA InsertRow ==
    ASSUME NEW row \in Row, NEW given
    PROVE  /\ Insert(row, given) \in Row
           /\ \A n \in Name : row[n] \subseteq Insert(row, given)[n]
BY DEF Insert, Row, ValuesOf

LEMMA CredentialRow ==
    ASSUME NEW row \in Row, NEW password \in Value \cup {Empty, Nil}
    PROVE  /\ Credential(row, password) \in Row
           /\ \A n \in Name : row[n] \subseteq Credential(row, password)[n]
<1>1. ASSUME NEW m \in {Password, AuthType}, NEW v \in Value \cup {Accept}
      PROVE  /\ insertRadCheck(row, m, v) \in Row
             /\ \A n \in Name : row[n] \subseteq insertRadCheck(row, m, v)[n]
  BY Names DEF Row, insertRadCheck
<1> QED
  BY <1>1 DEF Credential

CreateRow(row, in) == Insert(Credential(row, in.password), Entries(in))

LEMMA InputFields ==
    ASSUME NEW in \in HotspotUserInput
    PROVE  /\ in.username \in User \cup {Nil} /\ in.password \in Value \cup {Empty, Nil}
           /\ in.check \in Given(CheckName) \cup {Nil} /\ in.reply \in Given(ReplyAttr) \cup {Nil}
           /\ in.groups \in Given(Group) \cup {Nil}
BY DEF HotspotUserInput

\* CreateHotspotUser removes nothing.
LEMMA CreatedRow ==
    ASSUME NEW row \in Row, NEW in \in HotspotUserInput
    PROVE  /\ CreateRow(row, in) \in Row
           /\ \A n \in Name : row[n] \subseteq CreateRow(row, in)[n]
<1> DEFINE a == Credential(row, in.password)
<1>1. a \in Row /\ \A n \in Name : row[n] \subseteq a[n]
  BY InputFields, CredentialRow
<1> HIDE DEF a
<1>2. Insert(a, Entries(in)) \in Row /\ \A n \in Name : a[n] \subseteq Insert(a, Entries(in))[n]
  BY <1>1, InsertRow
<1> QED
  BY <1>1, <1>2 DEF CreateRow, a

LEMMA PasswordRow ==
    ASSUME NEW row \in Row, NEW password \in Value \cup {Empty, Nil}
    PROVE  /\ PasswordUpdate(row, password) \in Row
           /\ \A n \in Name : n \notin {Password, AuthType} => PasswordUpdate(row, password)[n] = row[n]
           /\ password = Nil => PasswordUpdate(row, password)[AuthType] # {}
           /\ password # Nil => PasswordUpdate(row, password)[Password] = {password} \ {Empty}
<1>1. CASE password = Nil
  BY <1>1, Names DEF PasswordUpdate, insertRadCheck, Row
<1>2. CASE password # Nil
  <2>1. PasswordUpdate(row, password) = [row EXCEPT ![Password] = {password} \ {Empty}]
    BY <1>2 DEF PasswordUpdate
  <2>2. {password} \ {Empty} \in SUBSET (Value \cup {Accept})
    BY <1>2
  <2> QED
    BY <1>2, <2>1, <2>2, Names DEF Row
<1> QED
  BY <1>1, <1>2

LEMMA AgreeRow ==
    ASSUME NEW row \in Row, NEW map, NEW given, NEW kept, NEW last \in LastWrites(map, given)
    PROVE  LET new == Agree(row, map, given, kept, last) IN
           /\ new \in Row
           /\ \A n \in Name :
                /\ n \notin DOMAIN map => new[n] = row[n] \cup ValuesOf(given, n)
                /\ n \in DOMAIN last => /\ n \in DOMAIN map /\ new[n] = {last[n] : v \in row[n]}
                                        /\ last[n] \in ValuesOf(given, n)
                /\ n \in DOMAIN map \ DOMAIN last =>
                     /\ new[n] = IF ValuesOf(given, n) # {} \/ n \in kept THEN row[n] ELSE {}
                     /\ ValuesOf(given, n) \subseteq {map[n]}
<1>1. DOMAIN last = {n \in DOMAIN map : ValuesOf(given, n) \ {map[n]} # {}}
  BY DEF LastWrites
<1>2. \A n \in DOMAIN last : last[n] \in ValuesOf(given, n) /\ last[n] \in Value
  BY DEF LastWrites
<1>3. ASSUME NEW n \in Name
      PROVE  Agree(row, map, given, kept, last)[n] \in SUBSET (Value \cup {Accept})
  BY <1>2 DEF Agree, Row, ValuesOf
<1>4. Agree(row, map, given, kept, last) \in Row
  <2>1. Agree(row, map, given, kept, last) = [n \in Name |-> Agree(row, map, given, kept, last)[n]]
    BY DEF Agree
  <2> QED
    BY <1>3, <2>1 DEF Row
<1> QED
  BY <1>1, <1>2, <1>4 DEF Agree

UpdateRow(row, map, in, last) ==
    Agree(PasswordUpdate(row, in.password), map, Entries(in), Kept(in), last)

\* The row an update leaves: a credential unless it was to be removed, and its full
\* effect on rows that are as it found them.
LEMMA UpdatedRow ==
    ASSUME NEW row \in Row, NEW map, Password \notin DOMAIN map, NEW in \in HotspotUserInput,
           NEW last \in LastWrites(map, Entries(in))
    PROVE  /\ UpdateRow(row, map, in, last) \in Row
           /\ in.password # Empty => HasCredential(UpdateRow(row, map, in, last))
           /\ map \in CurrentMaps(PasswordUpdate(row, in.password)) =>
                Effect(UpdateRow(row, map, in, last), row, in)
<1> DEFINE pw == in.password
           a == PasswordUpdate(row, pw)
           given == Entries(in)
           new == Agree(a, map, given, Kept(in), last)
<1>0. pw \in Value \cup {Empty, Nil}
  BY InputFields
<1>1. /\ a \in Row
      /\ \A n \in Name : n \notin {Password, AuthType} => a[n] = row[n]
      /\ pw = Nil => a[AuthType] # {}
      /\ pw # Nil => a[Password] = {pw} \ {Empty}
  BY <1>0, PasswordRow
<1>2. UpdateRow(row, map, in, last) = new
  BY DEF UpdateRow
<1> HIDE DEF a, given
<1>3. last \in LastWrites(map, given)
  BY DEF given
<1>4. /\ new \in Row
      /\ \A n \in Name :
           /\ n \notin DOMAIN map => new[n] = a[n] \cup ValuesOf(given, n)
           /\ n \in DOMAIN last => /\ n \in DOMAIN map /\ new[n] = {last[n] : v \in a[n]}
                                   /\ last[n] \in ValuesOf(given, n)
           /\ n \in DOMAIN map \ DOMAIN last =>
                /\ new[n] = IF ValuesOf(given, n) # {} \/ n \in Kept(in) THEN a[n] ELSE {}
                /\ ValuesOf(given, n) \subseteq {map[n]}
  BY <1>1, <1>3, AgreeRow
<1> HIDE DEF new
<1>5. new[Password] = a[Password] \cup ValuesOf(given, Password)
  BY <1>4, Names
<1>6. pw = Nil => new[AuthType] # {}
  <2>1. pw = Nil => AuthType \in Kept(in)
    BY DEF Kept, Preserved
  <2> QED
    BY <1>1, <1>4, <2>1, Names
<1>7. pw # Empty => HasCredential(new)
  BY <1>1, <1>5, <1>6 DEF HasCredential
<1>8. ASSUME map \in CurrentMaps(a) PROVE Effect(new, row, in)
  <2>1. /\ DOMAIN map = {n \in Name \ {Password} : a[n] # {}}
        /\ \A n \in DOMAIN map : map[n] \in a[n]
    BY <1>8 DEF CurrentMaps
  <2>2. ASSUME NEW n \in Name \ ({Password, AuthType} \cup Kept(in))
        PROVE  /\ ValuesOf(given, n) = {} => new[n] = {}
               /\ ValuesOf(given, n) # {} => new[n] \cap ValuesOf(given, n) # {}
               /\ (\A v, w \in row[n] : v = w) /\ (\A v, w \in ValuesOf(given, n) : v = w)
                    => new[n] = ValuesOf(given, n)
    <3> DEFINE vs == ValuesOf(given, n)
    <3>1. a[n] = row[n] /\ n \notin Kept(in) /\ n \in Name
      BY <1>1, <2>2
    <3> HIDE DEF vs
    <3>2. CASE n \notin DOMAIN map
      <4>1. row[n] = {}
        BY <2>1, <2>2, <3>1, <3>2
      <4>2. new[n] = vs
        BY <1>4, <3>1, <3>2, <4>1 DEF vs
      <4> QED
        BY <4>1, <4>2 DEF vs
    <3>3. CASE n \in DOMAIN last
      <4>1. new[n] = {last[n]} /\ last[n] \in vs
        BY <1>4, <2>1, <2>2, <3>1, <3>3 DEF vs
      <4> QED
        BY <4>1 DEF vs
    <3>4. CASE n \in DOMAIN map /\ n \notin DOMAIN last
      <4>1. /\ map[n] \in row[n] /\ vs \subseteq {map[n]}
            /\ new[n] = IF vs # {} THEN row[n] ELSE {}
        BY <1>4, <2>1, <3>1, <3>4 DEF vs
      <4> QED
        BY <4>1 DEF vs
    <3> QED
      BY <3>2, <3>3, <3>4
  <2> QED
    BY <1>1, <1>5, <2>2 DEF Effect, given
<1> QED
  BY <1>2, <1>4, <1>7, <1>8 DEF a

-----------------------------------------------------------------------------
(* Requests *)

LEMMA MergeFields ==
    ASSUME NEW q, NEW s
    PROVE  /\ DOMAIN Merge(q, s) = DOMAIN q \cup DOMAIN s
           /\ \A f \in DOMAIN q : Merge(q, s)[f] = q[f]
           /\ \A f \in DOMAIN s \ DOMAIN q : Merge(q, s)[f] = s[f]
BY DEF Merge

\* p has the fields of q, and alone.
Marked(p, b, q) ==
    /\ DOMAIN p = {"alone"} \cup DOMAIN q
    /\ \A f \in DOMAIN q : p[f] = q[f]
    /\ p.alone = b

LEMMA AloneFields ==
    ASSUME NEW b, NEW q, "alone" \notin DOMAIN q
    PROVE  Marked(Merge([alone |-> b], q), b, q)
BY DEF Merge, Marked

LEMMA IdleOK == \A ok : RequestOK(Idle(ok)) /\ Idle(ok).at = "idle"
BY DEF RequestOK, Carries, Idle, Stage

\* A request that is no longer alone is the same otherwise.
LEMMA NotAlone ==
    ASSUME NEW q, RequestOK(q), q.at # "idle"
    PROVE  LET p == [q EXCEPT !.alone = FALSE] IN
           RequestOK(p) /\ p.at = q.at /\ p.alone = FALSE
<1> DEFINE p == [q EXCEPT !.alone = FALSE]
<1>1. DOMAIN p = DOMAIN q /\ \A f \in DOMAIN q : f # "alone" => p[f] = q[f]
  OBVIOUS
<1>2. p.alone = FALSE
  BY DEF RequestOK
<1> HIDE DEF p
<1>3. p.at = q.at /\ RequestOK(p)
  BY <1>1 DEF RequestOK, Carries
<1> QED
  BY <1>2, <1>3 DEF p

LEMMA ArriveStep ==
    ASSUME Inv, NEW r \in Request, NEW q, Arrive(r, q), Carries(q), "alone" \notin DOMAIN q,
           q.at \in {"decode", "add", "set", "drop", "dropall"}
    PROVE  RequestsInv' /\ AloneInv'
<1> DEFINE only == \A t \in Request \ {r} : ~InFlight(t)
           new == Merge([alone |-> only], q)
<1>0. Marked(new, only, q)
  BY AloneFields, Zenon
<1>2. RequestsInv
  BY DEF Inv, TypeInv
<1>3. /\ req' = [s \in Request |->
                   IF s = r THEN new
                   ELSE IF InFlight(s) THEN [req[s] EXCEPT !.alone = FALSE] ELSE req[s]]
      /\ calls < MaxCalls /\ calls' = calls + 1 /\ req[r].at = "idle"
  BY DEF Arrive, InFlight
<1> HIDE DEF new, only
<1>1. /\ DOMAIN new = {"alone"} \cup DOMAIN q
      /\ \A f \in DOMAIN q : new[f] = q[f]
      /\ new.alone = only
  BY <1>0, Zenon DEF Marked
<1>4. new.at = q.at /\ RequestOK(new)
  BY <1>1 DEF RequestOK, Carries
<1>5. ASSUME NEW s \in Request, s # r
      PROVE  /\ RequestOK(req'[s]) /\ req'[s].at = req[s].at
             /\ req[s].at # "idle" => req'[s].alone = FALSE
  <2>1. RequestOK(req[s])
    BY <1>2 DEF RequestsInv
  <2>2. CASE req[s].at = "idle"
    BY <1>3, <1>5, <2>1, <2>2 DEF InFlight
  <2>3. CASE req[s].at # "idle"
    <3>1. req'[s] = [req[s] EXCEPT !.alone = FALSE]
      BY <1>3, <1>5, <2>3 DEF InFlight
    <3> QED
      BY <2>1, <2>3, <3>1, NotAlone
  <2> QED
    BY <2>2, <2>3
<1>6. req'[r] = new /\ req' = [s \in Request |-> req'[s]]
  BY <1>3
<1>7. RequestsInv'
  <2>1. calls' \in 0 .. MaxCalls
    BY <1>2, <1>3, RadiusAssumption DEF RequestsInv
  <2> QED
    BY <2>1, <1>4, <1>5, <1>6 DEF RequestsInv
<1>8. AloneInv'
  <2> SUFFICES ASSUME NEW s \in Request, req'[s].at # "idle", req'[s].alone
               PROVE  /\ \A t \in Request \ {s} : req'[t].at = "idle"
                      /\ req'[s].at \notin {"insert", "found", "write"}
    BY DEF AloneInv
  <2>1. s = r
    BY <1>5
  <2>2. only
    BY <1>1, <1>6, <2>1
  <2> QED
    BY <2>1, <2>2, <1>4, <1>5, <1>6 DEF InFlight, only
<1> QED
  BY <1>7, <1>8

\* A request that goes on, or ends; only a request in flight can be alone.
LEMMA ProceedStep ==
    ASSUME Inv, NEW r \in Request, req[r].at # "idle", NEW new, RequestOK(new),
           req' = [req EXCEPT ![r] = new], UNCHANGED calls,
           new.at # "idle" => new.alone = req[r].alone,
           req[r].alone => /\ new.at \in {"insert", "found", "write"} => new.in = input'
                           /\ new.at = "write" => new.map \in MapsOf(rows', new.in)
    PROVE  RequestsInv' /\ AloneInv' /\ req'[r] = new
<1>1. RequestsInv
  BY DEF Inv, TypeInv
<1>2. \A s \in Request : req'[s] = IF s = r THEN new ELSE req[s]
  BY <1>1 DEF RequestsInv
<1>3. RequestsInv'
  BY <1>1, <1>2 DEF RequestsInv
<1>4. AloneInv'
  <2> SUFFICES ASSUME NEW s \in Request, req'[s].at # "idle", req'[s].alone
               PROVE  /\ \A t \in Request \ {s} : req'[t].at = "idle"
                      /\ req'[s].at \in {"insert", "found", "write"} => req'[s].in = input'
                      /\ req'[s].at = "write" => req'[s].map \in MapsOf(rows', req'[s].in)
    BY DEF AloneInv
  <2>1. s = r
    <3>1. s # r => req[s].at # "idle" /\ req[s].alone
      BY <1>2
    <3> QED
      BY <3>1 DEF Inv, AloneInv
  <2>2. req[r].alone
    BY <1>2, <2>1
  <2> QED
    BY <1>2, <2>1, <2>2 DEF Inv, AloneInv
<1> QED
  BY <1>2, <1>3, <1>4

LEMMA SeenInput ==
    ASSUME input \in HotspotUserInput, NEW i \in HotspotUserInput, NEW in \in Seen(i)
    PROVE  /\ in \in HotspotUserInput /\ in.username = i.username
           /\ in.password \in SharedPointer(i.password, input.password)
           /\ i = input => in = i
<1>1. /\ in.username = i.username
      /\ in.password \in SharedPointer(i.password, input.password)
      /\ in.check \in SharedSlice(i.check, input.check)
      /\ in.reply \in SharedSlice(i.reply, input.reply)
      /\ in.groups \in SharedSlice(i.groups, input.groups)
      /\ in = [username |-> in.username, password |-> in.password, check |-> in.check,
               reply |-> in.reply, groups |-> in.groups]
  BY DEF Seen
<1>2. \A own, now : SharedPointer(own, now) \subseteq {own, now}
  BY DEF SharedPointer
<1>a. ASSUME NEW names, NEW own \in Given(names) \cup {Nil}, NEW now \in Given(names) \cup {Nil},
             NEW s \in SharedSlice(own, now)
      PROVE  s \in Given(names) \cup {Nil}
  BY <1>a DEF SharedSlice, Given
<1>b. \A own : SharedSlice(own, own) = {own}
  BY DEF SharedSlice
<1>3. in \in HotspotUserInput
  <2>1. in.username \in User \cup {Nil} /\ in.password \in Value \cup {Empty, Nil}
    BY <1>1, <1>2, InputFields
  <2>2. in.check \in Given(CheckName) \cup {Nil}
    BY <1>1, <1>a, InputFields
  <2>3. in.reply \in Given(ReplyAttr) \cup {Nil}
    BY <1>1, <1>a, InputFields
  <2>4. in.groups \in Given(Group) \cup {Nil}
    BY <1>1, <1>a, InputFields
  <2> QED
    BY <1>1, <2>1, <2>2, <2>3, <2>4 DEF HotspotUserInput
<1>4. ASSUME i = input PROVE in = i
  <2>1. /\ in.username = i.username /\ in.password = i.password /\ in.check = i.check
        /\ in.reply = i.reply /\ in.groups = i.groups
    BY <1>1, <1>2, <1>4, <1>b
  <2> QED
    BY <1>3, <2>1 DEF HotspotUserInput
<1> QED
  BY <1>1, <1>3, <1>4

LEMMA DecodedInput ==
    ASSUME input \in HotspotUserInput, NEW b \in Body, NEW fields \in SUBSET Present(b),
           Decode(fields, b)
    PROVE  input' \in HotspotUserInput
<1>1. \A f \in Fields : input'[f] = IF f \in fields THEN b[f] ELSE input[f]
  BY DEF Decode
<1>2. \A f \in fields : f \in Fields /\ b[f] # Absent
  BY DEF Present
<1>3. /\ b.username \in User \cup {Nil, Absent} /\ b.password \in Value \cup {Empty, Nil, Absent}
      /\ b.check \in Given(CheckName) \cup {Nil, Absent}
      /\ b.reply \in Given(ReplyAttr) \cup {Nil, Absent}
      /\ b.groups \in Given(Group) \cup {Nil, Absent}
  BY BodyAssumption
<1>4. /\ input'.username \in User \cup {Nil} /\ input'.password \in Value \cup {Empty, Nil}
      /\ input'.check \in Given(CheckName) \cup {Nil} /\ input'.reply \in Given(ReplyAttr) \cup {Nil}
      /\ input'.groups \in Given(Group) \cup {Nil}
  BY <1>1, <1>2, <1>3, InputFields DEF Fields
<1>5. input' = [username |-> input'.username, password |-> input'.password, check |-> input'.check,
                reply |-> input'.reply, groups |-> input'.groups]
  BY <1>1 DEF Decode, Fields
<1> QED
  BY <1>4, <1>5 DEF HotspotUserInput

-----------------------------------------------------------------------------
(* Steps *)

LEMMA RowsKept ==
    ASSUME Inv, UNCHANGED rows, input' \in HotspotUserInput, RequestsInv', AloneInv'
    PROVE  Inv'
BY DEF Inv, TypeInv

LEMMA Ends ==
    ASSUME Inv, NEW r \in Request, req[r].at # "idle", NEW ok,
           req' = [req EXCEPT ![r] = Idle(ok)], UNCHANGED calls
    PROVE  RequestsInv' /\ AloneInv'
<1>1. RequestOK(Idle(ok)) /\ Idle(ok).at = "idle"
  BY IdleOK
<1> QED
  BY <1>1, ProceedStep

LEMMA RefuseStep ==
    ASSUME Inv, NEW r \in Request, req[r].at # "idle", Refuse(r), UNCHANGED rows,
           input' \in HotspotUserInput
    PROVE  Inv'
<1>1. RequestsInv' /\ AloneInv'
  BY Ends DEF Refuse
<1> QED
  BY <1>1, RowsKept

\* A request commits a row.
LEMMA CommitStep ==
    ASSUME Inv, NEW r \in Request, req[r].at # "idle", Return(r), UNCHANGED input,
           NEW u \in User, NEW new \in Row, rows' = [rows EXCEPT ![u] = new]
    PROVE  Inv'
<1>1. RequestsInv' /\ AloneInv'
  BY Ends DEF Return
<1>2. rows' \in [User -> Row]
  BY DEF Inv, TypeInv
<1> QED
  BY <1>1, <1>2 DEF Inv, TypeInv

LEMMA InvFacts ==
    ASSUME Inv, NEW r \in Request
    PROVE  /\ input \in HotspotUserInput /\ rows \in [User -> Row] /\ RequestOK(req[r])
           /\ Carries(req[r]) /\ req = [s \in Request |-> req[s]]
BY DEF Inv, TypeInv, RequestsInv, RequestOK

LEMMA BindStartsStep ==
    ASSUME Inv, NEW r \in Request, NEW op \in {"create", "update"}, NEW path,
           op = "update" => path \in User, BindStarts(r, op, path)
    PROVE  Inv'
<1>0. PICK b \in Body : \E now \in SUBSET Present(b) :
        /\ Decode(now, b)
        /\ Arrive(r, [at |-> "decode", op |-> op, path |-> path, body |-> b, todo |-> Present(b) \ now])
  BY DEF BindStarts
<1>1. PICK now \in SUBSET Present(b) :
        /\ Decode(now, b)
        /\ Arrive(r, [at |-> "decode", op |-> op, path |-> path, body |-> b, todo |-> Present(b) \ now])
  BY <1>0
<1> DEFINE q == [at |-> "decode", op |-> op, path |-> path, body |-> b, todo |-> Present(b) \ now]
<1>2. Carries(q) /\ "alone" \notin DOMAIN q /\ q.at = "decode"
  BY DEF Carries, Stage
<1>3. Arrive(r, q)
  BY <1>1
<1> HIDE DEF q
<1>4. RequestsInv' /\ AloneInv'
  BY <1>2, <1>3, ArriveStep
<1>5. input' \in HotspotUserInput
  BY <1>1, InvFacts, DecodedInput
<1> QED
  BY <1>4, <1>5, RowsKept DEF BindStarts

LEMMA BindEndsStep ==
    ASSUME Inv, NEW r \in Request, BindEnds(r)
    PROVE  Inv'
<1>1. /\ req[r].at = "decode" /\ req[r].body \in Body
      /\ req[r].todo \in SUBSET Present(req[r].body) /\ "alone" \in DOMAIN req[r]
  BY InvFacts DEF BindEnds, Carries, RequestOK
<1>2. input' \in HotspotUserInput /\ UNCHANGED rows
  BY <1>1, InvFacts, DecodedInput DEF BindEnds
<1>3. CASE Refuse(r)
  BY <1>1, <1>2, <1>3, RefuseStep
<1>4. CASE Proceed(r, [at |-> "bound", todo |-> {}])
  <2> DEFINE new == Merge([at |-> "bound", todo |-> {}], req[r])
  <2>1. /\ DOMAIN new = {"at", "todo"} \cup DOMAIN req[r]
        /\ \A f \in DOMAIN req[r] : f \notin {"at", "todo"} => new[f] = req[r][f]
        /\ new.at = "bound" /\ new.todo = {}
    BY DEF Merge
  <2>2. req' = [req EXCEPT ![r] = new] /\ UNCHANGED calls
    BY <1>4, InvFacts DEF Proceed
  <2> HIDE DEF new
  <2>3. RequestOK(new) /\ new.alone = req[r].alone
    BY <1>1, <2>1, InvFacts DEF RequestOK, Carries, Stage
  <2>4. RequestsInv' /\ AloneInv'
    BY <1>1, <2>1, <2>2, <2>3, ProceedStep
  <2> QED
    BY <1>2, <2>4, RowsKept
<1> QED
  BY <1>3, <1>4 DEF BindEnds

LEMMA UpdateChecksStep ==
    ASSUME Inv, NEW r \in Request, UpdateChecks(r)
    PROVE  Inv'
<1>1. /\ req[r].at = "bound" /\ req[r].op = "update" /\ req[r].path \in User
      /\ "alone" \in DOMAIN req[r] /\ UNCHANGED rows
  BY InvFacts DEF UpdateChecks, Carries, RequestOK
<1>2. input \in HotspotUserInput
  BY InvFacts
<1>3. CASE Refuse(r) /\ UNCHANGED input
  BY <1>1, <1>2, <1>3, RefuseStep
<1>4. CASE input' = [input EXCEPT !.username = req[r].path] /\ Proceed(r, [at |-> "checked"])
  <2> DEFINE new == Merge([at |-> "checked"], req[r])
  <2>1. /\ DOMAIN new = {"at"} \cup DOMAIN req[r]
        /\ \A f \in DOMAIN req[r] : f # "at" => new[f] = req[r][f]
        /\ new.at = "checked"
    BY DEF Merge
  <2>2. req' = [req EXCEPT ![r] = new] /\ UNCHANGED calls
    BY <1>4, InvFacts DEF Proceed
  <2> HIDE DEF new
  <2>3. RequestOK(new) /\ new.alone = req[r].alone
    BY <1>1, <2>1, InvFacts DEF RequestOK, Carries, Stage
  <2>4. RequestsInv' /\ AloneInv'
    BY <1>1, <2>1, <2>2, <2>3, ProceedStep
  <2>5. input' \in HotspotUserInput
    BY <1>1, <1>2, <1>4 DEF HotspotUserInput
  <2> QED
    BY <1>1, <2>4, <2>5, RowsKept
<1> QED
  BY <1>3, <1>4 DEF UpdateChecks

\* A handler is called with the input: it works for that user.
LEMMA CalledStep ==
    ASSUME Inv, NEW r \in Request, req[r].at \in {"bound", "checked"}, NEW at \in {"insert", "found"},
           input.username # Nil, Called(r, at), UNCHANGED <<input, rows>>
    PROVE  Inv'
<1> DEFINE new == Merge([at |-> at, in |-> input], req[r])
<1>1. /\ DOMAIN new = {"at", "in"} \cup DOMAIN req[r]
      /\ \A f \in DOMAIN req[r] : f \notin {"at", "in"} => new[f] = req[r][f]
      /\ new.at = at /\ new.in = input
  BY DEF Merge
<1>2. req' = [req EXCEPT ![r] = new] /\ UNCHANGED calls
  BY InvFacts DEF Called, Proceed
<1> HIDE DEF new
<1>3. "alone" \in DOMAIN req[r] /\ input \in HotspotUserInput
  BY InvFacts DEF RequestOK
<1>4. RequestOK(new) /\ new.alone = req[r].alone
  BY <1>1, <1>3 DEF RequestOK, Carries, Stage
<1>5. RequestsInv' /\ AloneInv'
  BY <1>1, <1>2, <1>4, ProceedStep
<1> QED
  BY <1>3, <1>5, RowsKept

LEMMA CreateHotspotUserStep ==
    ASSUME Inv, NEW r \in Request, CreateHotspotUser(r)
    PROVE  Inv'
<1>1. input \in HotspotUserInput
  BY InvFacts
<1> QED
  BY <1>1, CalledStep, RefuseStep DEF CreateHotspotUser

LEMMA UpdateHotspotUserStep ==
    ASSUME Inv, NEW r \in Request, UpdateHotspotUser(r)
    PROVE  Inv'
<1>1. input \in HotspotUserInput
  BY InvFacts
<1> QED
  BY <1>1, CalledStep, RefuseStep DEF UpdateHotspotUser

LEMMA UpdateReadsStep ==
    ASSUME Inv, NEW r \in Request, UpdateReads(r)
    PROVE  Inv'
<1>0. PICK m \in MapsOf(rows, req[r].in) : Proceed(r, [at |-> "write", map |-> m])
  BY DEF UpdateReads, MapsOf
<1> DEFINE new == Merge([at |-> "write", map |-> m], req[r])
<1>1. /\ DOMAIN new = {"at", "map"} \cup DOMAIN req[r]
      /\ \A f \in DOMAIN req[r] : f \notin {"at", "map"} => new[f] = req[r][f]
      /\ new.at = "write" /\ new.map = m
  BY DEF Merge
<1>2. req' = [req EXCEPT ![r] = new] /\ UNCHANGED calls
  BY <1>0, InvFacts DEF Proceed
<1> HIDE DEF new
<1>3. /\ req[r].at = "found" /\ UNCHANGED <<input, rows>> /\ input \in HotspotUserInput
      /\ {"alone", "in"} \subseteq DOMAIN req[r] /\ req[r].in \in HotspotUserInput
      /\ req[r].in.username # Nil
  BY InvFacts, InputFields DEF UpdateReads, RequestOK, Carries
<1>4. Password \notin DOMAIN m
  BY <1>0 DEF MapsOf, CurrentMaps
<1>5. new.in = req[r].in /\ new.alone = req[r].alone
  BY <1>1, <1>3
<1>6. RequestOK(new)
  BY <1>1, <1>3, <1>4, <1>5 DEF RequestOK, Carries, Stage
<1>7. req[r].alone => req[r].in = input
  BY <1>3 DEF Inv, AloneInv
<1>8. new.map \in MapsOf(rows', new.in)
  BY <1>0, <1>1, <1>3, <1>5
<1>9. RequestsInv' /\ AloneInv'
  BY <1>1, <1>2, <1>3, <1>5, <1>6, <1>7, <1>8, ProceedStep
<1> QED
  BY <1>3, <1>9, RowsKept

LEMMA CreateCommitsStep ==
    ASSUME Inv, NEW r \in Request, CreateCommits(r)
    PROVE  Inv' /\ \A u \in User : HasCredential(rows[u]) => HasCredential(rows'[u])
<1>1. /\ req[r].at = "insert" /\ req[r].in \in HotspotUserInput /\ req[r].in.username \in User
      /\ input \in HotspotUserInput /\ rows \in [User -> Row] /\ Return(r) /\ UNCHANGED input
  BY InvFacts, InputFields DEF CreateCommits, Carries
<1>2. PICK in \in Seen(req[r].in) :
        rows' = [rows EXCEPT ![in.username] = CreateRow(rows[in.username], in)]
  BY DEF CreateCommits, CreateRow
<1>3. in \in HotspotUserInput /\ in.username = req[r].in.username
  BY <1>1, SeenInput
<1> DEFINE u == in.username
           new == CreateRow(rows[u], in)
<1>4. /\ u \in User /\ rows[u] \in Row /\ new \in Row
      /\ \A n \in Name : rows[u][n] \subseteq new[n]
  BY <1>1, <1>3, CreatedRow
<1>5. rows' = [rows EXCEPT ![u] = new]
  BY <1>2
<1> HIDE DEF new
<1>6. Inv'
  BY <1>1, <1>4, <1>5, CommitStep
<1> QED
  BY <1>1, <1>4, <1>5, <1>6, Names DEF HasCredential

\* The commit of an update, with all that its rows and its input are known to be.
LEMMA UpdateCommitted ==
    ASSUME Inv, NEW r \in Request, UpdateCommits(r)
    PROVE  \E in \in HotspotUserInput : \E last \in LastWrites(req[r].map, Entries(in)) :
             /\ in.username = req[r].in.username /\ in.username \in User
             /\ in.password \in SharedPointer(req[r].in.password, input.password)
             /\ req[r].alone => in = req[r].in /\ req[r].map \in MapsOf(rows, in)
             /\ req[r].at = "write" /\ Password \notin DOMAIN req[r].map
             /\ rows \in [User -> Row]
             /\ rows' = [rows EXCEPT ![in.username] = UpdateRow(rows[in.username], req[r].map, in, last)]
<1>1. /\ req[r].at = "write" /\ req[r].in \in HotspotUserInput /\ req[r].in.username \in User
      /\ Password \notin DOMAIN req[r].map /\ input \in HotspotUserInput /\ rows \in [User -> Row]
  BY InvFacts, InputFields DEF UpdateCommits, Carries
<1>2. PICK in \in Seen(req[r].in) : \E last \in LastWrites(req[r].map, Entries(in)) :
        rows' = [rows EXCEPT ![in.username] = UpdateRow(rows[in.username], req[r].map, in, last)]
  BY DEF UpdateCommits, UpdateRow
<1>3. /\ in \in HotspotUserInput /\ in.username = req[r].in.username
      /\ in.password \in SharedPointer(req[r].in.password, input.password)
      /\ req[r].in = input => in = req[r].in
  BY <1>1, SeenInput
<1>4. req[r].alone => req[r].in = input /\ req[r].map \in MapsOf(rows, req[r].in)
  BY <1>1 DEF Inv, AloneInv
<1> QED
  BY <1>1, <1>2, <1>3, <1>4

LEMMA UpdateCommitsStep ==
    ASSUME Inv, NEW r \in Request, UpdateCommits(r)
    PROVE  Inv'
<1>1. PICK in \in HotspotUserInput : \E last \in LastWrites(req[r].map, Entries(in)) :
             /\ in.username \in User /\ req[r].at = "write" /\ Password \notin DOMAIN req[r].map
             /\ rows \in [User -> Row]
             /\ rows' = [rows EXCEPT ![in.username] = UpdateRow(rows[in.username], req[r].map, in, last)]
  BY UpdateCommitted
<1>2. PICK last \in LastWrites(req[r].map, Entries(in)) :
             /\ in.username \in User /\ req[r].at = "write" /\ Password \notin DOMAIN req[r].map
             /\ rows \in [User -> Row]
             /\ rows' = [rows EXCEPT ![in.username] = UpdateRow(rows[in.username], req[r].map, in, last)]
  BY <1>1
<1> DEFINE u == in.username
           new == UpdateRow(rows[u], req[r].map, in, last)
<1>3. new \in Row
  BY <1>2, UpdatedRow
<1>4. rows' = [rows EXCEPT ![u] = new] /\ Return(r) /\ UNCHANGED input
  BY <1>2 DEF UpdateCommits
<1>5. u \in User /\ req[r].at # "idle"
  BY <1>2
<1> HIDE DEF new, u
<1> QED
  BY <1>3, <1>4, <1>5, CommitStep

LEMMA NotFoundStep ==
    ASSUME Inv, NEW r \in Request, NotFound(r), UNCHANGED <<input, rows>>
    PROVE  Inv'
<1>1. /\ RequestsInv /\ req[r].at = "idle" /\ req' = [req EXCEPT ![r] = Idle(FALSE)]
      /\ UNCHANGED calls /\ input \in HotspotUserInput
  BY DEF Inv, TypeInv, NotFound, InFlight, Refuse
<1>2. \A s \in Request : req'[s] = IF s = r THEN Idle(FALSE) ELSE req[s]
  BY <1>1 DEF RequestsInv
<1>3. RequestOK(Idle(FALSE)) /\ Idle(FALSE).at = "idle"
  BY IdleOK, Zenon
<1>4. RequestsInv'
  BY <1>1, <1>2, <1>3 DEF RequestsInv
<1>5. AloneInv'
  <2> SUFFICES ASSUME NEW s \in Request, req'[s].at # "idle", req'[s].alone
               PROVE  /\ \A t \in Request \ {s} : req'[t].at = "idle"
                      /\ req'[s].at \in {"insert", "found", "write"} => req'[s].in = input'
                      /\ req'[s].at = "write" => req'[s].map \in MapsOf(rows', req'[s].in)
    BY DEF AloneInv
  <2>1. s # r /\ req'[s] = req[s]
    BY <1>2, <1>3
  <2>2. /\ \A t \in Request \ {s} : req[t].at = "idle"
        /\ req[s].at \in {"insert", "found", "write"} => req[s].in = input
        /\ req[s].at = "write" => req[s].map \in MapsOf(rows, req[s].in)
    BY <2>1 DEF Inv, AloneInv
  <2> QED
    BY <2>1, <2>2, <1>2, <1>3
<1> QED
  BY <1>1, <1>4, <1>5, RowsKept

\* A request on an entry arrives.
LEMMA BeginStep ==
    ASSUME Inv, NEW r \in Request, NEW at \in {"add", "set", "drop", "dropall"}, NEW u \in User,
           NEW n, NEW v, Begin(r, at, u, n, v), UNCHANGED <<input, rows>>,
           at # "dropall" => n \in Name, at \in {"add", "set"} => v \in Value
    PROVE  Inv'
<1> DEFINE q == [at |-> at, user |-> u, name |-> n, value |-> v]
<1>1. Carries(q) /\ "alone" \notin DOMAIN q /\ q.at = at /\ q.user = u /\ q.name = n
  BY DEF Carries, Stage
<1>2. Arrive(r, q)
  BY DEF Begin
<1> HIDE DEF q
<1>3. RequestsInv' /\ AloneInv'
  BY <1>1, <1>2, ArriveStep
<1>4. input \in HotspotUserInput
  BY InvFacts
<1> QED
  BY <1>1, <1>3, <1>4, RowsKept

LEMMA AddOrUpdateStep ==
    ASSUME Inv, NEW r \in Request, NEW u \in User, NEW names, AddOrUpdate(r, u, names)
    PROVE  Inv'
<1>1. PICK e \in Entry :
        IF userExists(u)
          THEN Begin(r, IF entryExists(u, e[1]) THEN "set" ELSE "add", u, e[1], e[2])
          ELSE NotFound(r)
  BY DEF AddOrUpdate
<1>2. UNCHANGED <<input, rows>> /\ e[1] \in Name /\ e[2] \in Value
  BY RadiusAssumption DEF AddOrUpdate
<1>3. CASE userExists(u)
  BY <1>1, <1>2, <1>3, BeginStep DEF entryExists
<1>4. CASE ~userExists(u)
  BY <1>1, <1>2, <1>4, NotFoundStep
<1> QED
  BY <1>3, <1>4

LEMMA DeleteStep ==
    ASSUME Inv, NEW r \in Request, NEW u \in User, NEW names \in SUBSET Name, Delete(r, u, names)
    PROVE  Inv'
<1>1. PICK n \in names : Begin(r, "drop", u, n, Nil) \/ NotFound(r)
  BY DEF Delete
<1>2. UNCHANGED <<input, rows>> /\ n \in Name
  BY DEF Delete
<1> QED
  BY <1>1, <1>2, BeginStep, NotFoundStep

LEMMA DeleteHotspotUserStep ==
    ASSUME Inv, NEW r \in Request, NEW u \in User, DeleteHotspotUser(r, u)
    PROVE  Inv'
BY BeginStep, NotFoundStep DEF DeleteHotspotUser

LEMMA DeleteCommitsStep ==
    ASSUME Inv, NEW r \in Request, DeleteCommits(r)
    PROVE  Inv'
<1> DEFINE new == [n \in Name |-> {}]
<1>1. req[r].at = "dropall" /\ req[r].user \in User /\ Return(r) /\ UNCHANGED input
  BY InvFacts DEF DeleteCommits, Carries
<1>2. rows' = [rows EXCEPT ![req[r].user] = new]
  BY DEF DeleteCommits
<1>3. new \in Row
  BY DEF Row
<1> HIDE DEF new
<1> QED
  BY <1>1, <1>2, <1>3, CommitStep

\* The write of one entry.
LEMMA WriteEntrySteps ==
    ASSUME Inv, NEW r \in Request, InsertEntry(r) \/ UpdateEntry(r) \/ DeleteEntry(r)
    PROVE  Inv' /\ \A u \in User : HasCredential(rows[u]) =>
                     HasCredential(rows'[u]) \/ (req[r].at = "drop" /\ req[r].user = u)
<1> DEFINE u == req[r].user
           n == req[r].name
           s == rows[u][n]
<1>1. /\ Carries(req[r]) /\ rows \in [User -> Row]
      /\ req[r].at \in {"add", "set", "drop"} /\ Return(r) /\ UNCHANGED input
  BY InvFacts DEF InsertEntry, UpdateEntry, DeleteEntry, WriteEntry
<1>2. u \in User /\ n \in Name /\ s \in SUBSET (Value \cup {Accept}) /\ rows[u] \in Row
  BY <1>1 DEF Carries, Row
<1>3. PICK written \in SUBSET (Value \cup {Accept}) :
        /\ rows' = [rows EXCEPT ![u] = [rows[u] EXCEPT ![n] = written]]
        /\ s # {} => written # {} \/ req[r].at = "drop"
  <2>1. CASE InsertEntry(r)
    <3>1. /\ req[r].at = "add" /\ req[r].value \in Value
          /\ rows' = [rows EXCEPT ![u] = [rows[u] EXCEPT ![n] = s \cup {req[r].value}]]
      BY <1>1, <1>2, <2>1 DEF InsertEntry, WriteEntry, Carries, Row
    <3>2. s \cup {req[r].value} \in SUBSET (Value \cup {Accept})
      BY <1>2, <3>1
    <3> QED
      BY <3>1, <3>2
  <2>2. CASE UpdateEntry(r)
    <3>1. /\ req[r].at = "set" /\ req[r].value \in Value
          /\ rows' = [rows EXCEPT ![u] = [rows[u] EXCEPT ![n] = {req[r].value : v \in s}]]
      BY <1>1, <1>2, <2>2 DEF UpdateEntry, WriteEntry, Carries, Row
    <3>2. {req[r].value : v \in s} \in SUBSET (Value \cup {Accept})
      BY <1>2, <3>1
    <3>3. s # {} => {req[r].value : v \in s} # {}
      OBVIOUS
    <3> QED
      BY <3>1, <3>2, <3>3
  <2>3. CASE DeleteEntry(r)
    <3>1. req[r].at = "drop" /\ rows' = [rows EXCEPT ![u] = [rows[u] EXCEPT ![n] = {}]]
      BY <1>1, <1>2, <2>3 DEF DeleteEntry, WriteEntry, Row
    <3>2. {} \in SUBSET (Value \cup {Accept})
      OBVIOUS
    <3> QED
      BY <3>1, <3>2
  <2> QED
    BY <2>1, <2>2, <2>3
<1>4. Inv'
  <2> DEFINE new == [rows[u] EXCEPT ![n] = written]
  <2>1. new \in Row /\ rows' = [rows EXCEPT ![u] = new] /\ req[r].at # "idle"
    BY <1>1, <1>2, <1>3 DEF Row
  <2> HIDE DEF new, u
  <2> QED
    BY <1>1, <1>2, <2>1, CommitStep
<1>5. ASSUME NEW x \in User, HasCredential(rows[x]), ~(req[r].at = "drop" /\ req[r].user = x)
      PROVE  HasCredential(rows'[x])
  <2>1. CASE x = u
    BY <1>1, <1>2, <1>3, <1>5, <2>1, Names DEF HasCredential, Row
  <2>2. CASE x # u
    BY <1>1, <1>2, <1>3, <1>5, <2>2
  <2> QED
    BY <2>1, <2>2
<1> QED
  BY <1>4, <1>5

-----------------------------------------------------------------------------
(* The specification *)

LEMMA InitInv == Init => Inv
<1> SUFFICES ASSUME Init PROVE Inv
  OBVIOUS
<1>1. input \in HotspotUserInput
  <2>1. /\ input.username = Nil /\ input.password = Nil /\ input.check = Nil
        /\ input.reply = Nil /\ input.groups = Nil
        /\ input = [username |-> input.username, password |-> input.password,
                    check |-> input.check, reply |-> input.reply, groups |-> input.groups]
    BY DEF Init, NoInput, Fields
  <2> QED
    BY <2>1 DEF HotspotUserInput
<1>2. rows \in [User -> Row]
  BY DEF Init, Row
<1>3. \A r \in Request : req[r] = Idle(TRUE)
  BY DEF Init
<1>4. RequestsInv
  <2>1. \A r \in Request : RequestOK(req[r])
    BY <1>3, IdleOK, Zenon
  <2>2. calls \in 0 .. MaxCalls
    BY RadiusAssumption DEF Init
  <2>3. req = [r \in Request |-> req[r]]
    BY Zenon DEF Init
  <2> QED
    BY <2>1, <2>2, <2>3 DEF RequestsInv
<1>5. \A r \in Request : req[r].at = "idle"
  BY <1>3, IdleOK, Zenon
<1> QED
  BY <1>1, <1>2, <1>4, <1>5 DEF Inv, TypeInv, AloneInv

LEMMA NextInv == Inv /\ [Next]_vars => Inv'
<1> SUFFICES ASSUME Inv, [Next]_vars PROVE Inv'
  OBVIOUS
<1>1. CASE UNCHANGED vars
  BY <1>1 DEF vars, Inv, TypeInv, RequestsInv, AloneInv
<1>2. ASSUME NEW r \in Request, BodyRoutes(r)
      PROVE  Inv'
  <2>1. CASE CreateRoute(r)
    BY <2>1, BindStartsStep DEF CreateRoute
  <2>2. ASSUME NEW u \in User, UpdateRoute(r, u)
        PROVE  Inv'
    BY <2>2, BindStartsStep DEF UpdateRoute
  <2> QED
    BY <1>2, <2>1, <2>2, BindEndsStep, UpdateChecksStep, CreateHotspotUserStep, CreateCommitsStep,
       UpdateHotspotUserStep, UpdateReadsStep, UpdateCommitsStep DEF BodyRoutes
<1>3. ASSUME NEW r \in Request, PathRoutes(r)
      PROVE  Inv'
  <2>1. CheckName \in SUBSET Name /\ ReplyAttr \in SUBSET Name /\ Group \in SUBSET Name
    BY DEF Name
  <2>2. ASSUME NEW u \in User, AddOrUpdateRadCheckAttribute(r, u) \/ DeleteRadCheckAttribute(r, u)
        PROVE  Inv'
    BY <2>1, <2>2, AddOrUpdateStep, DeleteStep
       DEF AddOrUpdateRadCheckAttribute, DeleteRadCheckAttribute
  <2>3. ASSUME NEW u \in User, AddOrUpdateRadReplyAttribute(r, u) \/ DeleteRadReplyAttribute(r, u)
        PROVE  Inv'
    BY <2>1, <2>3, AddOrUpdateStep, DeleteStep
       DEF AddOrUpdateRadReplyAttribute, DeleteRadReplyAttribute
  <2>4. ASSUME NEW u \in User, AddRadUserGroup(r, u) \/ DeleteRadUserGroup(r, u)
        PROVE  Inv'
    BY <2>1, <2>4, AddOrUpdateStep, DeleteStep DEF AddRadUserGroup, DeleteRadUserGroup
  <2> QED
    BY <1>3, <2>2, <2>3, <2>4, DeleteHotspotUserStep, DeleteCommitsStep, WriteEntrySteps
       DEF PathRoutes
<1>4. ASSUME NEW r \in Request, Fails(r)
      PROVE  Inv'
  <2>1. input \in HotspotUserInput
    BY InvFacts
  <2> QED
    BY <1>4, <2>1, RefuseStep DEF Fails
<1> QED
  BY <1>1, <1>2, <1>3, <1>4 DEF Next

LEMMA InvHolds == Spec => []Inv
<1> QED
  BY InitInv, NextInv, PTL DEF Spec

\* In every state the input, the rows and the requests have their types: a decoding
\* cut in two by another leaves a struct, and a handler always has a username.
THEOREM RadiusTypeCorrect == Spec => []RadiusTypeOK
<1>1. Inv => RadiusTypeOK
  BY DEF Inv, TypeInv, RequestsInv, RequestOK, Carries, RadiusTypeOK, Row
<1> QED
  BY <1>1, InvHolds, PTL

Commits(r) ==
    \/ CreateCommits(r) \/ UpdateCommits(r) \/ DeleteCommits(r)
    \/ InsertEntry(r) \/ UpdateEntry(r) \/ DeleteEntry(r)

\* Only the commit of a request changes rows.
LEMMA OnlyCommits ==
    ASSUME NEW r \in Request, BodyRoutes(r) \/ PathRoutes(r) \/ Fails(r)
    PROVE  UNCHANGED rows \/ Commits(r)
<1>1. BodyRoutes(r) => UNCHANGED rows \/ Commits(r)
  BY DEF BodyRoutes, Commits, CreateRoute, UpdateRoute, BindStarts, BindEnds, UpdateChecks,
         CreateHotspotUser, UpdateHotspotUser, UpdateReads
<1>2. PathRoutes(r) => UNCHANGED rows \/ Commits(r)
  BY DEF PathRoutes, Commits, DeleteHotspotUser, AddOrUpdateRadCheckAttribute,
         DeleteRadCheckAttribute, AddOrUpdateRadReplyAttribute, DeleteRadReplyAttribute,
         AddRadUserGroup, DeleteRadUserGroup, AddOrUpdate, Delete
<1>3. Fails(r) => UNCHANGED rows
  BY DEF Fails
<1> QED
  BY <1>1, <1>2, <1>3

\* A committing request ends.
LEMMA CommitEnds ==
    ASSUME Inv, NEW r \in Request, Commits(r)
    PROVE  req'[r] # req[r]
<1>1. req[r].at # "idle" /\ req' = [req EXCEPT ![r] = Idle(TRUE)]
  BY DEF Commits, CreateCommits, UpdateCommits, DeleteCommits, InsertEntry, UpdateEntry,
         DeleteEntry, WriteEntry, Return
<1>2. req'[r] = Idle(TRUE)
  BY <1>1, InvFacts
<1>3. Idle(TRUE).at = "idle"
  BY IdleOK, Zenon
<1> QED
  BY <1>1, <1>2, <1>3, Zenon

\* The commit of a request leaves every account its credential unless it was told to
\* take it away.
LEMMA CommitKeeps ==
    ASSUME Inv, NEW r \in Request, Commits(r), NEW u \in User, HasCredential(rows[u])
    PROVE  HasCredential(rows'[u]) \/ RemovesCredential(r, u)
<1>1. CASE CreateCommits(r)
  BY <1>1, CreateCommitsStep
<1>2. CASE UpdateCommits(r)
  <2> DEFINE Committed(in, last) ==
             /\ in.username = req[r].in.username /\ in.username \in User
             /\ in.password \in SharedPointer(req[r].in.password, input.password)
             /\ req[r].at = "write" /\ Password \notin DOMAIN req[r].map
             /\ rows \in [User -> Row]
             /\ rows' = [rows EXCEPT ![in.username] = UpdateRow(rows[in.username], req[r].map, in, last)]
  <2>0. PICK in \in HotspotUserInput : \E last \in LastWrites(req[r].map, Entries(in)) : Committed(in, last)
    BY <1>2, UpdateCommitted
  <2>1. PICK last \in LastWrites(req[r].map, Entries(in)) : Committed(in, last)
    BY <2>0
  <2>2. CASE u # in.username
    BY <2>1, <2>2
  <2>3. CASE u = in.username /\ in.password = Empty
    BY <2>1, <2>3 DEF RemovesCredential
  <2>4. CASE u = in.username /\ in.password # Empty
    <3>1. rows'[u] = UpdateRow(rows[u], req[r].map, in, last)
      BY <2>1, <2>4
    <3> QED
      BY <2>1, <2>4, <3>1, UpdatedRow
  <2> QED
    BY <2>2, <2>3, <2>4
<1>3. CASE DeleteCommits(r)
  <2>1. u # req[r].user => rows'[u] = rows[u]
    BY <1>3, InvFacts DEF DeleteCommits
  <2> QED
    BY <1>3, <2>1 DEF DeleteCommits, RemovesCredential
<1>4. CASE InsertEntry(r) \/ UpdateEntry(r) \/ DeleteEntry(r)
  BY <1>4, WriteEntrySteps DEF RemovesCredential
<1> QED
  BY <1>1, <1>2, <1>3, <1>4 DEF Commits

\* An account with a password or an Auth-Type row keeps one in every step but one of a
\* request that deletes the account or the row, or sets an empty password.
THEOREM CredentialsAreKept == Spec => CredentialsKept
<1>1. ASSUME Inv, [Next]_vars, NEW u \in User, HasCredential(rows[u]), ~HasCredential(rows'[u])
      PROVE  \E r \in Request : req'[r] # req[r] /\ RemovesCredential(r, u)
  <2>1. PICK r \in Request : BodyRoutes(r) \/ PathRoutes(r) \/ Fails(r)
    BY <1>1 DEF Next, vars
  <2>2. Commits(r)
    BY <1>1, <2>1, OnlyCommits
  <2> QED
    BY <1>1, <2>2, CommitEnds, CommitKeeps
<1>2. Inv /\ [Next]_vars =>
        [\A u \in User : HasCredential(rows[u]) /\ ~HasCredential(rows'[u])
           => \E r \in Request : req'[r] # req[r] /\ RemovesCredential(r, u)]_vars
  BY <1>1
<1> QED
  BY <1>2, InvHolds, PTL DEF Spec, CredentialsKept

\* A step of one request leaves the others at their stage.
LEMMA OthersStay ==
    ASSUME Inv, NEW s \in Request, BodyRoutes(s) \/ PathRoutes(s) \/ Fails(s),
           NEW r \in Request, r # s, req[r].at # "idle"
    PROVE  req'[r].at = req[r].at
<1>1. (\E q : Arrive(s, q)) \/ (\E q : req' = [req EXCEPT ![s] = q])
  <2>1. ASSUME NEW q, Proceed(s, q) PROVE \E p : req' = [req EXCEPT ![s] = p]
    BY <2>1, Zenon DEF Proceed
  <2>2. Return(s) \/ Refuse(s) => \E p : req' = [req EXCEPT ![s] = p]
    BY Zenon DEF Return, Refuse
  <2>3. CASE BodyRoutes(s)
    BY <2>1, <2>2, <2>3 DEF BodyRoutes, CreateRoute, UpdateRoute, BindStarts, BindEnds, UpdateChecks,
       CreateHotspotUser, CreateCommits, UpdateHotspotUser, UpdateReads, UpdateCommits, Called
  <2>4. CASE PathRoutes(s)
    BY <2>2, <2>4 DEF PathRoutes, DeleteHotspotUser, AddOrUpdateRadCheckAttribute,
       DeleteRadCheckAttribute, AddOrUpdateRadReplyAttribute, DeleteRadReplyAttribute,
       AddRadUserGroup, DeleteRadUserGroup, AddOrUpdate, Delete, Begin, NotFound,
       DeleteCommits, InsertEntry, UpdateEntry, DeleteEntry, WriteEntry
  <2> QED
    BY <2>2, <2>3, <2>4 DEF Fails
<1>2. ASSUME NEW q, Arrive(s, q) PROVE req'[r].at = req[r].at
  <2>1. req'[r] = [req[r] EXCEPT !.alone = FALSE]
    BY <1>2 DEF Arrive, InFlight
  <2> QED
    BY <2>1, InvFacts, NotAlone
<1>3. ASSUME NEW q, req' = [req EXCEPT ![s] = q] PROVE req'[r].at = req[r].at
  BY <1>3, InvFacts
<1> QED
  BY <1>1, <1>2, <1>3

\* Only its commit ends an update well.
LEMMA UpdateEndsWell ==
    ASSUME Inv, [Next]_vars, NEW r \in Request, req[r].at = "write", req'[r] = Idle(TRUE)
    PROVE  UpdateCommits(r)
<1>1. Idle(TRUE).at = "idle" /\ Idle(TRUE).ok = TRUE /\ Idle(FALSE).ok = FALSE
  BY DEF Idle
<1>2. req'[r].at = "idle"
  BY <1>1, Zenon
<1>3. PICK s \in Request : BodyRoutes(s) \/ PathRoutes(s) \/ Fails(s)
  BY <1>2 DEF Next, vars
<1>4. s = r
  BY <1>2, <1>3, OthersStay
<1>5. ~Fails(r)
  <2>1. Fails(r) => req'[r] = Idle(FALSE)
    BY InvFacts DEF Fails, Refuse
  <2>2. Idle(FALSE) # Idle(TRUE)
    BY <1>1, Zenon
  <2> QED
    BY <2>1, <2>2, Zenon
<1>6. \A q : ~Arrive(r, q)
  BY DEF Arrive, InFlight
<1>7. ~PathRoutes(r)
  BY <1>6 DEF PathRoutes, DeleteHotspotUser, AddOrUpdateRadCheckAttribute,
       DeleteRadCheckAttribute, AddOrUpdateRadReplyAttribute, DeleteRadReplyAttribute,
       AddRadUserGroup, DeleteRadUserGroup, AddOrUpdate, Delete, Begin, NotFound, InFlight,
       DeleteCommits, InsertEntry, UpdateEntry, DeleteEntry, WriteEntry
<1> QED
  BY <1>3, <1>4, <1>5, <1>6, <1>7 DEF BodyRoutes, CreateRoute, UpdateRoute, BindStarts, BindEnds,
     UpdateChecks, CreateHotspotUser, CreateCommits, UpdateHotspotUser, UpdateReads

\* An update that met no other request leaves rows of the names it was given and of no
\* others, Auth-Type aside, and of a name whose rows agreed before exactly the value
\* given, whatever rows earlier races and earlier bodies left behind.
THEOREM UpdatesTakeEffect == Spec => UpdateTakesEffect
<1>1. ASSUME Inv, [Next]_vars, NEW r \in Request, req[r].at = "write", req[r].alone,
             req'[r] = Idle(TRUE)
      PROVE  Effect(rows'[req[r].in.username], rows[req[r].in.username], req[r].in)
  <2>1. UpdateCommits(r)
    BY <1>1, UpdateEndsWell
  <2> DEFINE Committed(in, last) ==
             /\ in.username = req[r].in.username /\ in.username \in User
             /\ req[r].alone => in = req[r].in /\ req[r].map \in MapsOf(rows, in)
             /\ Password \notin DOMAIN req[r].map
             /\ rows \in [User -> Row]
             /\ rows' = [rows EXCEPT ![in.username] = UpdateRow(rows[in.username], req[r].map, in, last)]
  <2>2. PICK in \in HotspotUserInput : \E last \in LastWrites(req[r].map, Entries(in)) : Committed(in, last)
    BY <1>1, <2>1, UpdateCommitted
  <2>3. PICK last \in LastWrites(req[r].map, Entries(in)) : Committed(in, last)
    BY <2>2
  <2>4. /\ in = req[r].in /\ in.username \in User /\ rows[in.username] \in Row
        /\ req[r].map \in CurrentMaps(PasswordUpdate(rows[in.username], in.password))
        /\ Password \notin DOMAIN req[r].map
    BY <1>1, <2>3 DEF MapsOf
  <2>5. rows'[in.username] = UpdateRow(rows[in.username], req[r].map, in, last)
    BY <2>3
  <2> QED
    BY <2>4, <2>5, UpdatedRow
<1>2. Inv /\ [Next]_vars =>
        [\A r \in Request :
           req[r].at = "write" /\ req[r].alone /\ req'[r] = Idle(TRUE)
             => LET u == req[r].in.username IN Effect(rows'[u], rows[u], req[r].in)]_vars
  BY <1>1
<1> QED
  BY <1>2, InvHolds, PTL DEF Spec, UpdateTakesEffect

=============================================================================
