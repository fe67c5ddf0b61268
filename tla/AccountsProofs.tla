--------------------------- MODULE AccountsProofs ---------------------------
(***************************************************************************)
(* Theorems about Accounts, for any people, organizations, matters,        *)
(* filings and any number of overlapping requests.                         *)
(***************************************************************************)
EXTENDS Accounts, TLAPS

\* What a call holds, by its endpoint, and what its checks have found and
\* nothing takes back: rows other than filings are never deleted.
SignUpRows(c) ==
  op[c] \in SignUps /\ who[c] \in People /\ rows[c] = {User(who[c])}

OrganizationRows(c) ==
  /\ op[c] = "create_organization"
  /\ \E s \in Slugs : rows[c] = {Org(s), Member(who[c], s, "owner")}

MemberRows(c) ==
  /\ op[c] = "add_member"
  /\ \E q \in People, s \in Slugs, role \in Roles :
       rows[c] = {Member(q, s, role)} /\ User(q) \in db /\ Org(s) \in db

MatterRows(c) ==
  /\ op[c] = "create_matter" /\ who[c] \in People
  /\ \E m \in Matters, s \in OrgsOf(who[c]) : rows[c] = {Matter(m, s), Access(m, who[c])}

FilingRows(c) ==
  /\ op[c] \in {"create_filing", "update_filing"}
  /\ \E f \in Filings, s \in Slugs, m \in Matters :
       rows[c] = {Filing(f, s, m)} /\ Matter(m, s) \in db

CallInv(c) ==
  /\ \/ op[c] \in {"none", "any", "add_member"} /\ rows[c] = {}
     \/ SignUpRows(c) \/ OrganizationRows(c) \/ MemberRows(c) \/ MatterRows(c) \/ FilingRows(c)
  /\ step[c] = "idle" => rows[c] = {}
  /\ step[c] \in {"written", "answered"} => ~UserMissing(c)

\* Memberships have a user and an organization.
MembersInv == \A p \in People \union {Nobody}, s \in Slugs, role \in Roles :
  Member(p, s, role) \in db => User(p) \in db /\ Org(s) \in db

Inv ==
  /\ TypeOK
  /\ \A c \in Calls : CallInv(c)
  /\ MembersInv
  /\ OrganizationsHaveOwners
  /\ MattersStayInside

\* Every row is of one of six tables.
LEMMA RowKinds ==
  ASSUME NEW x \in Rows
  PROVE  \/ \E p \in People : x = User(p)
         \/ \E s \in Slugs : x = Org(s)
         \/ \E p \in People \union {Nobody}, s \in Slugs, role \in Roles : x = Member(p, s, role)
         \/ \E m \in Matters, s \in Slugs : x = Matter(m, s)
         \/ \E m \in Matters, p \in People : x = Access(m, p)
         \/ \E f \in Filings, s \in Slugs, m \in Matters : x = Filing(f, s, m)
  BY DEF Rows

\* A stored user is one of the people.
LEMMA UserIsPerson ==
  ASSUME NEW p, User(p) \in Rows
  PROVE  p \in People
  BY DEF Rows, User, Org, Member, Matter, Access, Filing

\* What a call is going to store has the types of rows.
LEMMA CallRows ==
  ASSUME NEW c \in Calls, who[c] \in People \union {Nobody}, CallInv(c)
  PROVE  rows[c] \subseteq Rows
<1>1. CASE rows[c] = {}
  BY <1>1
<1>2. CASE SignUpRows(c)
  BY <1>2 DEF SignUpRows, Rows
<1>3. CASE OrganizationRows(c)
  BY <1>3 DEF OrganizationRows, Rows, Roles
<1>4. CASE MemberRows(c)
  BY <1>4 DEF MemberRows, Rows
<1>5. CASE MatterRows(c)
  BY <1>5 DEF MatterRows, OrgsOf, Rows
<1>6. CASE FilingRows(c)
  BY <1>6 DEF FilingRows, Rows
<1> QED
  BY <1>1, <1>2, <1>3, <1>4, <1>5, <1>6 DEF CallInv

\* The tables each endpoint writes to.
LEMMA RowTables ==
  ASSUME NEW c \in Calls
  PROVE  /\ SignUpRows(c) => \A x \in rows[c] : x[1] = "user"
         /\ OrganizationRows(c) => \A x \in rows[c] : x[1] \in {"org", "member"}
         /\ MemberRows(c) => \A x \in rows[c] : x[1] = "member"
         /\ MatterRows(c) => \A x \in rows[c] : x[1] \in {"matter", "access"}
         /\ FilingRows(c) => \A x \in rows[c] : x[1] = "filing"
<1>1. SignUpRows(c) => \A x \in rows[c] : x[1] = "user"
  BY DEF SignUpRows, User
<1>2. OrganizationRows(c) => \A x \in rows[c] : x[1] \in {"org", "member"}
  BY DEF OrganizationRows, Org, Member
<1>3. MemberRows(c) => \A x \in rows[c] : x[1] = "member"
  BY DEF MemberRows, Member
<1>4. MatterRows(c) => \A x \in rows[c] : x[1] \in {"matter", "access"}
  BY DEF MatterRows, Matter, Access
<1>5. FilingRows(c) => \A x \in rows[c] : x[1] = "filing"
  BY DEF FilingRows, Filing
<1> QED
  BY <1>1, <1>2, <1>3, <1>4, <1>5

\* Nothing but filings is deleted.
Lasting(old, new) == \A x \in old : x[1] # "filing" => x \in new

LEMMA LastingRows ==
  ASSUME Lasting(db, db')
  PROVE  /\ \A p : User(p) \in db => User(p) \in db'
         /\ \A s : Org(s) \in db => Org(s) \in db'
         /\ \A p, s, role : Member(p, s, role) \in db => Member(p, s, role) \in db'
         /\ \A m, s : Matter(m, s) \in db => Matter(m, s) \in db'
         /\ \A m, p : Access(m, p) \in db => Access(m, p) \in db'
         /\ \A p : OrgsOf(p) \subseteq OrgsOf(p)'
<1>1. /\ \A p : User(p) \in db => User(p) \in db'
      /\ \A s : Org(s) \in db => Org(s) \in db'
  BY DEF Lasting, User, Org
<1>2. \A p, s, role : Member(p, s, role) \in db => Member(p, s, role) \in db'
  BY DEF Lasting, Member
<1>3. /\ \A m, s : Matter(m, s) \in db => Matter(m, s) \in db'
      /\ \A m, p : Access(m, p) \in db => Access(m, p) \in db'
  BY DEF Lasting, Matter, Access
<1>4. \A p : OrgsOf(p) \subseteq OrgsOf(p)'
  BY <1>2 DEF OrgsOf
<1> QED
  BY <1>1, <1>2, <1>3, <1>4

\* A call that stands still keeps its invariant while nothing is deleted that
\* it relies on.
LEMMA CallStays ==
  ASSUME NEW c \in Calls, CallInv(c), Lasting(db, db'),
         op'[c] = op[c], who'[c] = who[c], rows'[c] = rows[c],
         step'[c] \in {"written", "answered"} => step[c] \in {"written", "answered"},
         step'[c] = "idle" => step[c] = "idle"
  PROVE  CallInv(c)'
<1>1. ~UserMissing(c) => ~UserMissing(c)'
  BY LastingRows DEF UserMissing
<1>2. SignUpRows(c) => SignUpRows(c)'
  BY DEF SignUpRows
<1>3. OrganizationRows(c) => OrganizationRows(c)'
  BY DEF OrganizationRows
<1>4. MemberRows(c) => MemberRows(c)'
  BY LastingRows DEF MemberRows
<1>5. MatterRows(c) => MatterRows(c)'
  BY LastingRows DEF MatterRows
<1>6. FilingRows(c) => FilingRows(c)'
  BY LastingRows DEF FilingRows
<1> QED
  BY <1>1, <1>2, <1>3, <1>4, <1>5, <1>6 DEF CallInv

\* No collision is reported where no key is the same, and none is overlooked.
LEMMA SameRowCollides ==
  ASSUME NEW new, NEW old, NEW x \in new, x \in old
  PROVE  Collide(new, old)
  BY DEF Collide, SameKey

\* A call that begins stores nothing yet.
LEMMA BeginKeeps ==
  ASSUME Inv, NEW c \in Calls, NEW e \in Endpoints, NEW p \in People \union {Nobody},
         NEW new \in SUBSET Rows, Begin(c, e, p, new),
         \/ SignUpRows(c)' \/ OrganizationRows(c)' \/ MemberRows(c)' \/ MatterRows(c)'
         \/ FilingRows(c)'
  PROVE  Inv'
<1> USE DEF Inv
<1>1. TypeOK'
  BY DEF TypeOK, Begin, Steps, Collide
<1>2. db' = db /\ Lasting(db, db')
  BY DEF Begin, Lasting
<1>3. ASSUME NEW d \in Calls PROVE CallInv(d)'
  <2>1. CASE d = c
    <3>1. step'[c] = "writing"
      BY DEF Begin, TypeOK
    <3> QED
      BY <2>1, <3>1 DEF CallInv
  <2>2. CASE d # c
    <3>1. /\ op'[d] = op[d] /\ who'[d] = who[d] /\ rows'[d] = rows[d]
          /\ step'[d] = step[d]
      BY <2>2 DEF Begin, TypeOK
    <3> QED
      BY <1>2, <3>1, CallStays
  <2> QED
    BY <2>1, <2>2
<1>4. MembersInv' /\ OrganizationsHaveOwners' /\ MattersStayInside'
  BY <1>2 DEF MembersInv, OrganizationsHaveOwners, MattersStayInside, Manages, OrgsOf
<1> QED
  BY <1>1, <1>3, <1>4

\* What Begin makes of a call.
LEMMA BeginSets ==
  ASSUME TypeOK, NEW c \in Calls, NEW e, NEW p, NEW new, Begin(c, e, p, new)
  PROVE  /\ op'[c] = e /\ who'[c] = p /\ rows'[c] = new /\ step[c] = "idle"
         /\ known'[c] = Collide(new, db) /\ db' = db /\ tokens' = tokens
  BY DEF Begin, TypeOK

\* Only people act for an organization: the membership of a user without a row
\* cannot be stored.
LEMMA MembersArePeople ==
  ASSUME Inv, NEW p \in People \union {Nobody}, NEW s \in OrgsOf(p)
  PROVE  p \in People /\ Org(s) \in db
<1>1. PICK role \in Roles : Member(p, s, role) \in db
  BY DEF OrgsOf
<1>2. User(p) \in db /\ Org(s) \in db
  BY <1>1 DEF Inv, MembersInv, OrgsOf
<1> QED
  BY <1>2, UserIsPerson DEF Inv, TypeOK

LEMMA UsersKeep ==
  ASSUME Inv, NEW c \in Calls, Users(c)
  PROVE  Inv'
<1>1. PICK p \in People, e \in SignUps : Begin(c, e, p, {User(p)})
  BY DEF Users, Register, GoogleSignUp, SignUps
<1>2. SignUpRows(c)'
  BY <1>1, BeginSets DEF SignUpRows, Inv
<1>3. {User(p)} \in SUBSET Rows /\ e \in Endpoints
  BY DEF Rows, Endpoints, SignUps
<1> QED
  BY <1>1, <1>2, <1>3, BeginKeeps

LEMMA OrganizationsKeep ==
  ASSUME Inv, NEW c \in Calls, Organizations(c)
  PROVE  Inv'
<1>1. PICK p \in tokens, s \in Slugs :
        \/ CreateOrganization(c, p, s)
        \/ \E q \in People, role \in Roles : AddMember(c, p, s, q, role)
  BY DEF Organizations
<1>2. p \in People \union {Nobody}
  BY DEF Inv, TypeOK
<1>3. CASE CreateOrganization(c, p, s)
  <2> DEFINE new == {Org(s), Member(p, s, "owner")}
  <2>1. Begin(c, "create_organization", p, new)
    BY <1>3 DEF CreateOrganization
  <2>2. new \in SUBSET Rows /\ "create_organization" \in Endpoints
    BY <1>2 DEF Rows, Roles, Endpoints
  <2>3. OrganizationRows(c)'
    BY <2>1, BeginSets DEF OrganizationRows, Inv
  <2> QED
    BY <1>2, <2>1, <2>2, <2>3, BeginKeeps
<1>4. CASE \E q \in People, role \in Roles : AddMember(c, p, s, q, role)
  <2>1. PICK q \in People, role \in Roles : AddMember(c, p, s, q, role)
    BY <1>4
  <2> DEFINE new == {Member(q, s, role)}
  <2>2. Begin(c, "add_member", p, new) /\ User(q) \in db /\ Member(p, s, "owner") \in db
    BY <2>1 DEF AddMember, MayAdd, Manages
  <2>3. Org(s) \in db
    BY <1>2, <2>2 DEF Inv, MembersInv, Roles
  <2>4. new \in SUBSET Rows /\ "add_member" \in Endpoints
    BY DEF Rows, Endpoints
  <2>5. op'[c] = "add_member" /\ rows'[c] = {Member(q, s, role)} /\ db' = db
    BY <2>2, BeginSets DEF Inv
  <2>6. MemberRows(c)'
    BY <2>2, <2>3, <2>5 DEF MemberRows
  <2> QED
    BY <1>2, <2>2, <2>4, <2>6, BeginKeeps
<1> QED
  BY <1>1, <1>3, <1>4

LEMMA PracticeKeep ==
  ASSUME Inv, NEW c \in Calls, Practice(c)
  PROVE  Inv'
<1>1. PICK p \in tokens, s \in Slugs, m \in Matters :
        \/ CreateMatter(c, p, m, s)
        \/ \E f \in Filings : CreateFiling(c, p, f, s, m) \/ UpdateFiling(c, p, f, s, m)
  BY DEF Practice
<1>2. p \in People \union {Nobody} /\ (ActsFor(p, s) => s \in OrgsOf(p))
  BY DEF Inv, TypeOK, ActsFor
<1>3. CASE CreateMatter(c, p, m, s)
  <2> DEFINE new == {Matter(m, s), Access(m, p)}
  <2>1. Begin(c, "create_matter", p, new) /\ ActsFor(p, s)
    BY <1>3 DEF CreateMatter
  <2>2. p \in People
    BY <1>2, <2>1, MembersArePeople
  <2>3. new \in SUBSET Rows /\ "create_matter" \in Endpoints
    BY <2>2 DEF Rows, Endpoints
  <2>4. /\ op'[c] = "create_matter" /\ who'[c] = p /\ db' = db
        /\ rows'[c] = {Matter(m, s), Access(m, p)}
    BY <2>1, BeginSets DEF Inv
  <2>5. s \in OrgsOf(p)'
    BY <1>2, <2>1, <2>4 DEF OrgsOf
  <2>6. MatterRows(c)'
    BY <2>2, <2>4, <2>5 DEF MatterRows
  <2> QED
    BY <1>2, <2>1, <2>3, <2>6, BeginKeeps
<1>4. CASE \E f \in Filings : CreateFiling(c, p, f, s, m) \/ UpdateFiling(c, p, f, s, m)
  <2>1. PICK f \in Filings : CreateFiling(c, p, f, s, m) \/ UpdateFiling(c, p, f, s, m)
    BY <1>4
  <2>2. PICK e \in {"create_filing", "update_filing"} : Begin(c, e, p, {Filing(f, s, m)})
    BY <2>1 DEF CreateFiling, UpdateFiling
  <2>3. Matter(m, s) \in db
    BY <2>1 DEF CreateFiling, UpdateFiling, Inv, MattersStayInside
  <2>4. {Filing(f, s, m)} \in SUBSET Rows /\ e \in Endpoints
    BY DEF Rows, Endpoints
  <2>5. op'[c] = e /\ rows'[c] = {Filing(f, s, m)} /\ db' = db
    BY <2>2, BeginSets DEF Inv
  <2>6. FilingRows(c)'
    BY <2>3, <2>5 DEF FilingRows
  <2> QED
    BY <1>2, <2>2, <2>4, <2>6, BeginKeeps
<1> QED
  BY <1>1, <1>3, <1>4

\* Steps that store nothing and leave the calls as they are or finished.
LEMMA QuietKeeps ==
  ASSUME Inv, TypeOK', db' = db, \A c \in Calls : CallInv(c)'
  PROVE  Inv'
  BY DEF Inv, MembersInv, OrganizationsHaveOwners, MattersStayInside, Manages, OrgsOf

\* A call that is over holds nothing.
LEMMA LeaveCalls ==
  ASSUME TypeOK, \A d \in Calls : CallInv(d), NEW c \in Calls, Leave(c), Lasting(db, db')
  PROVE  /\ \A d \in Calls : CallInv(d)'
         /\ step' \in [Calls -> Steps] /\ op' \in [Calls -> Endpoints \union {"none"}]
         /\ who' \in [Calls -> People \union {Nobody}] /\ rows' \in [Calls -> SUBSET Rows]
         /\ known' \in [Calls -> BOOLEAN]
<1>1. CallInv(c)'
  BY DEF Leave, CallInv, TypeOK
<1>2. ASSUME NEW d \in Calls \ {c} PROVE CallInv(d)'
  <2>1. op'[d] = op[d] /\ who'[d] = who[d] /\ rows'[d] = rows[d] /\ step'[d] = step[d]
    BY DEF Leave, TypeOK
  <2> QED
    BY <2>1, CallStays
<1>3. /\ step' \in [Calls -> Steps] /\ op' \in [Calls -> Endpoints \union {"none"}]
      /\ who' \in [Calls -> People \union {Nobody}] /\ rows' \in [Calls -> SUBSET Rows]
      /\ known' \in [Calls -> BOOLEAN]
  BY DEF Leave, TypeOK, Steps
<1> QED
  BY <1>1, <1>2, <1>3

LEMMA WriteKeeps ==
  ASSUME Inv, NEW c \in Calls, Write(c)
  PROVE  Inv'
<1>1. TypeOK'
  BY DEF Inv, TypeOK, Write, Becomes, Steps
<1>2. db' = db /\ Lasting(db, db')
  BY DEF Write, Lasting
<1>3. ASSUME NEW d \in Calls \ {c} PROVE CallInv(d)'
  <2>1. op'[d] = op[d] /\ who'[d] = who[d] /\ rows'[d] = rows[d] /\ step'[d] = step[d]
    BY DEF Write, Becomes, Inv, TypeOK
  <2> QED
    BY <1>2, <2>1, CallStays DEF Inv
<1>4. CallInv(c)'
  <2>1. /\ op'[c] = op[c] /\ who'[c] = who[c] /\ rows'[c] = rows[c]
        /\ step'[c] = IF WriteFails(c) THEN "error" ELSE "written"
    BY DEF Write, Becomes, Inv, TypeOK
  <2>2. ~WriteFails(c) => ~UserMissing(c)
    <3>1. op[c] = "update_filing" => FilingRows(c)
      BY DEF Inv, CallInv, SignUpRows, SignUps, OrganizationRows, MemberRows, MatterRows
    <3>2. FilingRows(c) => ~UserMissing(c)
      BY DEF FilingRows, UserMissing, Filing
    <3> QED
      BY <3>1, <3>2 DEF WriteFails
  <2>3. /\ SignUpRows(c) => SignUpRows(c)'
        /\ OrganizationRows(c) => OrganizationRows(c)'
        /\ MemberRows(c) => MemberRows(c)'
    BY <1>2, <2>1 DEF SignUpRows, OrganizationRows, MemberRows
  <2>4. /\ MatterRows(c) => MatterRows(c)'
        /\ FilingRows(c) => FilingRows(c)'
    BY <1>2, <2>1 DEF MatterRows, OrgsOf, FilingRows
  <2>5. UserMissing(c)' => UserMissing(c)
    BY <1>2, <2>1 DEF UserMissing
  <2> QED
    BY <2>1, <2>2, <2>3, <2>4, <2>5 DEF Inv, CallInv
<1> QED
  BY <1>1, <1>2, <1>3, <1>4, QuietKeeps

LEMMA AnswerKeeps ==
  ASSUME Inv, NEW c \in Calls, Answer(c)
  PROVE  Inv'
<1>1. TypeOK'
  BY DEF Inv, TypeOK, Answer, Becomes, Steps
<1>2. db' = db /\ Lasting(db, db')
  BY DEF Answer, Lasting
<1>3. ASSUME NEW d \in Calls PROVE CallInv(d)'
  <2>1. /\ op'[d] = op[d] /\ who'[d] = who[d] /\ rows'[d] = rows[d]
        /\ step'[d] \in {"written", "answered"} => step[d] \in {"written", "answered"}
        /\ step'[d] = "idle" => step[d] = "idle"
    BY DEF Answer, Becomes, Inv, TypeOK
  <2> QED
    BY <1>2, <2>1, CallStays DEF Inv
<1> QED
  BY <1>1, <1>2, <1>3, QuietKeeps

\* A call stores its rows only after the flush has found its users.
LEMMA CommitKeeps ==
  ASSUME Inv, NEW c \in Calls, Commit(c)
  PROVE  Inv'
<1> DEFINE new == rows[c]
<1>1. /\ db' = db \union new /\ tokens' = tokens /\ Leave(c) /\ Lasting(db, db')
      /\ new \in SUBSET Rows /\ actor' \in People \union {Nobody}
  BY DEF Commit, Lasting, Inv, TypeOK
<1>2. TypeOK' /\ \A d \in Calls : CallInv(d)'
  BY <1>1, LeaveCalls DEF Inv, TypeOK
<1>3. CallInv(c) /\ ~UserMissing(c)
  BY DEF Inv, CallInv, Commit
<1>4. ASSUME NEW p \in People \union {Nobody}, NEW s \in Slugs, NEW role \in Roles,
             Member(p, s, role) \in new
      PROVE  User(p) \in db /\ Org(s) \in db'
  <2>1. User(p) \in db
    BY <1>3, <1>4 DEF UserMissing, Member
  <2>2. OrganizationRows(c) => Org(s) \in new
    BY <1>4 DEF OrganizationRows, Org, Member
  <2>3. MemberRows(c) => Org(s) \in db
    BY <1>4 DEF MemberRows, Org, Member
  <2>4. OrganizationRows(c) \/ MemberRows(c)
    BY <1>3, <1>4, RowTables DEF CallInv, Member
  <2> QED
    BY <1>1, <2>1, <2>2, <2>3, <2>4
<1>5. MembersInv'
  BY <1>1, <1>4 DEF MembersInv, Inv
<1>6. ASSUME NEW s \in Slugs, Org(s) \in new
      PROVE  \E p \in People : Member(p, s, "owner") \in db'
  <2>1. OrganizationRows(c)
    BY <1>3, <1>6, RowTables DEF CallInv, Org
  <2>2. Member(who[c], s, "owner") \in new
    BY <1>6, <2>1 DEF OrganizationRows, Org, Member
  <2>3. User(who[c]) \in db
    BY <1>3, <2>2 DEF UserMissing, Member
  <2>4. who[c] \in People
    BY <2>3, UserIsPerson DEF Inv, TypeOK
  <2> QED
    BY <1>1, <2>2, <2>4
<1>7. OrganizationsHaveOwners'
  BY <1>1, <1>6 DEF OrganizationsHaveOwners, Manages, Inv
<1>8. ASSUME NEW m \in Matters, NEW p \in People, Access(m, p) \in new
      PROVE  \E s \in OrgsOf(p)' : Matter(m, s) \in db'
  <2>1. MatterRows(c)
    BY <1>3, <1>8, RowTables DEF CallInv, Access
  <2>2. PICK s \in OrgsOf(who[c]) : Matter(m, s) \in new /\ p = who[c]
    BY <1>8, <2>1 DEF MatterRows, Matter, Access
  <2> QED
    BY <1>1, <2>2, LastingRows
<1>9. ASSUME NEW f \in Filings, NEW s \in Slugs, NEW m \in Matters, Filing(f, s, m) \in new
      PROVE  Matter(m, s) \in db'
  <2>1. FilingRows(c)
    BY <1>3, <1>9, RowTables DEF CallInv, Filing
  <2>2. Matter(m, s) \in db
    BY <1>9, <2>1 DEF FilingRows, Filing
  <2> QED
    BY <1>1, <2>2
<1>10. ASSUME NEW m \in Matters, NEW p \in People, Access(m, p) \in db
       PROVE  \E s \in OrgsOf(p)' : Matter(m, s) \in db'
  <2>1. PICK s \in OrgsOf(p) : Matter(m, s) \in db
    BY <1>10 DEF Inv, MattersStayInside
  <2> QED
    BY <1>1, <2>1, LastingRows
<1>11. MattersStayInside'
  BY <1>1, <1>8, <1>9, <1>10 DEF MattersStayInside, Inv
<1> QED
  BY <1>2, <1>5, <1>7, <1>11 DEF Inv

\* Calls that end without storing anything.
LEMMA EndKeeps ==
  ASSUME Inv, NEW c \in Calls, CommitLost(c) \/ RollBack(c)
  PROVE  Inv'
<1>1. db' = db /\ actor' = actor /\ Lasting(db, db') /\ Leave(c)
  BY DEF CommitLost, RollBack, Lasting
<1>2. tokens' \subseteq People \union {Nobody}
  BY DEF CommitLost, RollBack, Inv, TypeOK
<1>3. TypeOK' /\ \A d \in Calls : CallInv(d)'
  BY <1>1, <1>2, LeaveCalls DEF Inv, TypeOK
<1> QED
  BY <1>1, <1>3, QuietKeeps

\* Two kinds of request raise before they write.
LEMMA RaisesOnly ==
  /\ \A c \in Calls, p \in People : MembershipFails(c, p) => Raises(c, "any", p)
  /\ \A c \in Calls, p \in tokens, s \in Slugs, q \in People :
       AddMemberRaises(c, p, s, q) => Raises(c, "add_member", p)
  BY DEF MembershipFails, AddMemberRaises

LEMMA OthersKeep ==
  ASSUME Inv, [Next]_vars, ~\E c \in Calls : Users(c) \/ Organizations(c) \/ Practice(c) \/ Finish(c)
  PROVE  Inv'
<1>1. ASSUME NEW c \in Calls, NEW e \in {"any", "add_member"}, NEW p \in People \union {Nobody},
             Raises(c, e, p)
      PROVE  Inv'
  <2>1. TypeOK'
    BY <1>1 DEF Raises, Inv, TypeOK, Steps, Endpoints
  <2>2. db' = db /\ Lasting(db, db') /\ rows' = rows
    BY <1>1 DEF Raises, Lasting
  <2>3. CallInv(c)'
    <3>1. rows[c] = {}
      BY <1>1 DEF Raises, Inv, CallInv
    <3>2. op'[c] = e /\ step'[c] = "error"
      BY <1>1 DEF Raises, Inv, TypeOK
    <3> QED
      BY <1>1, <2>2, <3>1, <3>2 DEF CallInv
  <2>4. ASSUME NEW d \in Calls \ {c} PROVE CallInv(d)'
    <3>1. op'[d] = op[d] /\ who'[d] = who[d] /\ rows'[d] = rows[d] /\ step'[d] = step[d]
      BY <1>1 DEF Raises, Inv, TypeOK
    <3> QED
      BY <2>2, <3>1, CallStays DEF Inv
  <2> QED
    BY <2>1, <2>2, <2>3, <2>4, QuietKeeps
<1>2. ASSUME NEW p \in People, SignIn(p) PROVE Inv'
  <2>1. TypeOK'
    BY <1>2 DEF SignIn, callVars, Inv, TypeOK
  <2>2. ASSUME NEW c \in Calls PROVE CallInv(c)'
    BY <1>2, CallStays DEF SignIn, callVars, Inv, Lasting
  <2> QED
    BY <1>2, <2>1, <2>2, QuietKeeps DEF SignIn
<1>3. ASSUME NEW p \in tokens, NEW f \in Filings, NEW s \in Slugs, NEW m \in Matters,
             DeleteFiling(p, f, s, m)
      PROVE  Inv'
  <2>1. TypeOK' /\ Lasting(db, db') /\ db' \subseteq db
    BY <1>3 DEF DeleteFiling, callVars, Inv, TypeOK, Lasting, Filing
  <2>2. ASSUME NEW c \in Calls PROVE CallInv(c)'
    BY <1>3, <2>1, CallStays DEF DeleteFiling, callVars, Inv
  <2>3. MembersInv'
    BY <2>1, LastingRows DEF MembersInv, Inv
  <2>4. OrganizationsHaveOwners'
    BY <2>1, LastingRows DEF OrganizationsHaveOwners, Manages, Inv
  <2>5. \A n \in Matters, x \in People : Access(n, x) \in db' =>
          \E t \in OrgsOf(x)' : Matter(n, t) \in db'
    BY <2>1, LastingRows DEF MattersStayInside, Inv
  <2>6. MattersStayInside'
    BY <2>1, <2>5, LastingRows DEF MattersStayInside, Inv
  <2> QED
    BY <2>1, <2>2, <2>3, <2>4, <2>6 DEF Inv
<1>4. CASE UNCHANGED vars
  <2>1. TypeOK'
    BY <1>4 DEF vars, callVars, Inv, TypeOK
  <2>2. ASSUME NEW c \in Calls PROVE CallInv(c)'
    BY <1>4, CallStays DEF vars, callVars, Inv, Lasting
  <2> QED
    BY <1>4, <2>1, <2>2, QuietKeeps DEF vars
<1>5. tokens \subseteq People \union {Nobody}
  BY DEF Inv, TypeOK
<1> QED
  BY <1>1, <1>2, <1>3, <1>4, <1>5, RaisesOnly DEF Next

LEMMA InvStep == Inv /\ [Next]_vars => Inv'
  BY UsersKeep, OrganizationsKeep, PracticeKeep, WriteKeeps, AnswerKeeps, CommitKeeps,
     EndKeeps, OthersKeep
     DEF Finish

LEMMA Invariance == Spec => []Inv
<1>1. Init => Inv
  BY ConstantsAssumption
     DEF Init, Inv, TypeOK, Steps, CallInv, MembersInv, OrganizationsHaveOwners,
         MattersStayInside
<1> QED
  BY <1>1, InvStep, PTL DEF Spec

\* TypeOK: also a call whose caller has lost its row writes only typed rows.
THEOREM TypeCorrect == Spec => []TypeOK
<1>1. Inv => TypeOK
  BY DEF Inv
<1> QED
  BY <1>1, Invariance, PTL

\* OrganizationsHaveOwners: the foreign key at the flush is what keeps an
\* organization from being stored without its owner.
THEOREM OwnerSafety == Spec => []OrganizationsHaveOwners
<1>1. Inv => OrganizationsHaveOwners
  BY DEF Inv
<1> QED
  BY <1>1, Invariance, PTL

\* MattersStayInside: nobody gets access to a matter of a foreign organization.
THEOREM InsideSafety == Spec => []MattersStayInside
<1>1. Inv => MattersStayInside
  BY DEF Inv
<1> QED
  BY <1>1, Invariance, PTL

-----------------------------------------------------------------------------
(* Tokens *)

\* A token is backed by a row or by the sign-up that has inserted it.
LEMMA TokensStep == Inv /\ TokensAreBacked /\ [Next]_vars => TokensAreBacked'
<1> SUFFICES ASSUME Inv, TokensAreBacked, [Next]_vars,
                    NEW p \in tokens' \ {Nobody}, User(p) \notin db'
             PROVE  \E c \in Calls : op'[c] \in SignUps /\ who'[c] = p /\ step'[c] = "answered"
  BY DEF TokensAreBacked
<1> USE DEF Inv, TypeOK
<1>1. ASSUME NEW c \in Calls, Answer(c)
      PROVE  \E d \in Calls : op'[d] \in SignUps /\ who'[d] = p /\ step'[d] = "answered"
  <2>1. CASE op[c] \in SignUps /\ p = who[c]
    BY <1>1, <2>1 DEF Answer, Becomes
  <2>2. CASE ~(op[c] \in SignUps /\ p = who[c])
    <3>1. PICK d \in Calls : op[d] \in SignUps /\ who[d] = p /\ step[d] = "answered"
      BY <1>1, <2>2 DEF Answer, TokensAreBacked
    <3> QED
      BY <1>1, <3>1 DEF Answer, Becomes
  <2> QED
    BY <2>1, <2>2
<1>2. ASSUME p \in tokens, User(p) \notin db
      PROVE  \E d \in Calls : op[d] \in SignUps /\ who[d] = p /\ step[d] = "answered"
  BY <1>2 DEF TokensAreBacked
<1>3. ASSUME NEW c \in Calls, NEW e, NEW q, NEW new, Begin(c, e, q, new)
      PROVE  \E d \in Calls : op'[d] \in SignUps /\ who'[d] = p /\ step'[d] = "answered"
  BY <1>2, <1>3 DEF Begin
<1>4. ASSUME NEW c \in Calls, Users(c) \/ Organizations(c) \/ Practice(c)
      PROVE  \E d \in Calls : op'[d] \in SignUps /\ who'[d] = p /\ step'[d] = "answered"
  BY <1>3, <1>4 DEF Users, Register, GoogleSignUp, Organizations, CreateOrganization,
                    AddMember, Practice, CreateMatter, CreateFiling, UpdateFiling
<1>5. ASSUME NEW c \in Calls, Write(c) \/ RollBack(c)
      PROVE  \E d \in Calls : op'[d] \in SignUps /\ who'[d] = p /\ step'[d] = "answered"
  BY <1>2, <1>5 DEF Write, Becomes, RollBack, Leave
<1>6. ASSUME NEW c \in Calls, Commit(c)
      PROVE  \E d \in Calls : op'[d] \in SignUps /\ who'[d] = p /\ step'[d] = "answered"
  <2>1. PICK d \in Calls : op[d] \in SignUps /\ who[d] = p /\ step[d] = "answered"
    BY <1>2, <1>6 DEF Commit
  <2>2. d # c
    <3>1. rows[d] = {User(p)}
      BY <2>1 DEF CallInv, SignUpRows, SignUps, OrganizationRows, MemberRows, MatterRows,
                  FilingRows
    <3> QED
      BY <1>6, <3>1 DEF Commit
  <2> QED
    BY <1>6, <2>1, <2>2 DEF Commit, Leave
<1>7. ASSUME NEW c \in Calls, CommitLost(c)
      PROVE  \E d \in Calls : op'[d] \in SignUps /\ who'[d] = p /\ step'[d] = "answered"
  <2>1. PICK d \in Calls : op[d] \in SignUps /\ who[d] = p /\ step[d] = "answered"
    BY <1>2, <1>7 DEF CommitLost
  <2>2. d # c
    BY <1>7, <2>1 DEF CommitLost
  <2> QED
    BY <1>7, <2>1, <2>2 DEF CommitLost, Leave
<1>8. ASSUME NEW c \in Calls, NEW e, NEW q, Raises(c, e, q)
      PROVE  \E d \in Calls : op'[d] \in SignUps /\ who'[d] = p /\ step'[d] = "answered"
  BY <1>2, <1>8 DEF Raises
<1>9. ASSUME NEW q \in People, SignIn(q)
      PROVE  \E d \in Calls : op'[d] \in SignUps /\ who'[d] = p /\ step'[d] = "answered"
  BY <1>2, <1>9 DEF SignIn, callVars
<1>10. ASSUME NEW q \in tokens, NEW f \in Filings, NEW s \in Slugs, NEW m \in Matters,
              DeleteFiling(q, f, s, m)
       PROVE  \E d \in Calls : op'[d] \in SignUps /\ who'[d] = p /\ step'[d] = "answered"
  <2>1. User(p) \notin db
    BY <1>10 DEF DeleteFiling, User, Filing
  <2> QED
    BY <1>2, <1>10, <2>1 DEF DeleteFiling, callVars
<1>11. CASE UNCHANGED vars
  BY <1>2, <1>11 DEF vars, callVars
<1> QED
  BY <1>1, <1>4, <1>5, <1>6, <1>7, <1>8, <1>9, <1>10, <1>11, RaisesOnly DEF Next, Finish

\* TokensAreBacked, for any number of sign-ups at once.
THEOREM TokenSafety == Spec => []TokensAreBacked
<1>1. Init => TokensAreBacked
  BY DEF Init, TokensAreBacked
<1> QED
  BY <1>1, Invariance, TokensStep, PTL DEF Spec

-----------------------------------------------------------------------------
(* Server errors *)

\* The rows that are stored or about to be.
AllRows == db \union UNION {rows[c] : c \in Calls}

\* What a call inserts had no key among the stored rows when it began, what it
\* changes had one, and a filing is the same wherever it is at hand: its id is
\* not used again while a call holds it.
KnownInv ==
  /\ \A c \in Calls : known[c] <=> op[c] = "update_filing"
  /\ \A x, y \in AllRows : x[1] = "filing" /\ SameKey(x, y) => x = y

\* Rows of the same key as one that is not stored are not stored either.
LEMMA KeysOfUsers ==
  ASSUME db \subseteq Rows, NEW p, User(p) \notin db
  PROVE  \A y \in db : ~SameKey(User(p), y)
<1> SUFFICES ASSUME NEW y \in db, SameKey(User(p), y) PROVE FALSE
  OBVIOUS
<1>1. y[1] = "user" /\ y[2] = p
  BY DEF SameKey, User
<1>2. PICK q \in People : y = User(q)
  BY <1>1, RowKinds DEF Org, Member, Matter, Access, Filing
<1> QED
  BY <1>1, <1>2 DEF User

LEMMA KeysOfOrgs ==
  ASSUME db \subseteq Rows, NEW s, Org(s) \notin db
  PROVE  \A y \in db : ~SameKey(Org(s), y)
<1> SUFFICES ASSUME NEW y \in db, SameKey(Org(s), y) PROVE FALSE
  OBVIOUS
<1>1. y[1] = "org" /\ y[2] = s
  BY DEF SameKey, Org
<1>2. PICK t \in Slugs : y = Org(t)
  BY <1>1, RowKinds DEF User, Member, Matter, Access, Filing
<1> QED
  BY <1>1, <1>2 DEF Org

LEMMA KeysOfMembers ==
  ASSUME db \subseteq Rows, NEW p, NEW s \in Slugs, NEW role, s \notin OrgsOf(p)
  PROVE  \A y \in db : ~SameKey(Member(p, s, role), y)
<1> SUFFICES ASSUME NEW y \in db, SameKey(Member(p, s, role), y) PROVE FALSE
  OBVIOUS
<1>1. y[1] = "member" /\ y[2] = <<p, s>>
  BY DEF SameKey, Member
<1>2. PICK q \in People \union {Nobody}, t \in Slugs, r \in Roles : y = Member(q, t, r)
  BY <1>1, RowKinds DEF User, Org, Matter, Access, Filing
<1>3. q = p /\ t = s
  BY <1>1, <1>2 DEF Member
<1> QED
  BY <1>2, <1>3 DEF OrgsOf

LEMMA KeysOfAccess ==
  ASSUME db \subseteq Rows, MattersStayInside, NEW m, NEW p, NEW s, IsNew({Matter(m, s)})
  PROVE  \A y \in db : ~SameKey(Access(m, p), y)
<1> SUFFICES ASSUME NEW y \in db, SameKey(Access(m, p), y) PROVE FALSE
  OBVIOUS
<1>1. y[1] = "access" /\ y[2] = <<m, p>>
  BY DEF SameKey, Access
<1>2. PICK n \in Matters, q \in People : y = Access(n, q)
  BY <1>1, RowKinds DEF User, Org, Member, Matter, Filing
<1>3. n = m
  BY <1>1, <1>2 DEF Access
<1>4. PICK t \in OrgsOf(q) : Matter(m, t) \in db
  BY <1>2, <1>3 DEF MattersStayInside
<1>5. SameKey(Matter(m, s), Matter(m, t))
  BY DEF SameKey, Matter
<1> QED
  BY <1>4, <1>5 DEF IsNew, Collide

\* A call that begins knows whether its keys are stored, and brings no second
\* filing of one id.
Starts(c, e, p, new) ==
  /\ e \in Endpoints \ {"any"}
  /\ Begin(c, e, p, new)
  /\ Collide(new, db) <=> e = "update_filing"
  /\ \A x \in new, y \in AllRows : x[1] = "filing" /\ SameKey(x, y) => x = y
  /\ \A x, y \in new : x[1] = "filing" => x = y

\* What each endpoint begins with.
LEMMA BeginKnows ==
  ASSUME Inv, KnownInv, NEW c \in Calls, Users(c) \/ Organizations(c) \/ Practice(c)
  PROVE  \E e, p, new : Starts(c, e, p, new)
<1> USE DEF Endpoints, SignUps
<1>a. db \subseteq Rows /\ MattersStayInside /\ MembersInv
  BY DEF Inv, TypeOK
<1>1. CASE Users(c)
  <2>1. PICK e \in SignUps, p \in People : Begin(c, e, p, {User(p)}) /\ User(p) \notin db
    BY <1>1 DEF Users, Register, GoogleSignUp
  <2>2. ~Collide({User(p)}, db)
    BY <1>a, <2>1, KeysOfUsers DEF Collide
  <2>3. Starts(c, e, p, {User(p)})
    BY <2>1, <2>2 DEF Starts, User
  <2> QED
    BY <2>3
<1>2. ASSUME NEW p \in tokens, NEW s \in Slugs, CreateOrganization(c, p, s)
      PROVE  /\ Begin(c, "create_organization", p, {Org(s), Member(p, s, "owner")})
             /\ ~Collide({Org(s), Member(p, s, "owner")}, db)
  <2>1. Org(s) \notin db /\ p \in People \union {Nobody}
    BY <1>2 DEF CreateOrganization, Inv, TypeOK
  <2>2. s \notin OrgsOf(p)
    BY <1>a, <2>1 DEF OrgsOf, MembersInv
  <2> QED
    BY <1>a, <1>2, <2>1, <2>2, KeysOfOrgs, KeysOfMembers DEF CreateOrganization, Collide
<1>3. ASSUME NEW p, NEW s \in Slugs, NEW q, NEW role, AddMember(c, p, s, q, role)
      PROVE  /\ Begin(c, "add_member", p, {Member(q, s, role)})
             /\ ~Collide({Member(q, s, role)}, db)
  BY <1>a, <1>3, KeysOfMembers DEF AddMember, MayAdd, Collide
<1>4. ASSUME NEW p, NEW s, NEW m, CreateMatter(c, p, m, s)
      PROVE  /\ Begin(c, "create_matter", p, {Matter(m, s), Access(m, p)})
             /\ ~Collide({Matter(m, s), Access(m, p)}, db)
  <2>1. ~Collide({Matter(m, s)}, db)
    BY <1>4 DEF CreateMatter, IsNew, Collide
  <2>2. \A y \in db : ~SameKey(Access(m, p), y)
    BY <1>a, <1>4, KeysOfAccess DEF CreateMatter
  <2> QED
    BY <1>4, <2>1, <2>2 DEF CreateMatter, Collide
<1>5. ASSUME NEW p, NEW f, NEW s, NEW m, CreateFiling(c, p, f, s, m)
      PROVE  /\ Begin(c, "create_filing", p, {Filing(f, s, m)})
             /\ ~Collide({Filing(f, s, m)}, db)
             /\ \A y \in AllRows : ~SameKey(Filing(f, s, m), y)
  BY <1>5 DEF CreateFiling, IsNew, Collide, AllRows
<1>6. ASSUME NEW p, NEW f, NEW s, NEW m, UpdateFiling(c, p, f, s, m)
      PROVE  /\ Begin(c, "update_filing", p, {Filing(f, s, m)})
             /\ Collide({Filing(f, s, m)}, db)
             /\ Filing(f, s, m) \in AllRows
  BY <1>6, SameRowCollides DEF UpdateFiling, AllRows
<1>7. CASE Organizations(c)
  <2>1. \A p, s, q, role : Org(s)[1] # "filing" /\ Member(q, s, role)[1] # "filing"
    BY DEF Org, Member
  <2>2. PICK p \in tokens, s \in Slugs :
          CreateOrganization(c, p, s) \/ \E q \in People, role \in Roles : AddMember(c, p, s, q, role)
    BY <1>7 DEF Organizations
  <2>3. CASE CreateOrganization(c, p, s)
    <3>1. Starts(c, "create_organization", p, {Org(s), Member(p, s, "owner")})
      BY <1>2, <2>1, <2>3 DEF Starts
    <3> QED
      BY <3>1
  <2>4. CASE \E q \in People, role \in Roles : AddMember(c, p, s, q, role)
    <3>1. PICK q \in People, role \in Roles : AddMember(c, p, s, q, role)
      BY <2>4
    <3>2. Starts(c, "add_member", p, {Member(q, s, role)})
      BY <1>3, <2>1, <3>1 DEF Starts
    <3> QED
      BY <3>2
  <2> QED
    BY <2>2, <2>3, <2>4
<1>8. CASE Practice(c)
  <2>1. PICK p \in tokens, s \in Slugs, m \in Matters :
          \/ CreateMatter(c, p, m, s)
          \/ \E f \in Filings : CreateFiling(c, p, f, s, m) \/ UpdateFiling(c, p, f, s, m)
    BY <1>8 DEF Practice
  <2>2. CASE CreateMatter(c, p, m, s)
    <3>1. Matter(m, s)[1] # "filing" /\ Access(m, p)[1] # "filing"
      BY DEF Matter, Access
    <3>2. Starts(c, "create_matter", p, {Matter(m, s), Access(m, p)})
      BY <1>4, <2>2, <3>1 DEF Starts
    <3> QED
      BY <3>2
  <2>3. CASE \E f \in Filings : CreateFiling(c, p, f, s, m)
    <3>1. PICK f \in Filings : CreateFiling(c, p, f, s, m)
      BY <2>3
    <3>2. Starts(c, "create_filing", p, {Filing(f, s, m)})
      <4> DEFINE new == {Filing(f, s, m)}
      <4>1. Begin(c, "create_filing", p, new) /\ ~Collide(new, db)
        BY <1>5, <3>1
      <4>2. \A x \in new, y \in AllRows : ~SameKey(x, y)
        BY <1>5, <3>1
      <4>3. \A x, y \in new : x = y
        OBVIOUS
      <4>4. "create_filing" \in Endpoints \ {"any"} /\ "create_filing" # "update_filing"
        OBVIOUS
      <4> HIDE DEF new
      <4>5. Collide(new, db) <=> "create_filing" = "update_filing"
        BY <4>1, <4>4
      <4>6. \A x \in new, y \in AllRows : x[1] = "filing" /\ SameKey(x, y) => x = y
        BY <4>2
      <4>7. Starts(c, "create_filing", p, new)
        BY <4>1, <4>3, <4>4, <4>5, <4>6 DEF Starts
      <4> QED
        BY <4>7 DEF new
    <3> QED
      BY <3>2
  <2>4. CASE \E f \in Filings : UpdateFiling(c, p, f, s, m)
    <3>1. PICK f \in Filings : UpdateFiling(c, p, f, s, m)
      BY <2>4
    <3>2. Starts(c, "update_filing", p, {Filing(f, s, m)})
      BY <1>6, <3>1 DEF Starts, KnownInv
    <3> QED
      BY <3>2
  <2> QED
    BY <2>1, <2>2, <2>3, <2>4
<1> QED
  BY <1>1, <1>7, <1>8

\* Steps that add no row to those at hand keep KnownInv.
LEMMA KnownKept ==
  ASSUME KnownInv, AllRows' \subseteq AllRows,
         \A c \in Calls : \/ op'[c] # "update_filing" /\ ~known'[c]
                          \/ op'[c] = op[c] /\ known'[c] = known[c]
  PROVE  KnownInv'
  BY DEF KnownInv, SameKey

LEMMA KnownStep == Inv /\ KnownInv /\ [Next]_vars => KnownInv'
<1> SUFFICES ASSUME Inv, KnownInv, [Next]_vars PROVE KnownInv'
  OBVIOUS
<1> USE DEF Inv, TypeOK
<1>1. ASSUME NEW c \in Calls, Users(c) \/ Organizations(c) \/ Practice(c) PROVE KnownInv'
  <2>1. PICK e, p, new : Starts(c, e, p, new)
    BY <1>1, BeginKnows
  <2>2. AllRows' \subseteq AllRows \union new
    BY <2>1 DEF Starts, Begin, AllRows
  <2>3. \A x, y \in AllRows' : x[1] = "filing" /\ SameKey(x, y) => x = y
    <3> SUFFICES ASSUME NEW x \in AllRows \union new, NEW y \in AllRows \union new,
                        x[1] = "filing", SameKey(x, y)
                 PROVE  x = y
      BY <2>2
    <3>1. y[1] = "filing" /\ SameKey(y, x)
      BY DEF SameKey
    <3> QED
      BY <2>1, <3>1 DEF KnownInv, Starts
  <2>4. \A d \in Calls : known'[d] <=> op'[d] = "update_filing"
    BY <2>1 DEF Starts, Begin, KnownInv
  <2> QED
    BY <2>3, <2>4 DEF KnownInv
<1>2. ASSUME NEW c \in Calls, Write(c) \/ Answer(c) PROVE KnownInv'
  BY <1>2, KnownKept DEF Write, Answer, Becomes, AllRows
<1>3. ASSUME NEW c \in Calls, Commit(c) \/ CommitLost(c) \/ RollBack(c) PROVE KnownInv'
  <2>1. AllRows' \subseteq AllRows
    BY <1>3 DEF Commit, CommitLost, RollBack, Leave, AllRows
  <2>2. \A d \in Calls : \/ op'[d] = "none" /\ ~known'[d]
                         \/ op'[d] = op[d] /\ known'[d] = known[d]
    BY <1>3 DEF Commit, CommitLost, RollBack, Leave
  <2> QED
    BY <2>1, <2>2, KnownKept
<1>4. ASSUME NEW c \in Calls, NEW e \in {"any", "add_member"}, NEW p, Raises(c, e, p)
      PROVE  KnownInv'
  <2>1. AllRows' = AllRows
    BY <1>4 DEF Raises, AllRows
  <2>2. op[c] # "update_filing"
    BY <1>4 DEF Raises, CallInv, SignUpRows, SignUps, OrganizationRows, MemberRows, MatterRows,
                FilingRows
  <2>3. ~known'[c] /\ op'[c] # "update_filing"
    BY <1>4, <2>2 DEF Raises, KnownInv
  <2>4. \A d \in Calls \ {c} : op'[d] = op[d] /\ known'[d] = known[d]
    BY <1>4 DEF Raises
  <2> QED
    BY <2>1, <2>3, <2>4, KnownKept
<1>5. ASSUME NEW p \in People, SignIn(p) PROVE KnownInv'
  BY <1>5, KnownKept DEF SignIn, callVars, AllRows
<1>6. ASSUME NEW p, NEW f, NEW s, NEW m, DeleteFiling(p, f, s, m) PROVE KnownInv'
  BY <1>6, KnownKept DEF DeleteFiling, callVars, AllRows
<1>7. CASE UNCHANGED vars
  BY <1>7, KnownKept DEF vars, callVars, AllRows
<1> QED
  BY <1>1, <1>2, <1>3, <1>4, <1>5, <1>6, <1>7, RaisesOnly DEF Next, Finish

\* The causes of an error at a flush.
Explained(c) ==
  \/ Collide(rows[c], db) /\ ~known[c]
  \/ op[c] = "update_filing" /\ known[c] /\ ~Collide(rows[c], db)
  \/ op[c] = "create_organization" /\ User(who[c]) \notin db

\* A flush fails for one of the first three.
LEMMA WriteExplained ==
  ASSUME Inv, KnownInv, NEW c \in Calls, WriteFails(c)
  PROVE  Explained(c)
<1>a. CallInv(c)
  BY DEF Inv
<1>1. CASE op[c] = "update_filing"
  <2>1. FilingRows(c)
    BY <1>a, <1>1 DEF CallInv, SignUpRows, SignUps, OrganizationRows, MemberRows, MatterRows
  <2>2. PICK f \in Filings, s \in Slugs, m \in Matters : rows[c] = {Filing(f, s, m)}
    BY <2>1 DEF FilingRows
  <2>3. Filing(f, s, m) \notin db /\ Filing(f, s, m) \in AllRows /\ Filing(f, s, m)[1] = "filing"
    BY <1>1, <2>2 DEF WriteFails, AllRows, Filing
  <2>4. ~Collide(rows[c], db)
    BY <2>2, <2>3 DEF Collide, KnownInv, AllRows
  <2>5. known[c]
    BY <1>1 DEF KnownInv
  <2> QED
    BY <1>1, <2>4, <2>5 DEF Explained
<1>2. CASE op[c] # "update_filing" /\ Collide(rows[c], db)
  BY <1>2 DEF KnownInv, Explained
<1>3. CASE op[c] # "update_filing" /\ UserMissing(c)
  <2>1. PICK x \in rows[c] : x[1] = "member" /\ User(x[2][1]) \notin db
    BY <1>3 DEF UserMissing
  <2>2. OrganizationRows(c) \/ MemberRows(c)
    BY <1>a, <2>1, RowTables DEF CallInv
  <2>3. ~MemberRows(c)
    BY <2>1 DEF MemberRows, Member
  <2>4. OrganizationRows(c)
    BY <2>2, <2>3
  <2>5. x[2][1] = who[c]
    BY <2>1, <2>4 DEF OrganizationRows, Org, Member
  <2> QED
    BY <2>1, <2>4, <2>5 DEF OrganizationRows, Explained
<1> QED
  BY <1>1, <1>2, <1>3 DEF WriteFails

\* ErrorsExplained: of the errors the model has.  What the checks before an
\* INSERT leave is a call that got in between, a caller without a row or with two
\* memberships, and the role of a new member, which they do not look at.
THEOREM ErrorSafety == Spec => ErrorsExplained
<1>1. ASSUME Inv, KnownInv, [Next]_vars, NEW c \in Calls, step[c] # "error", step'[c] = "error"
      PROVE  \/ Explained(c)
             \/ op'[c] = "add_member" /\ rows'[c] = {}
             \/ MembershipRaises(who'[c])
  <2> USE <1>1 DEF Inv, TypeOK
  <2>1. ASSUME NEW d \in Calls, Users(d) \/ Organizations(d) \/ Practice(d) PROVE FALSE
    <3>1. PICK e, p, new : Starts(d, e, p, new)
      BY <2>1, BeginKnows
    <3> QED
      BY <3>1 DEF Starts, Begin
  <2>2. ASSUME NEW d \in Calls, Write(d) PROVE Explained(c)
    <3>1. c = d /\ WriteFails(c)
      BY <2>2 DEF Write, Becomes
    <3> QED
      BY <3>1, WriteExplained
  <2>3. ASSUME NEW d \in Calls, Answer(d) \/ Commit(d) \/ CommitLost(d) \/ RollBack(d) PROVE FALSE
    BY <2>3 DEF Answer, Becomes, Commit, CommitLost, RollBack, Leave
  <2>4. ASSUME NEW d \in Calls, NEW p \in People, MembershipFails(d, p)
        PROVE  MembershipRaises(who'[c])
    BY <2>4 DEF MembershipFails, Raises
  <2>8. ASSUME NEW d \in Calls, NEW p, NEW s, NEW q, AddMemberRaises(d, p, s, q)
        PROVE  op'[c] = "add_member" /\ rows'[c] = {}
    <3>1. c = d /\ rows' = rows /\ op'[c] = "add_member" /\ step[c] = "idle"
      BY <2>8 DEF AddMemberRaises, Raises
    <3>2. rows[c] = {}
      BY <3>1 DEF CallInv
    <3> QED
      BY <3>1, <3>2
  <2>5. ASSUME NEW p \in People, SignIn(p) PROVE FALSE
    BY <2>5 DEF SignIn, callVars
  <2>6. ASSUME NEW p, NEW f, NEW s, NEW m, DeleteFiling(p, f, s, m) PROVE FALSE
    BY <2>6 DEF DeleteFiling, callVars
  <2>7. CASE UNCHANGED vars
    BY <2>7 DEF vars, callVars
  <2> QED
    BY <2>1, <2>2, <2>3, <2>4, <2>5, <2>6, <2>7, <2>8 DEF Next, Finish
<1>2. Init => KnownInv
  BY DEF Init, KnownInv, AllRows
<1>3. Inv /\ KnownInv /\ [Next]_vars =>
        [\A c \in Calls :
           (step[c] # "error" /\ step'[c] = "error") =>
             \/ Collide(rows[c], db) /\ ~known[c]
             \/ op[c] = "update_filing" /\ known[c] /\ ~Collide(rows[c], db)
             \/ op[c] = "create_organization" /\ User(who[c]) \notin db
             \/ op'[c] = "add_member" /\ rows'[c] = {}
             \/ MembershipRaises(who'[c])]_vars
  BY <1>1 DEF Explained
<1> QED
  BY <1>2, <1>3, Invariance, KnownStep, PTL DEF Spec, ErrorsExplained

-----------------------------------------------------------------------------
(* The refinement of Tenancy *)

\* The call that holds the unique keys of its rows.
Holds(c) == step[c] \in {"written", "answered"}
Inserts(c) == op[c] # "update_filing"

\* What a flush has established stays so until the commit: the keys are free,
\* no other call has them, and a filing that was changed is still there.
HeldInv == \A c \in Calls : Holds(c) =>
  /\ Inserts(c) => ~Collide(rows[c], db)
  /\ ~Inserts(c) => rows[c] \subseteq db
  /\ \A d \in Calls \ {c} :
       Holds(d) /\ Inserts(c) /\ Inserts(d) => ~Collide(rows[c], rows[d])

\* A call that writes for an organization is made by a member, and one that
\* adds a member by an owner: memberships are not taken back.
Entitled(c) ==
  /\ op[c] = "add_member" => who[c] \in People
       /\ \A q \in People, s \in Slugs, role \in Roles :
            Member(q, s, role) \in rows[c] => Manages(who[c], s)
  /\ op[c] \in {"create_filing", "update_filing"} => who[c] \in People
       /\ \A f \in Filings, s \in Slugs, m \in Matters :
            Filing(f, s, m) \in rows[c] => s \in OrgsOf(who[c])

EntitledInv == \A c \in Calls : Entitled(c)

\* A call that is going to commit has something to commit.
AtWorkInv == \A c \in Calls :
  step[c] \in {"writing", "written", "answered"} => rows[c] # {}

LEMMA CollideSymmetric ==
  ASSUME NEW x, NEW y, Collide(x, y)
  PROVE  Collide(y, x)
  BY DEF Collide, SameKey

\* The first step of every handler.
LEMMA HandlersBegin ==
  ASSUME NEW c \in Calls, Users(c) \/ Organizations(c) \/ Practice(c)
  PROVE  \E e \in Endpoints : \E p, new : Begin(c, e, p, new)
  BY DEF Users, Register, GoogleSignUp, Organizations, CreateOrganization, Endpoints,
         AddMember, Practice, CreateMatter, CreateFiling, UpdateFiling

LEMMA HeldStep == Inv /\ HeldInv /\ [Next]_vars => HeldInv'
<1> SUFFICES ASSUME Inv, HeldInv, [Next]_vars PROVE HeldInv'
  OBVIOUS
<1> USE DEF Inv, TypeOK
<1>1. ASSUME db' = db, \A c \in Calls : Holds(c)' => Holds(c) /\ op'[c] = op[c] /\ rows'[c] = rows[c]
      PROVE  HeldInv'
  BY <1>1 DEF HeldInv, Inserts
<1>2. ASSUME NEW c \in Calls, Users(c) \/ Organizations(c) \/ Practice(c) PROVE HeldInv'
  <2>1. \E e \in Endpoints : \E p, new : Begin(c, e, p, new)
    BY <1>2, HandlersBegin
  <2> QED
    BY <1>1, <2>1 DEF Begin, Holds
<1>3. ASSUME NEW c \in Calls, Write(c) PROVE HeldInv'
  <2>1. db' = db /\ op' = op /\ rows' = rows
    BY <1>3 DEF Write, Becomes
  <2>2. \A d \in Calls \ {c} : step'[d] = step[d]
    BY <1>3 DEF Write, Becomes
  <2>3. CASE WriteFails(c)
    <3>1. step'[c] = "error"
      BY <1>3, <2>3 DEF Write, Becomes
    <3> QED
      BY <1>1, <2>1, <2>2, <3>1 DEF Holds
  <2>4. CASE ~WriteFails(c)
    <3>1. /\ Inserts(c) => ~Collide(rows[c], db)
          /\ ~Inserts(c) => rows[c] \subseteq db
      BY <2>4 DEF WriteFails, Inserts
    <3>2. ASSUME NEW d \in Calls \ {c}, Holds(d), Inserts(d)
          PROVE  ~Collide(rows[c], rows[d]) /\ ~Collide(rows[d], rows[c])
      <4>1. rows[d] \subseteq TakenByOthers(c)
        BY <3>2 DEF TakenByOthers, Holds, Inserts
      <4>2. ~Collide(rows[c], rows[d])
        BY <1>3, <4>1 DEF Write, Collide
      <4> QED
        BY <4>2, CollideSymmetric
    <3> QED
      BY <2>1, <2>2, <3>1, <3>2 DEF HeldInv, Holds, Inserts
  <2> QED
    BY <2>3, <2>4
<1>4. ASSUME NEW c \in Calls, Answer(c) PROVE HeldInv'
  BY <1>1, <1>4 DEF Answer, Becomes, Holds
<1>5. ASSUME NEW c \in Calls, Commit(c) PROVE HeldInv'
  <2>1. /\ db' = db \union rows[c] /\ ~Holds(c)' /\ Holds(c)
        /\ \A d \in Calls \ {c} :
             op'[d] = op[d] /\ rows'[d] = rows[d] /\ (Holds(d)' <=> Holds(d))
    BY <1>5 DEF Commit, Leave, Holds
  <2>2. CASE Inserts(c)
    BY <2>1, <2>2 DEF HeldInv, Inserts, Collide
  <2>3. CASE ~Inserts(c)
    <3>1. db' = db
      BY <2>1, <2>3 DEF HeldInv
    <3> QED
      BY <1>1, <2>1, <3>1
  <2> QED
    BY <2>2, <2>3
<1>6. ASSUME NEW c \in Calls, CommitLost(c) \/ RollBack(c) PROVE HeldInv'
  BY <1>1, <1>6 DEF CommitLost, RollBack, Leave, Holds
<1>7. ASSUME NEW c \in Calls, NEW e, NEW p, Raises(c, e, p) PROVE HeldInv'
  BY <1>1, <1>7 DEF Raises, Holds
<1>8. ASSUME NEW p \in People, SignIn(p) PROVE HeldInv'
  BY <1>1, <1>8 DEF SignIn, callVars, Holds
<1>9. ASSUME NEW p, NEW f, NEW s, NEW m, DeleteFiling(p, f, s, m) PROVE HeldInv'
  <2>1. ASSUME NEW c \in Calls, Holds(c), ~Inserts(c) PROVE Filing(f, s, m) \notin rows[c]
    BY <1>9, <2>1 DEF DeleteFiling, Holds, Inserts
  <2> QED
    BY <1>9, <2>1 DEF DeleteFiling, callVars, HeldInv, Holds, Inserts, Collide
<1>10. CASE UNCHANGED vars
  BY <1>1, <1>10 DEF vars, callVars, Holds
<1> QED
  BY <1>2, <1>3, <1>4, <1>5, <1>6, <1>7, <1>8, <1>9, <1>10, RaisesOnly DEF Next, Finish

LEMMA EntitledStays ==
  ASSUME NEW c, Entitled(c), Lasting(db, db'),
         op'[c] = op[c], who'[c] = who[c], rows'[c] = rows[c]
  PROVE  Entitled(c)'
  BY LastingRows DEF Entitled, Manages

\* What the checks of a handler say of its caller.
LEMMA EntitledAtBegin ==
  ASSUME Inv, NEW c \in Calls, Organizations(c) \/ Practice(c)
  PROVE  Entitled(c)'
<1>a. Inv /\ tokens \subseteq People \union {Nobody}
  BY DEF Inv, TypeOK
<1>b. \A p \in tokens, s \in Slugs : s \in OrgsOf(p) => p \in People
  BY <1>a, MembersArePeople
<1>1. ASSUME NEW p \in tokens, NEW s \in Slugs, CreateOrganization(c, p, s) PROVE Entitled(c)'
  BY <1>1, BeginSets DEF CreateOrganization, Entitled, Inv
<1>2. ASSUME NEW p \in tokens, NEW s \in Slugs, NEW q \in People, NEW role \in Roles,
             AddMember(c, p, s, q, role)
      PROVE  Entitled(c)'
  <2>1. Manages(p, s) /\ s \in OrgsOf(p)
    BY <1>2 DEF AddMember, MayAdd, Manages, OrgsOf, Roles
  <2>2. /\ op'[c] = "add_member" /\ who'[c] = p /\ rows'[c] = {Member(q, s, role)}
        /\ db' = db
    BY <1>2, BeginSets DEF AddMember, Inv
  <2>3. \A x \in People, t \in Slugs, r \in Roles : Member(x, t, r) \in rows'[c] => t = s
    BY <2>2 DEF Member
  <2> QED
    BY <1>b, <2>1, <2>2, <2>3 DEF Entitled, Manages
<1>3. ASSUME NEW p \in tokens, NEW s \in Slugs, NEW m \in Matters, CreateMatter(c, p, m, s)
      PROVE  Entitled(c)'
  BY <1>3, BeginSets DEF CreateMatter, Entitled, Inv
<1>4. ASSUME NEW p \in tokens, NEW s \in Slugs, NEW m \in Matters, NEW f \in Filings,
             CreateFiling(c, p, f, s, m) \/ UpdateFiling(c, p, f, s, m)
      PROVE  Entitled(c)'
  <2>1. s \in OrgsOf(p)
    BY <1>4 DEF CreateFiling, UpdateFiling, ActsFor
  <2>2. /\ op'[c] \in {"create_filing", "update_filing"} /\ who'[c] = p
        /\ rows'[c] = {Filing(f, s, m)} /\ db' = db
    BY <1>4, BeginSets DEF CreateFiling, UpdateFiling, Inv
  <2>3. \A g \in Filings, t \in Slugs, n \in Matters : Filing(g, t, n) \in rows'[c] => t = s
    BY <2>2 DEF Filing
  <2> QED
    BY <1>b, <2>1, <2>2, <2>3 DEF Entitled, OrgsOf
<1> QED
  BY <1>1, <1>2, <1>3, <1>4 DEF Organizations, Practice

LEMMA EntitledStep == Inv /\ EntitledInv /\ [Next]_vars => EntitledInv'
<1> SUFFICES ASSUME Inv, EntitledInv, [Next]_vars, NEW d \in Calls PROVE Entitled(d)'
  BY DEF EntitledInv
<1> USE DEF Inv, TypeOK
<1>a. Entitled(d)
  BY DEF EntitledInv
<1>1. Lasting(db, db')
  <2>1. ASSUME NEW c \in Calls, Users(c) \/ Organizations(c) \/ Practice(c) PROVE db' = db
    BY <2>1, HandlersBegin DEF Begin
  <2>2. ASSUME NEW c \in Calls, Finish(c) PROVE Lasting(db, db')
    BY <2>2 DEF Finish, Write, Answer, Commit, CommitLost, RollBack, Lasting
  <2>3. ASSUME NEW p, NEW f, NEW s, NEW m, DeleteFiling(p, f, s, m) PROVE Lasting(db, db')
    BY <2>3 DEF DeleteFiling, Lasting, Filing
  <2>4. ASSUME NEW c, NEW e, NEW p, Raises(c, e, p) PROVE db' = db
    BY <2>4 DEF Raises
  <2>5. db' = db => Lasting(db, db')
    BY DEF Lasting
  <2> QED
    BY <2>1, <2>2, <2>3, <2>4, <2>5, RaisesOnly DEF Next, SignIn, vars
<1>2. \/ op'[d] = op[d] /\ who'[d] = who[d] /\ rows'[d] = rows[d]
      \/ op'[d] \in SignUps \union {"none", "any"}
      \/ Organizations(d) \/ Practice(d)
      \/ Entitled(d)'
  <2>1. ASSUME NEW c \in Calls, NEW e, NEW p, NEW new, Begin(c, e, p, new), c # d
        PROVE  op'[d] = op[d] /\ who'[d] = who[d] /\ rows'[d] = rows[d]
    BY <2>1 DEF Begin
  <2>2. ASSUME NEW c \in Calls, c # d, Users(c) \/ Organizations(c) \/ Practice(c)
        PROVE  op'[d] = op[d] /\ who'[d] = who[d] /\ rows'[d] = rows[d]
    BY <2>1, <2>2, HandlersBegin
  <2>3. Users(d) => op'[d] \in SignUps
    BY DEF Users, Register, GoogleSignUp, Begin, SignUps
  <2>4. ASSUME NEW c \in Calls, Finish(c)
        PROVE  \/ op'[d] = op[d] /\ who'[d] = who[d] /\ rows'[d] = rows[d]
               \/ op'[d] = "none"
    BY <2>4 DEF Finish, Write, Answer, Becomes, Commit, CommitLost, RollBack, Leave
  <2>5. ASSUME NEW c \in Calls, NEW p \in People, MembershipFails(c, p)
        PROVE  \/ op'[d] = op[d] /\ who'[d] = who[d] /\ rows'[d] = rows[d]
               \/ op'[d] = "any"
    BY <2>5 DEF MembershipFails, Raises
  <2>6. ASSUME NEW c \in Calls, NEW p \in tokens, NEW s \in Slugs, NEW q \in People,
               AddMemberRaises(c, p, s, q)
        PROVE  \/ op'[d] = op[d] /\ who'[d] = who[d] /\ rows'[d] = rows[d]
               \/ Entitled(d)'
    <3>1. CASE c # d
      BY <2>6, <3>1 DEF AddMemberRaises, Raises
    <3>2. CASE c = d
      <4>1. op'[d] = "add_member" /\ who'[d] = p /\ rows'[d] = {}
        BY <2>6, <3>2 DEF AddMemberRaises, Raises, CallInv
      <4>2. s \in OrgsOf(p) /\ p \in People \union {Nobody}
        BY <2>6 DEF AddMemberRaises, MayAdd, Manages, OrgsOf, Roles
      <4>3. p \in People
        BY <4>2, MembersArePeople
      <4> QED
        BY <4>1, <4>3 DEF Entitled
    <3> QED
      BY <3>1, <3>2
  <2> QED
    BY <2>2, <2>3, <2>4, <2>5, <2>6 DEF Next, SignIn, DeleteFiling, vars, callVars
<1>3. op'[d] \in SignUps \union {"none", "any"} => Entitled(d)'
  BY DEF Entitled, SignUps
<1> QED
  BY <1>a, <1>1, <1>2, <1>3, EntitledStays, EntitledAtBegin

LEMMA AtWorkStep == Inv /\ AtWorkInv /\ [Next]_vars => AtWorkInv'
<1> SUFFICES ASSUME Inv, AtWorkInv, [Next]_vars PROVE AtWorkInv'
  OBVIOUS
<1> USE DEF Inv, TypeOK
<1>1. ASSUME NEW c \in Calls, Users(c) \/ Organizations(c) \/ Practice(c) PROVE AtWorkInv'
  <2>1. PICK e, p, new : new # {} /\ Begin(c, e, p, new)
    BY <1>1 DEF Users, Register, GoogleSignUp, Organizations, CreateOrganization, Endpoints,
                AddMember, Practice, CreateMatter, CreateFiling, UpdateFiling
  <2> QED
    BY <2>1 DEF Begin, AtWorkInv
<1>2. ASSUME NEW c \in Calls, Finish(c) PROVE AtWorkInv'
  BY <1>2 DEF Finish, Write, Answer, Becomes, Commit, CommitLost, RollBack, Leave, AtWorkInv
<1>3. ASSUME NEW c \in Calls, NEW e, NEW p, Raises(c, e, p) PROVE AtWorkInv'
  BY <1>3 DEF Raises, AtWorkInv
<1> QED
  BY <1>1, <1>2, <1>3, RaisesOnly DEF Next, SignIn, DeleteFiling, vars, callVars, AtWorkInv

\* The tables, row by row.
Tables == <<UserTable, OrgTable, MemberTable, MatterTable, AccessTable, FilingTable>>

LEMMA TablesKeep ==
  ASSUME db' = db
  PROVE  UNCHANGED Tables
  BY DEF Tables, UserTable, OrgTable, MemberTable, MatterTable, AccessTable, FilingTable

\* Rows of other tables add nothing to a table.
LEMMA TablesApart ==
  ASSUME NEW c \in Calls, Commit(c)
  PROVE  /\ (\A x \in rows[c] : x[1] # "user") => UserTable' = UserTable
         /\ (\A x \in rows[c] : x[1] # "org") => OrgTable' = OrgTable
         /\ (\A x \in rows[c] : x[1] # "member") => MemberTable' = MemberTable
         /\ (\A x \in rows[c] : x[1] # "matter") => MatterTable' = MatterTable
         /\ (\A x \in rows[c] : x[1] # "access") => AccessTable' = AccessTable
         /\ (\A x \in rows[c] : x[1] # "filing") => FilingTable' = FilingTable
<1> USE DEF Commit
<1>1. (\A x \in rows[c] : x[1] # "user") => UserTable' = UserTable
  BY DEF UserTable, User
<1>2. (\A x \in rows[c] : x[1] # "org") => OrgTable' = OrgTable
  BY DEF OrgTable, Org
<1>3. (\A x \in rows[c] : x[1] # "member") => MemberTable' = MemberTable
  BY DEF MemberTable, Member
<1>4. (\A x \in rows[c] : x[1] # "matter") => MatterTable' = MatterTable
  BY DEF MatterTable, Matter
<1>5. (\A x \in rows[c] : x[1] # "access") => AccessTable' = AccessTable
  BY DEF AccessTable, Access
<1>6. (\A x \in rows[c] : x[1] # "filing") => FilingTable' = FilingTable
  BY DEF FilingTable, Filing
<1> QED
  BY <1>1, <1>2, <1>3, <1>4, <1>5, <1>6

\* Membership in the mapped tables is membership in db.
LEMMA BelongsIsMember ==
  ASSUME NEW p \in People, NEW s \in Slugs
  PROVE  /\ Tenants!Belongs(p, s) <=> s \in OrgsOf(p)
         /\ <<p, s, "owner">> \in MemberTable <=> Manages(p, s)
  BY DEF Tenants!Belongs, MemberTable, OrgsOf, Manages, Roles

TenancyInv == Inv /\ HeldInv /\ EntitledInv /\ AtWorkInv

\* A sign-up, whose address is still free at the commit.
LEMMA CommitSignUp ==
  ASSUME TenancyInv, NEW c \in Calls, Commit(c), SignUpRows(c)
  PROVE  Tenants!Next
<1>1. PICK p \in People : who[c] = p /\ rows[c] = {User(p)}
  BY DEF SignUpRows
<1>2. db' = db \union {User(p)} /\ actor' = p /\ Holds(c) /\ Inserts(c)
  BY <1>1 DEF Commit, Holds, Inserts, SignUpRows, SignUps
<1>3. p \notin UserTable
  BY <1>1, <1>2, SameRowCollides DEF TenancyInv, HeldInv, UserTable
<1>4. UserTable' = UserTable \union {p}
  BY <1>2 DEF UserTable, User
<1>6. UNCHANGED <<OrgTable, MemberTable, MatterTable, AccessTable, FilingTable>>
  BY RowTables, TablesApart
<1>7. Tenants!SignUp(p)
  BY <1>2, <1>3, <1>4, <1>6 DEF Tenants!SignUp
<1> QED
  BY <1>7 DEF Tenants!Next

LEMMA CommitOrganization ==
  ASSUME TenancyInv, NEW c \in Calls, Commit(c), OrganizationRows(c)
  PROVE  Tenants!Next
<1>1. PICK p : p = who[c]
  OBVIOUS
<1>1a. PICK s \in Slugs : who[c] = p /\ rows[c] = {Org(s), Member(p, s, "owner")}
  BY <1>1 DEF OrganizationRows
<1>2. /\ db' = db \union {Org(s), Member(p, s, "owner")}
      /\ actor' = p /\ Holds(c) /\ Inserts(c)
  BY <1>1a DEF Commit, Holds, Inserts, OrganizationRows
<1>3. Member(p, s, "owner")[1] = "member" /\ Member(p, s, "owner")[2][1] = p /\ Org(s)[1] = "org"
  BY DEF Member, Org
<1>4. User(p) \in db
  <2>1. ~UserMissing(c)
    BY <1>2 DEF TenancyInv, Inv, CallInv, Holds
  <2>2. Member(p, s, "owner") \in rows[c]
    BY <1>1a
  <2> QED
    BY <1>3, <2>1, <2>2 DEF UserMissing
<1>5. p \in People
  BY <1>4, UserIsPerson DEF TenancyInv, Inv, TypeOK
<1>6. s \notin OrgTable
  BY <1>1a, <1>2, SameRowCollides DEF TenancyInv, HeldInv, OrgTable
<1>7. OrgTable' = OrgTable \union {s}
  <2>1. \A t \in Slugs : Org(t) \in {Org(s), Member(p, s, "owner")} <=> t = s
    BY DEF Org, Member
  <2> QED
    BY <1>2, <2>1 DEF OrgTable
<1>8. MemberTable' = MemberTable \union {<<p, s, "owner">>}
  <2>1. \A x \in People \X Slugs \X Roles :
          Member(x[1], x[2], x[3]) \in {Org(s), Member(p, s, "owner")} <=> x = <<p, s, "owner">>
    BY DEF Org, Member
  <2>2. <<p, s, "owner">> \in People \X Slugs \X Roles
    BY <1>5 DEF Roles
  <2> QED
    BY <1>2, <2>1, <2>2 DEF MemberTable
<1>9. UNCHANGED <<UserTable, MatterTable, AccessTable, FilingTable>>
  BY RowTables, TablesApart
<1>10. p \in UserTable
  BY <1>4, <1>5 DEF UserTable
<1>11. Tenants!Found(p, s)
  BY <1>2, <1>6, <1>7, <1>8, <1>9, <1>10 DEF Tenants!Found
<1> QED
  BY <1>5, <1>11 DEF Tenants!Next

\* The new member has become none of s in the meantime: the key of the row says so.
LEMMA CommitMember ==
  ASSUME TenancyInv, NEW c \in Calls, Commit(c), MemberRows(c)
  PROVE  Tenants!Next
<1>1. PICK q \in People, s \in Slugs, role \in Roles :
        rows[c] = {Member(q, s, role)} /\ User(q) \in db
  BY DEF MemberRows
<1>2. PICK p \in People : who[c] = p /\ Manages(p, s)
  BY <1>1 DEF TenancyInv, EntitledInv, Entitled, MemberRows
<1>3. db' = db \union {Member(q, s, role)} /\ actor' = p /\ Holds(c) /\ Inserts(c)
  BY <1>1, <1>2 DEF Commit, Holds, Inserts, MemberRows
<1>4. \A r \in Roles : Member(q, s, r) \notin db
  <2>1. ~Collide({Member(q, s, role)}, db)
    BY <1>1, <1>3 DEF TenancyInv, HeldInv
  <2>2. \A r : SameKey(Member(q, s, role), Member(q, s, r))
    BY DEF SameKey, Member
  <2> QED
    BY <2>1, <2>2 DEF Collide
<1>5. ~Tenants!Belongs(q, s)
  BY <1>4, BelongsIsMember DEF OrgsOf
<1>6. MemberTable' = MemberTable \union {<<q, s, role>>}
  <2>1. \A x \in People \X Slugs \X Roles :
          Member(x[1], x[2], x[3]) \in {Member(q, s, role)} <=> x = <<q, s, role>>
    BY DEF Member
  <2> QED
    BY <1>3, <2>1 DEF MemberTable
<1>8. UNCHANGED <<UserTable, OrgTable, MatterTable, AccessTable, FilingTable>>
  BY RowTables, TablesApart
<1>9. q \in UserTable /\ <<p, s, "owner">> \in MemberTable
  BY <1>1, <1>2, BelongsIsMember DEF UserTable
<1>10. Tenants!Join(p, s, q, role)
  BY <1>3, <1>5, <1>6, <1>8, <1>9 DEF Tenants!Join
<1> QED
  BY <1>10 DEF Tenants!Next

\* Nobody has opened the matter before, and its creator is a member still.
LEMMA CommitMatter ==
  ASSUME TenancyInv, NEW c \in Calls, Commit(c), MatterRows(c)
  PROVE  Tenants!Next
<1>1. PICK p \in People, m \in Matters, s \in Slugs :
        who[c] = p /\ s \in OrgsOf(p) /\ rows[c] = {Matter(m, s), Access(m, p)}
  BY DEF MatterRows, OrgsOf
<1>2. /\ db' = db \union {Matter(m, s), Access(m, p)} /\ actor' = p
      /\ Holds(c) /\ Inserts(c)
  BY <1>1 DEF Commit, Holds, Inserts, MatterRows
<1>3. \A t \in Slugs : <<m, t>> \notin MatterTable
  <2>1. ~Collide({Matter(m, s), Access(m, p)}, db)
    BY <1>1, <1>2 DEF TenancyInv, HeldInv
  <2>2. \A t : SameKey(Matter(m, s), Matter(m, t))
    BY DEF SameKey, Matter
  <2> QED
    BY <2>1, <2>2 DEF Collide, MatterTable
<1>4. MatterTable' = MatterTable \union {<<m, s>>}
  <2>1. \A x \in Matters \X Slugs :
          Matter(x[1], x[2]) \in {Matter(m, s), Access(m, p)} <=> x = <<m, s>>
    BY DEF Matter, Access
  <2> QED
    BY <1>2, <2>1 DEF MatterTable
<1>5. AccessTable' = AccessTable \union {<<m, p>>}
  <2>1. \A x \in Matters \X People :
          Access(x[1], x[2]) \in {Matter(m, s), Access(m, p)} <=> x = <<m, p>>
    BY DEF Matter, Access
  <2> QED
    BY <1>2, <2>1 DEF AccessTable
<1>7. UNCHANGED <<UserTable, OrgTable, MemberTable, FilingTable>>
  BY RowTables, TablesApart
<1>8. Tenants!Open(p, m, s)
  BY <1>1, <1>2, <1>3, <1>4, <1>5, <1>7, BelongsIsMember DEF Tenants!Open
<1> QED
  BY <1>2, <1>8 DEF Tenants!Next

LEMMA CommitFiling ==
  ASSUME TenancyInv, NEW c \in Calls, Commit(c), FilingRows(c)
  PROVE  Tenants!Next
<1>1. PICK f \in Filings, s \in Slugs, m \in Matters :
        rows[c] = {Filing(f, s, m)} /\ Matter(m, s) \in db
  BY DEF FilingRows
<1>2. PICK p \in People : who[c] = p /\ s \in OrgsOf(p)
  BY <1>1 DEF TenancyInv, EntitledInv, Entitled, FilingRows
<1>3. db' = db \union {Filing(f, s, m)} /\ actor' = p /\ Holds(c) /\ Tenants!Belongs(p, s)
  BY <1>1, <1>2, BelongsIsMember DEF Commit, Holds
<1>5. UNCHANGED <<UserTable, OrgTable, MemberTable, MatterTable, AccessTable>>
  BY RowTables, TablesApart
<1>6. CASE Inserts(c)
  <2>1. \A t \in Slugs, n \in Matters : <<f, t, n>> \notin FilingTable
    <3>1. ~Collide({Filing(f, s, m)}, db)
      BY <1>1, <1>3, <1>6 DEF TenancyInv, HeldInv
    <3>2. \A t, n : SameKey(Filing(f, s, m), Filing(f, t, n))
      BY DEF SameKey, Filing
    <3> QED
      BY <3>1, <3>2 DEF Collide, FilingTable
  <2>2. FilingTable' = FilingTable \union {<<f, s, m>>}
    <3>1. \A x \in Filings \X Slugs \X Matters :
            Filing(x[1], x[2], x[3]) \in {Filing(f, s, m)} <=> x = <<f, s, m>>
      BY DEF Filing
    <3> QED
      BY <1>3, <3>1 DEF FilingTable
  <2>3. <<m, s>> \in MatterTable
    BY <1>1 DEF MatterTable
  <2>4. Tenants!File(p, f, s, m)
    BY <1>3, <1>5, <2>1, <2>2, <2>3 DEF Tenants!File
  <2> QED
    BY <2>4 DEF Tenants!Next
<1>7. CASE ~Inserts(c)
  <2>1. Filing(f, s, m) \in db
    BY <1>1, <1>3, <1>7 DEF TenancyInv, HeldInv
  <2>2. <<f, s, m>> \in FilingTable /\ FilingTable' = FilingTable
    BY <1>3, <2>1 DEF FilingTable
  <2>3. Tenants!Amend(p, f, s, m)
    BY <1>3, <1>5, <2>2 DEF Tenants!Amend
  <2> QED
    BY <2>3 DEF Tenants!Next
<1> QED
  BY <1>6, <1>7

LEMMA DeletionIsShred ==
  ASSUME TenancyInv, NEW p \in tokens, NEW f \in Filings, NEW s \in Slugs, NEW m \in Matters,
         DeleteFiling(p, f, s, m)
  PROVE  Tenants!Next
<1>1. /\ s \in OrgsOf(p) /\ Filing(f, s, m) \in db /\ actor' = p
      /\ db' = db \ {Filing(f, s, m)}
  BY DEF DeleteFiling, ActsFor
<1>2. p \in People
  <2>1. Inv /\ p \in People \union {Nobody}
    BY DEF TenancyInv, Inv, TypeOK
  <2> QED
    BY <1>1, <2>1, MembersArePeople
<1>3. /\ \A q : User(q) # Filing(f, s, m)
      /\ \A t : Org(t) # Filing(f, s, m)
      /\ \A q, t, r : Member(q, t, r) # Filing(f, s, m)
      /\ \A n, t : Matter(n, t) # Filing(f, s, m)
      /\ \A n, q : Access(n, q) # Filing(f, s, m)
  BY DEF User, Org, Member, Matter, Access, Filing
<1>4. UNCHANGED <<UserTable, OrgTable, MemberTable, MatterTable, AccessTable>>
  BY <1>1, <1>3 DEF UserTable, OrgTable, MemberTable, MatterTable, AccessTable
<1>5. FilingTable' = FilingTable \ {<<f, s, m>>}
  <2>1. \A x \in Filings \X Slugs \X Matters :
          Filing(x[1], x[2], x[3]) = Filing(f, s, m) <=> x = <<f, s, m>>
    BY DEF Filing
  <2> QED
    BY <1>1, <2>1 DEF FilingTable
<1>6. <<f, s, m>> \in FilingTable
  BY <1>1 DEF FilingTable
<1>7. Tenants!Shred(p, f, s, m)
  BY <1>1, <1>2, <1>4, <1>5, <1>6, BelongsIsMember DEF Tenants!Shred
<1> QED
  BY <1>2, <1>7 DEF Tenants!Next

\* Every other step leaves the tables alone.
LEMMA TenancyStep == TenancyInv /\ [Next]_vars => [Tenants!Next]_(Tenants!vars)
<1> SUFFICES ASSUME TenancyInv, [Next]_vars PROVE Tenants!Next \/ UNCHANGED Tenants!vars
  OBVIOUS
<1>1. ASSUME db' = db, actor' = actor PROVE UNCHANGED Tenants!vars
  BY <1>1, TablesKeep DEF Tables, Tenants!vars
<1>2. ASSUME NEW c \in Calls, Users(c) \/ Organizations(c) \/ Practice(c)
      PROVE  UNCHANGED Tenants!vars
  BY <1>1, <1>2, HandlersBegin DEF Begin
<1>3. ASSUME NEW c \in Calls, Write(c) \/ Answer(c) \/ CommitLost(c) \/ RollBack(c)
      PROVE  UNCHANGED Tenants!vars
  BY <1>1, <1>3 DEF Write, Answer, CommitLost, RollBack
<1>4. ASSUME NEW c \in Calls, Commit(c) PROVE Tenants!Next \/ UNCHANGED Tenants!vars
  <2>1. CallInv(c)
    BY DEF TenancyInv, Inv
  <2>2. CASE SignUpRows(c) \/ OrganizationRows(c) \/ MemberRows(c) \/ MatterRows(c) \/ FilingRows(c)
    BY <1>4, <2>2, CommitSignUp, CommitOrganization, CommitMember, CommitMatter, CommitFiling
  <2>3. rows[c] # {}
    BY <1>4 DEF Commit, TenancyInv, AtWorkInv
  <2> QED
    BY <2>1, <2>2, <2>3 DEF CallInv
<1>5. ASSUME NEW p \in tokens, NEW f \in Filings, NEW s \in Slugs, NEW m \in Matters,
             DeleteFiling(p, f, s, m)
      PROVE  Tenants!Next
  BY <1>5, DeletionIsShred
<1>6. ASSUME NEW c, NEW e, NEW p, Raises(c, e, p) PROVE UNCHANGED Tenants!vars
  BY <1>1, <1>6 DEF Raises
<1> QED
  BY <1>1, <1>2, <1>3, <1>4, <1>5, <1>6, RaisesOnly DEF Next, Finish, SignIn, vars

\* ImplementsTenancy: requests that look first and write later, without a lock
\* between the two, still change the tenants' data as if each came alone.
THEOREM TenancyRefinement == Spec => ImplementsTenancy
<1>1. Init => HeldInv /\ EntitledInv /\ AtWorkInv
  BY DEF Init, HeldInv, Holds, EntitledInv, Entitled, AtWorkInv
<1>2. Init => Tenants!Init
  BY DEF Init, Tenants!Init, UserTable, OrgTable, MemberTable, MatterTable, AccessTable, FilingTable
<1>3. TenancyInv /\ [Next]_vars => HeldInv' /\ EntitledInv' /\ AtWorkInv'
  BY HeldStep, EntitledStep, AtWorkStep DEF TenancyInv
<1> QED
  BY <1>1, <1>2, <1>3, Invariance, TenancyStep, PTL
     DEF Spec, ImplementsTenancy, Tenants!Spec, TenancyInv

=============================================================================
