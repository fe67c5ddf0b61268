------------------------------ MODULE Accounts ------------------------------
(***************************************************************************)
(* Users, organizations, memberships, matters and the filings kept with    *)
(* them, as the concurrent requests of the API write them.                 *)
(*                                                                         *)
(* A request is one transaction at READ COMMITTED.  It looks at committed  *)
(* rows, inserts its own, which takes their unique keys until it ends, and *)
(* is answered; get_db_session commits it after the response was sent.     *)
(* Nothing but filings (and contacts and events, which are alike) is ever  *)
(* deleted, so the SELECTs of a handler are taken together at its last.    *)
(***************************************************************************)
EXTENDS Integers, FiniteSets

CONSTANTS
  People,       \* the owners of e-mail addresses, each a possible user
  Slugs,        \* slugs of organizations; an organization is its slug
  Matters,      \* the matters that may be created
  Filings,      \* the filings that may be created
  Calls,        \* the requests that can be in flight at a time
  LostCommits   \* may a commit fail after the response

\* A token whose registration was lost names a user without a row.
Nobody == "nobody"

ASSUME ConstantsAssumption ==
  /\ Nobody \notin People
  /\ LostCommits \in BOOLEAN

VARIABLES
  db,           \* the committed rows
  actor,        \* history: who made the last change
  tokens,       \* the users for whom clients hold an access token
  step,         \* step[c]: how far call c has come
  op,           \* op[c]: its endpoint
  who,          \* who[c]: the user it is made by or for
  rows,         \* rows[c]: the rows it is going to insert (update: to change)
  known         \* history, known[c]: were any of their keys stored when it began

callVars == <<step, op, who, rows, known>>
vars == <<db, actor, tokens, callVars>>

-----------------------------------------------------------------------------
(* Rows are <<table, unique key, value>>. *)

Roles == {"owner", "associate"}    \* "owner" stands for admins too

User(p) == <<"user", p, "none">>
Org(s) == <<"org", s, "none">>
Member(p, s, role) == <<"member", <<p, s>>, role>>
Matter(m, s) == <<"matter", m, s>>
Access(m, p) == <<"access", <<m, p>>, "none">>
Filing(f, s, m) == <<"filing", f, <<s, m>>>>

Rows ==
  {User(p) : p \in People}
  \union {Org(s) : s \in Slugs}
  \union {Member(p, s, role) : p \in People \union {Nobody}, s \in Slugs, role \in Roles}
  \union {Matter(m, s) : m \in Matters, s \in Slugs}
  \union {Access(m, p) : m \in Matters, p \in People}
  \union {Filing(f, s, m) : f \in Filings, s \in Slugs, m \in Matters}

SameKey(x, y) == x[1] = y[1] /\ x[2] = y[2]

\* Some of the rows `new` have a key that one of the rows `old` has.
Collide(new, old) == \E x \in new, y \in old : SameKey(x, y)

\* No row of any transaction has the keys of `new`: the ids are fresh UUIDs.
IsNew(new) == ~Collide(new, db \union UNION {rows[c] : c \in Calls})

\* get_user_membership: the organizations p is an active member of.  More than
\* one makes scalar_one_or_none raise.
OrgsOf(p) == {s \in Slugs : \E role \in Roles : Member(p, s, role) \in db}
MembershipRaises(p) == Cardinality(OrgsOf(p)) > 1

\* require_org_member lets p in, as a member of s.
ActsFor(p, s) == OrgsOf(p) = {s}

Manages(p, s) == Member(p, s, "owner") \in db

Endpoints == {"register", "google", "create_organization", "add_member",
              "create_matter", "create_filing", "update_filing", "any"}
SignUps == {"register", "google"}
Steps == {"idle", "writing", "written", "answered", "error"}

TypeOK ==
  /\ db \subseteq Rows
  /\ actor \in People \union {Nobody}
  /\ tokens \subseteq People \union {Nobody}
  /\ step \in [Calls -> Steps]
  /\ op \in [Calls -> Endpoints \union {"none"}]
  /\ who \in [Calls -> People \union {Nobody}]
  /\ rows \in [Calls -> SUBSET Rows]
  /\ known \in [Calls -> BOOLEAN]

Init ==
  /\ db = {}
  /\ actor = Nobody
  /\ tokens = {}
  /\ step = [c \in Calls |-> "idle"]
  /\ op = [c \in Calls |-> "none"]
  /\ who = [c \in Calls |-> Nobody]
  /\ rows = [c \in Calls |-> {}]
  /\ known = [c \in Calls |-> FALSE]

-----------------------------------------------------------------------------
(* What the handlers look at before they write.  A refusal (401, 403, 404,  *)
(* 409) changes nothing and is not a step.  Of the values of a request only *)
(* those the guards depend on are kept: a value that a column or a library  *)
(* refuses (a NUL byte, an over-long title) is left out.                    *)

\* Call c has passed its checks and will insert `new`.
Begin(c, endpoint, p, new) ==
  /\ step[c] = "idle"
  /\ step' = [step EXCEPT ![c] = "writing"]
  /\ op' = [op EXCEPT ![c] = endpoint]
  /\ who' = [who EXCEPT ![c] = p]
  /\ rows' = [rows EXCEPT ![c] = new]
  /\ known' = [known EXCEPT ![c] = Collide(new, db)]
  /\ UNCHANGED <<db, actor, tokens>>

\* Call c, made by p, runs into a server error before it writes anything.
Raises(c, endpoint, p) ==
  /\ step[c] = "idle"
  /\ step' = [step EXCEPT ![c] = "error"]
  /\ op' = [op EXCEPT ![c] = endpoint]
  /\ who' = [who EXCEPT ![c] = p]
  /\ UNCHANGED <<db, actor, tokens, rows, known>>

\* Broken variant: the address is not looked up before the INSERT.
RegisterUnchecked(c, p) == Begin(c, "register", p, {User(p)})

\* POST /auth/register, for an address without an account
Register(c, p) ==
  /\ User(p) \notin db
  /\ Begin(c, "register", p, {User(p)})

\* POST /auth/google: get_or_create_google_user for a new address
GoogleSignUp(c, p) ==
  /\ User(p) \notin db
  /\ Begin(c, "google", p, {User(p)})

\* login, google with an account, refresh: a token for a stored user whose
\* membership can be looked up
SignIn(p) ==
  /\ User(p) \in db
  /\ ~MembershipRaises(p)
  /\ tokens' = tokens \union {p}
  /\ UNCHANGED <<db, actor, callVars>>

\* Broken variant: the creator's role is that of a matter's creator.
CreateOrganizationLead(c, p, s) ==
  /\ p \in tokens
  /\ Org(s) \notin db
  /\ Begin(c, "create_organization", p, {Org(s), Member(p, s, "lead")})

\* POST /organizations: only the token says that the user exists.
CreateOrganization(c, p, s) ==
  /\ p \in tokens
  /\ Org(s) \notin db
  /\ Begin(c, "create_organization", p, {Org(s), Member(p, s, "owner")})

\* The checks of POST /organizations/{s}/members by the manager p, for q
MayAdd(p, s, q) ==
  /\ p \in tokens
  /\ Manages(p, s)
  /\ User(q) \in db
  /\ s \notin OrgsOf(q)

\* ... for a role that OrgRole knows
AddMember(c, p, s, q, role) ==
  /\ MayAdd(p, s, q)
  /\ Begin(c, "add_member", p, {Member(q, s, role)})

\* ... for any other string: OrgRole raises a ValueError, which nobody handles
AddMemberRaises(c, p, s, q) ==
  /\ MayAdd(p, s, q)
  /\ Raises(c, "add_member", p)

\* POST /matters in the organization the caller acts for
CreateMatter(c, p, m, s) ==
  /\ p \in tokens
  /\ ActsFor(p, s)
  /\ IsNew({Matter(m, s)})
  /\ Begin(c, "create_matter", p, {Matter(m, s), Access(m, p)})

\* Broken variant: the matter is not validated.
CreateFilingUnvalidated(c, p, f, s, m) ==
  /\ p \in tokens
  /\ ActsFor(p, s)
  /\ IsNew({Filing(f, s, m)})
  /\ Begin(c, "create_filing", p, {Filing(f, s, m)})

\* POST /filings: _validate_matter asks for a matter of the organization.  (For
\* a filing without a matter it asks nothing; such filings are left out.)
CreateFiling(c, p, f, s, m) ==
  /\ p \in tokens
  /\ ActsFor(p, s)
  /\ Matter(m, s) \in db
  /\ IsNew({Filing(f, s, m)})
  /\ Begin(c, "create_filing", p, {Filing(f, s, m)})

\* PATCH /filings/{f}: the row is loaded and changed.  (A PATCH that leaves the
\* status as it was flushes nothing and is not a step.)
UpdateFiling(c, p, f, s, m) ==
  /\ p \in tokens
  /\ ActsFor(p, s)
  /\ Filing(f, s, m) \in db
  /\ Begin(c, "update_filing", p, {Filing(f, s, m)})

\* Broken variant: the filing is not asked for in the caller's organization.
DeleteFilingAnywhere(p, f, s, m) ==
  /\ p \in tokens
  /\ \E t \in Slugs : ActsFor(p, t)
  /\ Filing(f, s, m) \in db
  /\ \A c \in Calls : ~(op[c] = "update_filing" /\ step[c] \in {"written", "answered"}
                          /\ Filing(f, s, m) \in rows[c])
  /\ db' = db \ {Filing(f, s, m)}
  /\ actor' = p
  /\ UNCHANGED <<tokens, callVars>>

\* DELETE /filings/{f}, up to its commit; one that finds no row changes nothing
DeleteFiling(p, f, s, m) ==
  /\ p \in tokens
  /\ ActsFor(p, s)
  /\ Filing(f, s, m) \in db
  /\ \A c \in Calls : ~(op[c] = "update_filing" /\ step[c] \in {"written", "answered"}
                          /\ Filing(f, s, m) \in rows[c])
  /\ db' = db \ {Filing(f, s, m)}
  /\ actor' = p
  /\ UNCHANGED <<tokens, callVars>>

\* MultipleResultsFound in get_user_membership: a server error for whoever
\* signs in, refreshes a token, asks for GET /auth/me or calls an endpoint of
\* organization members.
MembershipFails(c, p) ==
  /\ MembershipRaises(p)
  /\ Raises(c, "any", p)

-----------------------------------------------------------------------------
(* Writing, answering, committing *)

\* The unique keys other calls have taken and not yet given up.
TakenByOthers(c) == UNION {rows[d] : d \in {e \in Calls \ {c} :
  step[e] \in {"written", "answered"} /\ op[e] # "update_filing"}}

\* The foreign key of a membership: its user has to be stored.  (A user is known
\* by the address here: the token of a registration whose commit was lost is
\* Nobody's, and stays so after a second registration of the address.)
UserMissing(c) == \E x \in rows[c] : x[1] = "member" /\ User(x[2][1]) \notin db

WriteFails(c) == IF op[c] = "update_filing" THEN ~(rows[c] \subseteq db)
                 ELSE Collide(rows[c], db) \/ UserMissing(c)

Becomes(c, s) ==
  /\ step' = [step EXCEPT ![c] = s]
  /\ UNCHANGED <<op, who, rows, known>>

\* flush.  An INSERT waits for a call that holds its key, and then succeeds or
\* fails (IntegrityError); an UPDATE of a deleted row fails (StaleDataError).
Write(c) ==
  /\ step[c] = "writing"
  /\ ~Collide(rows[c], TakenByOthers(c))
  /\ Becomes(c, IF WriteFails(c) THEN "error" ELSE "written")
  /\ UNCHANGED <<db, actor, tokens>>

\* Broken variant: the answer does not wait for the flush.
AnswerUnflushed(c) ==
  /\ step[c] \in {"writing", "written"}
  /\ step' = [step EXCEPT ![c] = IF @ = "written" THEN "answered" ELSE @]
  /\ tokens' = IF op[c] \in SignUps THEN tokens \union {who[c]} ELSE tokens
  /\ UNCHANGED <<db, actor, op, who, rows, known>>

\* The response is sent, with a token for a user who has signed up.
Answer(c) ==
  /\ step[c] = "written"
  /\ Becomes(c, "answered")
  /\ tokens' = IF op[c] \in SignUps THEN tokens \union {who[c]} ELSE tokens
  /\ UNCHANGED <<db, actor>>

\* The call is over, whatever became of it.
Leave(c) ==
  /\ step' = [step EXCEPT ![c] = "idle"]
  /\ op' = [op EXCEPT ![c] = "none"]
  /\ who' = [who EXCEPT ![c] = Nobody]
  /\ rows' = [rows EXCEPT ![c] = {}]
  /\ known' = [known EXCEPT ![c] = FALSE]

Commit(c) ==
  /\ step[c] = "answered"
  /\ db' = db \union rows[c]
  /\ actor' = who[c]
  /\ Leave(c)
  /\ UNCHANGED tokens

\* The commit fails and the client has its answer: a token for nobody if it was
\* a registration.
CommitLost(c) ==
  /\ LostCommits
  /\ step[c] = "answered"
  /\ tokens' = IF op[c] \in SignUps
               THEN (tokens \ {who[c]}) \union {Nobody} ELSE tokens
  /\ Leave(c)
  /\ UNCHANGED <<db, actor>>

\* A server error, or any other failure before the answer: rolled back.
RollBack(c) ==
  /\ step[c] \in {"writing", "written", "error"}
  /\ Leave(c)
  /\ UNCHANGED <<db, actor, tokens>>

-----------------------------------------------------------------------------
Users(c) == \E p \in People : Register(c, p) \/ GoogleSignUp(c, p)

Organizations(c) == \E p \in tokens, s \in Slugs :
  \/ CreateOrganization(c, p, s)
  \/ \E q \in People, role \in Roles : AddMember(c, p, s, q, role)

Practice(c) == \E p \in tokens, s \in Slugs, m \in Matters :
  \/ CreateMatter(c, p, m, s)
  \/ \E f \in Filings : CreateFiling(c, p, f, s, m) \/ UpdateFiling(c, p, f, s, m)

Finish(c) == Write(c) \/ Answer(c) \/ Commit(c) \/ CommitLost(c) \/ RollBack(c)

Next ==
  \/ \E c \in Calls : Users(c) \/ Organizations(c) \/ Practice(c) \/ Finish(c)
  \/ \E c \in Calls, p \in People : MembershipFails(c, p)
  \/ \E c \in Calls, p \in tokens, s \in Slugs, q \in People : AddMemberRaises(c, p, s, q)
  \/ \E p \in People : SignIn(p)
  \/ \E p \in tokens, f \in Filings, s \in Slugs, m \in Matters : DeleteFiling(p, f, s, m)

Spec == Init /\ [][Next]_vars

-----------------------------------------------------------------------------
(* The tables *)

UserTable == {p \in People : User(p) \in db}
OrgTable == {s \in Slugs : Org(s) \in db}
MemberTable == {x \in People \X Slugs \X Roles : Member(x[1], x[2], x[3]) \in db}
MatterTable == {x \in Matters \X Slugs : Matter(x[1], x[2]) \in db}
AccessTable == {x \in Matters \X People : Access(x[1], x[2]) \in db}
FilingTable == {x \in Filings \X Slugs \X Matters : Filing(x[1], x[2], x[3]) \in db}

Tenants == INSTANCE Tenancy WITH
  users <- UserTable, orgs <- OrgTable, members <- MemberTable,
  matters <- MatterTable, access <- AccessTable, filings <- FilingTable

-----------------------------------------------------------------------------
(* Properties *)

\* Every organization has an owner from the moment it is visible: it and its
\* first membership are stored together, although the client that creates it
\* may not be stored itself yet.
OrganizationsHaveOwners == \A s \in Slugs :
  Org(s) \in db => \E p \in People : Manages(p, s)

\* Whoever has access to a matter is a member of the organization it belongs
\* to, and a filing's matter belongs to the organization of the filing.
MattersStayInside ==
  /\ \A m \in Matters, p \in People : Access(m, p) \in db =>
       \E s \in OrgsOf(p) : Matter(m, s) \in db
  /\ \A f \in Filings, s \in Slugs, m \in Matters : Filing(f, s, m) \in db =>
       Matter(m, s) \in db

\* A token is handed out before its user is committed, but only by a call that
\* has inserted the user and is about to commit it.
TokensAreBacked == \A p \in tokens \ {Nobody} :
  \/ User(p) \in db
  \/ \E c \in Calls : op[c] \in SignUps /\ who[c] = p /\ step[c] = "answered"

\* Between valid requests a server error has a reason: another call has stored
\* the same key or deleted the filing since the call began, its caller's account
\* is not stored (yet), its caller is in two organizations, or it asks for a
\* member with a role that there is not.  (About errors a request can run into
\* on its own because a library refuses one of its values, nothing is said.)
ErrorsExplained == [][\A c \in Calls :
  (step[c] # "error" /\ step'[c] = "error") =>
    \/ Collide(rows[c], db) /\ ~known[c]
    \/ op[c] = "update_filing" /\ known[c] /\ ~Collide(rows[c], db)
    \/ op[c] = "create_organization" /\ User(who[c]) \notin db
    \/ op'[c] = "add_member" /\ rows'[c] = {}
    \/ MembershipRaises(who'[c])]_vars

\* A handler looks first and writes later, at READ COMMITTED and without locks:
\* all the same every commit is one move of Tenancy, made by somebody who is
\* still entitled to it, on what is stored by then.
ImplementsTenancy == Tenants!Spec

\* get_user_membership: "Get the first active membership for a user."  Somebody
\* who is a member is served, in whichever of the organizations.
EveryMemberIsServed == \A c \in Calls :
  step[c] = "error" => ~MembershipRaises(who[c])
=============================================================================
