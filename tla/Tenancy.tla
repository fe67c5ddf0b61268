------------------------------ MODULE Tenancy ------------------------------
(***************************************************************************)
(* What the API promises of the tenants' data, however requests overlap,   *)
(* fail or lose their commit: each change is made whole and in one step,   *)
(* by somebody who is entitled to it at that moment, and no key is given   *)
(* out twice.                                                              *)
(***************************************************************************)
CONSTANTS People, Slugs, Roles, Matters, Filings,
          Nobody        \* not a person

VARIABLES
  users,        \* the people with an account
  orgs,         \* the organizations, each its slug
  members,      \* <<person, organization, role>>
  matters,      \* <<matter, organization>>
  access,       \* <<matter, person>>
  filings,      \* <<filing, organization, matter>>
  actor         \* who made the last change

vars == <<users, orgs, members, matters, access, filings, actor>>

TypeOK ==
  /\ users \subseteq People
  /\ orgs \subseteq Slugs
  /\ members \subseteq People \X Slugs \X Roles
  /\ matters \subseteq Matters \X Slugs
  /\ access \subseteq Matters \X People
  /\ filings \subseteq Filings \X Slugs \X Matters
  /\ actor \in People \union {Nobody}

Init ==
  /\ users = {} /\ orgs = {} /\ members = {}
  /\ matters = {} /\ access = {} /\ filings = {}
  /\ actor = Nobody

Belongs(p, s) == \E role \in Roles : <<p, s, role>> \in members

SignUp(p) ==
  /\ p \notin users
  /\ users' = users \union {p}
  /\ actor' = p
  /\ UNCHANGED <<orgs, members, matters, access, filings>>

\* A user founds organization s and owns it.
Found(p, s) ==
  /\ p \in users
  /\ s \notin orgs
  /\ orgs' = orgs \union {s}
  /\ members' = members \union {<<p, s, "owner">>}
  /\ actor' = p
  /\ UNCHANGED <<users, matters, access, filings>>

\* An owner of s makes the user q a member, which q was not.
Join(p, s, q, role) ==
  /\ <<p, s, "owner">> \in members
  /\ q \in users /\ ~Belongs(q, s)
  /\ members' = members \union {<<q, s, role>>}
  /\ actor' = p
  /\ UNCHANGED <<users, orgs, matters, access, filings>>

\* A member of s opens a new matter of s and has access to it.
Open(p, m, s) ==
  /\ Belongs(p, s)
  /\ \A t \in Slugs : <<m, t>> \notin matters
  /\ matters' = matters \union {<<m, s>>}
  /\ access' = access \union {<<m, p>>}
  /\ actor' = p
  /\ UNCHANGED <<users, orgs, members, filings>>

\* A member of s keeps a new filing with a matter of s.
File(p, f, s, m) ==
  /\ Belongs(p, s)
  /\ <<m, s>> \in matters
  /\ \A t \in Slugs, n \in Matters : <<f, t, n>> \notin filings
  /\ filings' = filings \union {<<f, s, m>>}
  /\ actor' = p
  /\ UNCHANGED <<users, orgs, members, matters, access>>

\* A member of s changes what a filing of s says.
Amend(p, f, s, m) ==
  /\ Belongs(p, s)
  /\ <<f, s, m>> \in filings
  /\ actor' = p
  /\ UNCHANGED <<users, orgs, members, matters, access, filings>>

\* A member of s deletes a filing of s.
Shred(p, f, s, m) ==
  /\ Belongs(p, s)
  /\ <<f, s, m>> \in filings
  /\ filings' = filings \ {<<f, s, m>>}
  /\ actor' = p
  /\ UNCHANGED <<users, orgs, members, matters, access>>

Next == \E p \in People :
  \/ SignUp(p)
  \/ \E s \in Slugs :
       \/ Found(p, s)
       \/ \E q \in People, role \in Roles : Join(p, s, q, role)
       \/ \E m \in Matters :
            \/ Open(p, m, s)
            \/ \E f \in Filings : File(p, f, s, m) \/ Amend(p, f, s, m) \/ Shred(p, f, s, m)

Spec == Init /\ [][Next]_vars
=============================================================================
