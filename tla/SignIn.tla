------------------------------- MODULE SignIn --------------------------------
(***************************************************************************)
(* Accounts, sessions and passkeys of the control plane.  A browser signs  *)
(* in with a password, through a provider that redirects it back, or with  *)
(* a passkey; a signed-in browser enrolls and removes passkeys and answers *)
(* a step-up ceremony before a privileged change.  A handler is a sequence *)
(* of database and provider calls; other requests run between them.        *)
(***************************************************************************)
EXTENDS Naturals, Sequences, FiniteSets

CONSTANTS
  Browsers, Emails,
  Accounts,      \* accounts at the git providers
  EmailOf,       \* the address a provider reports for an account of its own
  Keys,          \* passkeys that a browser's authenticator can make
  Requests,      \* requests whose handler takes several steps
  MaxStarted,    \* bound: redirects to a provider and ceremonies
  None

VARIABLES
  users,      \* rows of users by email: None or one of UserRows
  links,      \* rows of oauth_identities by account: None or a user id
  keys,       \* rows of webauthn_credentials by key: None or a user id
  challenges, \* rows of webauthn_challenges that are not yet out of time
  jar,        \* the cookies of a browser
  flows,      \* redirects to a provider, in the order they were made
  reqs,       \* per request: where its handler is
  begun,      \* the ceremonies, in the order they were begun: what a challenge's row says
  vouched,    \* history: the address a browser's session was opened for
  accepted,   \* history: ceremonies that were accepted, one record per request
  seeded,     \* history: addresses the seed wrote
  crossed     \* history: addresses the seed wrote during a first sign-in

tables  == <<users, links, keys, challenges>>
history == <<vouched, accepted, seeded, crossed>>
vars    == <<tables, jar, flows, reqs, begun, history>>

UserRows  == [id : Nat, role : {"owner", "viewer"}, password : BOOLEAN]
NoCookies == [session |-> 0, state |-> 0, purpose |-> "login", challenge |-> 0]
Idle == [at |-> "idle", kind |-> "login", b |-> None, user |-> 0, email |-> None, account |-> None,
         n |-> 0, id |-> 0, key |-> None]

Ids == {users[e].id : e \in {e \in Emails : users[e] # None}}

\* The seed ran when the control plane started, if it was configured.
Init ==
  /\ users \in [Emails -> {None}]
         \cup {[e \in Emails |-> IF e = a THEN [id |-> 1, role |-> "owner", password |-> TRUE]
                                           ELSE None] : a \in Emails}
  /\ seeded = {e \in Emails : users[e] # None} /\ crossed = {}
  /\ links = [a \in Accounts |-> None] /\ keys = [k \in Keys |-> None] /\ challenges = {}
  /\ jar = [b \in Browsers |-> NoCookies] /\ flows = << >>
  /\ reqs = [r \in Requests |-> Idle] /\ begun = << >>
  /\ vouched = [b \in Browsers |-> None] /\ accepted = {}

Step(r, rec)  == reqs' = [reqs EXCEPT ![r] = rec]
Refuse(r)     == Step(r, [Idle EXCEPT !.at = "done"])

\* issueSession: the cookie names the user; it is signed and not stored.
Open(b, user, email) ==
  /\ jar' = [jar EXCEPT ![b].session = user]
  /\ vouched' = [vouched EXCEPT ![b] = email]

\* ParseSession and GetByID: who a request with these cookies acts for.
User(b) == IF jar[b].session \in Ids THEN jar[b].session ELSE 0

-----------------------------------------------------------------------------
(***************************************************************************)
(* Rows of users.                                                          *)
(***************************************************************************)
FreshId == Cardinality(Ids) + 1

UpsertNewId(e, role, password) ==  \* mutant: the row is replaced
  users' = [users EXCEPT ![e] =
     [id |-> FreshId, role |-> role, password |-> password]]

\* Store.Upsert: a row of that address keeps its id and loses the rest.
Upsert(e, role, password) ==
  users' = [users EXCEPT ![e] =
     [id |-> IF users[e] = None THEN FreshId ELSE users[e].id, role |-> role, password |-> password]]

\* SeedAdmin, at a start of the control plane or by the bootstrap endpoint: it
\* upserts the configured owner.
SeedAdmin(e) ==
  /\ seeded \subseteq {e}
  /\ Upsert(e, "owner", TRUE)
  /\ seeded' = seeded \cup {e}
  /\ crossed' = crossed \cup {x \in {e} : \E r \in Requests : reqs[r].at = "insert" /\ reqs[r].email = x}
  /\ UNCHANGED <<links, keys, challenges, jar, flows, reqs, begun, vouched, accepted>>

-----------------------------------------------------------------------------
(***************************************************************************)
(* Password and sessions.                                                  *)
(***************************************************************************)
\* login: an account without a password refuses.
Login(b, e) ==
  /\ users[e] # None /\ users[e].password
  /\ Open(b, users[e].id, e)
  /\ UNCHANGED <<tables, flows, reqs, begun, accepted, seeded, crossed>>

\* logout, a session that has expired, and a session whose user RequireAuth
\* does not find: the cookie is cleared.
SessionEnds(b) ==
  /\ jar[b].session # 0
  /\ Open(b, 0, None)
  /\ UNCHANGED <<tables, flows, reqs, begun, accepted, seeded, crossed>>

-----------------------------------------------------------------------------
(***************************************************************************)
(* Sign-in through a provider: GitHub or GitLab, or OIDC, which keeps no   *)
(* identities and has no other purpose.                                    *)
(***************************************************************************)
\* start: the state and the purpose go to the browser in one response, and
\* replace those of a flow that has not come back.
OAuthStart(b, via, purpose) ==
  /\ Len(flows) + Len(begun) < MaxStarted
  /\ via = "oidc" => purpose = "login"
  /\ purpose = "git" => jar[b].session # 0
  /\ flows' = Append(flows, [b |-> b, via |-> via, purpose |-> purpose, spent |-> FALSE])
  /\ jar' = [jar EXCEPT ![b].state = Len(flows) + 1, ![b].purpose = purpose]
  /\ UNCHANGED <<tables, reqs, begun, history>>

\* The cookies of a flow live ten minutes.
StateExpires(b) ==
  /\ jar[b].state # 0
  /\ jar' = [jar EXCEPT ![b].state = 0, ![b].purpose = "login"]
  /\ UNCHANGED <<tables, flows, reqs, begun, history>>

\* The provider sends the browser back.  The handler has the cookies of this
\* moment; the state must be the one of the flow.
Callback(r, n) ==
  LET f == flows[n] c == jar[f.b] IN
  /\ reqs[r].at = "idle"
  /\ IF c.state = n
     THEN Step(r, [Idle EXCEPT !.at = "exchange", !.kind = c.purpose, !.b = f.b,
                               !.user = User(f.b), !.n = n])
     ELSE Refuse(r)
  /\ UNCHANGED <<tables, jar, flows, begun, history>>

\* exchange and profile: a code is good once, and the provider may fail.  The
\* cookies of the flow are cleared, unless another has replaced them.
Exchange(r) ==
  LET q == reqs[r] f == flows[q.n] IN
  /\ q.at = "exchange"
  /\ flows' = [flows EXCEPT ![q.n].spent = TRUE]
  /\ \/ Refuse(r) /\ UNCHANGED jar
     \/ \E a \in Accounts, e \in Emails :
           /\ ~f.spent
           /\ f.via = "oauth" => e = EmailOf[a]
           /\ f.via = "oidc" => a = CHOOSE x \in Accounts : TRUE
           /\ jar' = [jar EXCEPT ![q.b].state = 0, ![q.b].purpose = "login"]
           /\ Step(r, [q EXCEPT !.at = CASE q.kind = "git" -> "connect"
                                         [] f.via = "oauth" -> "identity"
                                         [] OTHER -> "email",
                                !.account = IF f.via = "oauth" THEN a ELSE None,
                                !.email = e])
  /\ UNCHANGED <<tables, begun, history>>

\* purpose git: the grant is stored for the session's user (GitTokens) and the
\* account signs in that user from now on.
Connect(r) ==
  LET q == reqs[r] IN
  /\ q.at = "connect"
  /\ links' = IF q.user = 0 THEN links ELSE [links EXCEPT ![q.account] = q.user]
  /\ Refuse(r)
  /\ UNCHANGED <<users, keys, challenges, jar, flows, begun, history>>

\* provision: an account that is known signs in its user,
Identify(r) ==
  LET q == reqs[r] IN
  /\ q.at = "identity"
  /\ IF links[q.account] # None
     THEN Open(q.b, links[q.account], None) /\ Refuse(r)
     ELSE Step(r, [q EXCEPT !.at = "email"]) /\ UNCHANGED <<jar, vouched>>
  /\ UNCHANGED <<tables, flows, begun, accepted, seeded, crossed>>

FindEmailSkipped(r) ==  \* mutant: a sign-in always writes the row
  /\ reqs[r].at = "email"
  /\ Step(r, [reqs[r] EXCEPT !.at = "insert"])
  /\ UNCHANGED <<tables, jar, flows, begun, history>>

\* otherwise the address does (also findOrCreate),
FindEmail(r) ==
  LET q == reqs[r] IN
  /\ q.at = "email"
  /\ Step(r, IF users[q.email] = None THEN [q EXCEPT !.at = "insert"]
             ELSE [q EXCEPT !.at = "link", !.user = users[q.email].id])
  /\ UNCHANGED <<tables, jar, flows, begun, history>>

\* and the first sign-in of an address makes the row, with the default role.
Provision(r) ==
  LET q == reqs[r] IN
  /\ q.at = "insert"
  /\ Upsert(q.email, "viewer", FALSE)
  /\ Step(r, [q EXCEPT !.at = "link", !.user = users'[q.email].id])
  /\ UNCHANGED <<links, keys, challenges, jar, flows, begun, history>>

\* LinkIdentity, whose errors are ignored, and the session.
LinkAndOpen(r) ==
  LET q == reqs[r] IN
  /\ q.at = "link"
  /\ \/ q.account # None /\ links' = [links EXCEPT ![q.account] = q.user]
     \/ UNCHANGED links
  /\ Open(q.b, q.user, q.email)
  /\ Refuse(r)
  /\ UNCHANGED <<users, keys, challenges, flows, begun, accepted, seeded, crossed>>

-----------------------------------------------------------------------------
(***************************************************************************)
(* Passkeys.                                                               *)
(***************************************************************************)
Owned(user) == {k \in Keys : keys[k] = user}

\* loginBegin, registerBegin, stepUpBegin: a challenge is stored, and its id
\* goes to the browser, in a cookie as well.  Step-up needs a key and names
\* those of the user.
Begin(b, purpose) ==
  LET user == IF purpose = "login" THEN 0 ELSE User(b) IN
  /\ Len(flows) + Len(begun) < MaxStarted
  /\ purpose # "login" => user # 0
  /\ purpose = "step_up" => Owned(user) # {}
  /\ begun' = Append(begun, [b |-> b, purpose |-> purpose, user |-> user,
                             allowed |-> IF purpose = "step_up" THEN Owned(user) ELSE Keys])
  /\ challenges' = challenges \cup {Len(begun) + 1}
  /\ jar' = [jar EXCEPT ![b].challenge = Len(begun) + 1]
  /\ UNCHANGED <<users, links, keys, flows, reqs, history>>

\* Five minutes pass, two for a step-up: the row is worth nothing.
ChallengeExpires(n) ==
  /\ n \in challenges
  /\ challenges' = challenges \ {n}
  /\ UNCHANGED <<users, links, keys, jar, flows, reqs, begun, history>>

\* The browser answers ceremony n with a key, or answers it once more.  The
\* request may leave out the id of the challenge (parseFinish): the cookie's is
\* then taken, which another tab may have replaced.  Without a session, or a
\* privileged change without a key, it is refused.
Finish(r, n, k) ==
  LET c == begun[n] user == IF c.purpose = "login" THEN 0 ELSE User(c.b) IN
  /\ reqs[r].at = "idle" /\ k \in c.allowed
  /\ \E id \in {n, jar[c.b].challenge} :
       IF (c.purpose # "login" /\ user = 0) \/ (c.purpose = "step_up" /\ Owned(user) = {})
       THEN Refuse(r)
       ELSE Step(r, [Idle EXCEPT !.at = "take", !.kind = c.purpose, !.b = c.b, !.user = user,
                                 !.n = n, !.id = id, !.key = k])
  /\ UNCHANGED <<tables, jar, flows, begun, history>>

TakeRowReads(id) == UNCHANGED challenges   \* mutant: the row is read and left

\* TakeChallenge: one statement deletes the row and returns it.
TakeRow(id)      == challenges' = challenges \ {id}
\* takeLiveChallenge, then its purpose, its user (assertStepUpChallenge), and
\* that the answer was made for it.
TakeChallenge(r) ==
  LET q == reqs[r] IN
  /\ q.at = "take"
  /\ TakeRow(q.id)
  /\ IF q.id \in challenges /\ begun[q.id].purpose = q.kind /\ begun[q.id].user = q.user /\ q.id = q.n
     THEN Step(r, [q EXCEPT !.at = "verify"])
     ELSE Refuse(r)
  /\ UNCHANGED <<users, links, keys, jar, flows, begun, history>>

Accept(r, user) ==
  accepted' = accepted \cup
    {[r |-> r, n |-> reqs[r].n, user |-> user, owner |-> keys'[reqs[r].key]]}

\* The answer is checked against the rows of this moment: discoverUser and
\* ValidatePasskeyLogin open a session for the owner of the key,
PasskeyLogin(r) ==
  LET q == reqs[r] IN
  /\ q.at = "verify" /\ q.kind = "login"
  /\ UNCHANGED keys
  /\ IF keys[q.key] # None
     THEN Open(q.b, keys[q.key], None) /\ Accept(r, keys[q.key])
     ELSE UNCHANGED <<jar, vouched, accepted>>
  /\ Refuse(r)
  /\ UNCHANGED <<users, links, challenges, flows, begun, seeded, crossed>>

\* registerFinish inserts it for the user, and no key is inserted twice,
PasskeyRegister(r) ==
  LET q == reqs[r] IN
  /\ q.at = "verify" /\ q.kind = "enroll"
  /\ IF keys[q.key] = None
     THEN keys' = [keys EXCEPT ![q.key] = q.user] /\ Accept(r, q.user)
     ELSE UNCHANGED <<keys, accepted>>
  /\ Refuse(r)
  /\ UNCHANGED <<users, links, challenges, jar, flows, begun, vouched, seeded, crossed>>

KeyOfBegin(q) == TRUE   \* mutant: those the challenge names are enough

\* and VerifyStepUp reads the keys of the user again
KeyStands(q)  == keys[q.key] = q.user
\* before the privileged change: root access of an agent, environment or
\* configuration shown.
StepUp(r) ==
  LET q == reqs[r] IN
  /\ q.at = "verify" /\ q.kind = "step_up"
  /\ UNCHANGED keys
  /\ IF KeyStands(q) THEN Accept(r, q.user) ELSE UNCHANGED accepted
  /\ Refuse(r)
  /\ UNCHANGED <<users, links, challenges, jar, flows, begun, vouched, seeded, crossed>>

\* delete: a user removes a key of his own.
DeleteKey(b, k) ==
  /\ User(b) # 0 /\ keys[k] = User(b)
  /\ keys' = [keys EXCEPT ![k] = None]
  /\ UNCHANGED <<users, links, challenges, jar, flows, reqs, begun, history>>

Handler(r) ==
  \/ Exchange(r) \/ Connect(r) \/ Identify(r) \/ FindEmail(r) \/ Provision(r) \/ LinkAndOpen(r)
  \/ TakeChallenge(r) \/ PasskeyLogin(r) \/ PasskeyRegister(r) \/ StepUp(r)

Browser(b) ==
  \/ \E e \in Emails : Login(b, e)
  \/ SessionEnds(b) \/ StateExpires(b)
  \/ \E via \in {"oauth", "oidc"}, purpose \in {"login", "git"} : OAuthStart(b, via, purpose)
  \/ \E purpose \in {"login", "enroll", "step_up"} : Begin(b, purpose)
  \/ \E k \in Keys : DeleteKey(b, k)

Next ==
  \/ \E r \in Requests : Handler(r)
  \/ \E b \in Browsers : Browser(b)
  \/ \E r \in Requests, n \in 1..Len(flows) : Callback(r, n)
  \/ \E e \in Emails : SeedAdmin(e)
  \/ \E r \in Requests, n \in 1..Len(begun), k \in Keys : Finish(r, n, k)
  \/ \E n \in challenges : ChallengeExpires(n)

Spec == Init /\ [][Next]_vars

-----------------------------------------------------------------------------
(***************************************************************************)
(* Properties.                                                             *)
(***************************************************************************)
\* A ceremony lets one request through, however often its answer is sent and
\* however the requests overlap (TakeChallenge); it lets it through for the user
\* who began it, or who owns the key, and the key belonged to that user at that
\* moment, not only when the ceremony began.
CeremoniesWarrant ==
  \A x \in accepted :
    /\ \A y \in accepted : x.n = y.n => x = y
    /\ x.user = x.owner
    /\ begun[x.n].purpose # "login" => x.user = begun[x.n].user

\* A session names an account that exists, and the one whose address was vouched
\* for, also when two first sign-ins of an address overlap and both insert it.
SessionsRight ==
  \A b \in Browsers : jar[b].session # 0 =>
    /\ jar[b].session \in Ids
    /\ vouched[b] # None => users[vouched[b]].id = jar[b].session

\* The seeded owner keeps the role and the password through every sign-in with
\* that address, unless the seed ran between the lookup and the insert of a first
\* sign-in, which then overwrites both.
OwnerKept ==
  \A e \in seeded \ crossed : users[e].role = "owner" /\ users[e].password

=============================================================================
