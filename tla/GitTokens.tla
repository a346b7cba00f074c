------------------------------ MODULE GitTokens ------------------------------
(***************************************************************************)
(* The tokens with which the control plane calls a git provider: the grant *)
(* a user has linked, whose access token is renewed with a refresh token,  *)
(* and the installation token of the GitHub App, which is minted again     *)
(* when it runs out.  Requests that need a token run side by side; callers *)
(* that find the grant due share one renewal (singleflight).               *)
(***************************************************************************)
EXTENDS Naturals, Sequences, FiniteSets

CONSTANTS
  Calls,       \* requests that need a token
  Accounts,    \* accounts of the user at the provider
  MaxTime,     \* bound: ticks; a token lives two, and is due in its second
  MaxFaults,   \* bound: calls and writes that fail, changes of the link
  None

VARIABLES
  rotating,  \* the provider replaces the refresh token at each renewal
  minted,    \* every token the provider gave out: [account, renews, born]
  good,      \* refresh tokens the provider would take
  row,       \* git_connections: None or [login, access, refresh, exp]
  cache,     \* App.tokens: an installation token, 0 for none
  flight,    \* the renewal that is under way
  calls,     \* per request: where it is and the token it got
  now, faults,
  lost,      \* history: an answer of the provider or a write of the row was lost
  crossed,   \* history: the grant was linked anew during a renewal
  burned     \* history: the provider refused a refresh token

vars == <<rotating, minted, good, row, cache, flight, calls, now, faults, lost, crossed, burned>>

Lifetime == 2
NoFlight == [at |-> "none", tok |-> None, access |-> 0]
Asked(at) == [at |-> at, tok |-> None, got |-> 0, fresh |-> TRUE]

\* The provider has been linked or not.
Init ==
  /\ rotating \in BOOLEAN
  /\ \/ minted = << >> /\ good = {} /\ row = None
     \/ \E a \in Accounts :
          /\ minted = <<[account |-> a, renews |-> TRUE, born |-> 0]>> /\ good = {1}
          /\ row = [login |-> a, access |-> 1, refresh |-> 1, exp |-> Lifetime]
  /\ cache = 0 /\ flight = NoFlight
  /\ calls = [c \in Calls |-> Asked("idle")]
  /\ now = 0 /\ faults = 0 /\ lost = FALSE /\ crossed = FALSE /\ burned = FALSE

Fault == faults < MaxFaults /\ faults' = faults + 1

\* A token may come without an expiry and a refresh token: it then never ends.
Expiry(n) == IF minted[n].renews THEN minted[n].born + Lifetime ELSE 0
Ended(exp) == exp # 0 /\ now >= exp

Mint(account, renews) ==
  minted' = Append(minted, [account |-> account, renews |-> renews, born |-> now])
New == Len(minted) + 1

\* Time, which stands still while a renewal awaits the provider: its timeout is
\* shorter than refreshSkew.
Tick ==
  /\ now < MaxTime /\ flight.at \notin {"refresh", "save"}
  /\ now' = now + 1
  /\ UNCHANGED <<rotating, minted, good, row, cache, flight, calls, faults, lost, crossed, burned>>

-----------------------------------------------------------------------------
(***************************************************************************)
(* The user links and unlinks the provider.                                *)
(***************************************************************************)
GrantKeepsRefresh(account, n, renews) ==  \* mutant: an empty refresh token keeps the stored one
  row' = [login |-> account, access |-> n,
          refresh |-> IF renews THEN n ELSE IF row = None THEN 0 ELSE row.refresh,
          exp |-> IF renews THEN now + Lifetime ELSE IF row = None THEN 0 ELSE row.exp]

\* Upsert: every column is replaced.
Grant(account, n, renews) ==
  row' = [login |-> account, access |-> n, refresh |-> IF renews THEN n ELSE 0,
          exp |-> IF renews THEN now + Lifetime ELSE 0]

\* The callback of "connect git"; the user may have chosen another account.
Link(account, renews) ==
  /\ Fault
  /\ Mint(account, renews)
  /\ good' = good \cup (IF renews THEN {New} ELSE {})
  /\ Grant(account, New, renews)
  /\ crossed' = (crossed \/ flight.at # "none")
  /\ UNCHANGED <<rotating, cache, flight, calls, now, lost, burned>>

\* DeleteGit.
Unlink ==
  /\ row # None /\ Fault
  /\ row' = None
  /\ crossed' = (crossed \/ flight.at # "none")
  /\ UNCHANGED <<rotating, minted, good, cache, flight, calls, now, lost, burned>>

-----------------------------------------------------------------------------
(***************************************************************************)
(* Token.                                                                  *)
(***************************************************************************)
\* needsRefresh: within refreshSkew of the end, or past it.
Due(tok) == tok.refresh # 0 /\ tok.exp # 0 /\ now + 1 >= tok.exp

Answer(c, n, exp) ==
  calls' = [calls EXCEPT ![c] = [Asked("done") EXCEPT !.got = n, !.fresh = ~Ended(exp)]]

\* A token without a refresh token is served as it is; one that is due sends
\* the caller to the shared renewal.
Token(c) ==
  /\ calls[c].at = "idle"
  /\ CASE row = None -> Answer(c, 0, 0)
       [] row # None /\ ~Due(row) -> Answer(c, row.access, row.exp)
       [] OTHER -> calls' = [calls EXCEPT ![c].at = "renew", ![c].tok = row]
  /\ UNCHANGED <<rotating, minted, good, row, cache, flight, now, faults, lost, crossed, burned>>

\* singleflight.Do: the first caller starts the renewal, the others wait for it.
Join(c) ==
  /\ calls[c].at = "renew"
  /\ calls' = [calls EXCEPT ![c].at = "waits"]
  /\ flight' = IF flight.at = "none" THEN [NoFlight EXCEPT !.at = "load", !.tok = calls[c].tok]
                                     ELSE flight
  /\ UNCHANGED <<rotating, minted, good, row, cache, now, faults, lost, crossed, burned>>

\* Everyone who waits gets the result, 0 for an error.
Deliver(n, exp) ==
  /\ flight' = NoFlight
  /\ calls' = [c \in Calls |-> IF calls[c].at = "waits"
                               THEN [Asked("done") EXCEPT !.got = n, !.fresh = ~Ended(exp)]
                               ELSE calls[c]]

ReloadSkipped ==  \* mutant: the renewal uses what its first caller has read
  /\ flight.at = "load"
  /\ flight' = [flight EXCEPT !.at = "refresh"]
  /\ UNCHANGED <<rotating, minted, good, row, cache, calls, now, faults, lost, crossed, burned>>

\* The row is read again: another renewal may have ended since.
Reload ==
  /\ flight.at = "load"
  /\ IF row = None THEN Deliver(0, 0)
     ELSE IF ~Due(row) THEN Deliver(row.access, row.exp)
     ELSE flight' = [flight EXCEPT !.at = "refresh", !.tok = row] /\ UNCHANGED calls
  /\ UNCHANGED <<rotating, minted, good, row, cache, now, faults, lost, crossed, burned>>

\* refreshGitToken fails: the current token is served while it lasts, then the
\* user is told to link the provider again.
Failed == IF Ended(flight.tok.exp) THEN Deliver(0, 0)
                                   ELSE Deliver(flight.tok.access, flight.tok.exp)

\* The provider takes a refresh token it knows, and with rotation forgets it.
Refresh ==
  LET old == flight.tok.refresh IN
  /\ flight.at = "refresh"
  /\ \/ /\ old \in good                            \* renewed, and the answer arrives or not
        /\ Mint(minted[old].account, TRUE)
        /\ good' = IF rotating THEN (good \ {old}) \cup {New} ELSE good
        /\ \/ /\ flight' = [flight EXCEPT !.at = "save", !.access = New]
              /\ UNCHANGED <<calls, faults, lost>>
           \/ Fault /\ lost' = TRUE /\ Failed
        /\ UNCHANGED burned
     \/ /\ old \notin good                         \* refused
        /\ burned' = TRUE /\ Failed
        /\ UNCHANGED <<minted, good, faults, lost>>
     \/ /\ Fault /\ Failed                         \* not reached
        /\ UNCHANGED <<minted, good, lost, burned>>
  /\ UNCHANGED <<rotating, row, cache, now, crossed>>

\* saveGitTokens: the columns of the token are replaced in whatever row is there
\* now; a refresh token the provider left out is kept.  The new access token
\* serves this call also when the row is gone or the write fails.
Save ==
  LET n == flight.access IN
  /\ flight.at = "save"
  /\ \/ /\ row' = IF row = None THEN None
                  ELSE [row EXCEPT !.access = n, !.exp = Expiry(n),
                                   !.refresh = IF rotating THEN n ELSE flight.tok.refresh]
        /\ UNCHANGED <<faults, lost>>
     \/ Fault /\ lost' = TRUE /\ UNCHANGED row
  /\ Deliver(n, Expiry(n))
  /\ UNCHANGED <<rotating, minted, good, cache, now, crossed, burned>>

-----------------------------------------------------------------------------
(***************************************************************************)
(* InstallationToken of the GitHub App.                                    *)
(***************************************************************************)
\* A cached token is served unless it is about to end.
AppToken(c) ==
  /\ calls[c].at = "idle"
  /\ IF cache # 0 /\ now + 1 < Expiry(cache)
     THEN Answer(c, cache, Expiry(cache))
     ELSE calls' = [calls EXCEPT ![c].at = "mint"]
  /\ UNCHANGED <<rotating, minted, good, row, cache, flight, now, faults, lost, crossed, burned>>

\* Otherwise a new one is minted and cached: callers do not share this call, and
\* the last to end leaves its token.
AppMint(c) ==
  /\ calls[c].at = "mint"
  /\ \/ /\ Mint(None, TRUE)
        /\ calls' = [calls EXCEPT ![c].at = "store", ![c].got = New]
        /\ UNCHANGED faults
     \/ Fault /\ Answer(c, 0, 0) /\ UNCHANGED minted
  /\ UNCHANGED <<rotating, good, row, cache, flight, now, lost, crossed, burned>>

AppStore(c) ==
  /\ calls[c].at = "store"
  /\ cache' = calls[c].got
  /\ Answer(c, calls[c].got, 0)
  /\ UNCHANGED <<rotating, minted, good, row, flight, now, faults, lost, crossed, burned>>

System ==
  \/ Reload \/ Refresh \/ Save
  \/ \E c \in Calls : Join(c) \/ AppMint(c) \/ AppStore(c)

Next ==
  \/ System \/ Tick \/ Unlink
  \/ \E c \in Calls : Token(c) \/ AppToken(c)
  \/ \E a \in Accounts, renews \in BOOLEAN : Link(a, renews)

\* Handlers go on and the provider answers or times out; nobody need ask.
FairSpec == Init /\ [][Next]_vars /\ WF_vars(System)

-----------------------------------------------------------------------------
(***************************************************************************)
(* Properties.                                                             *)
(***************************************************************************)
\* Requests side by side do not use up a refresh token twice (Token, "burned by
\* parallel renewals"): the provider refuses one only after its answer or the
\* write of the row was lost, or the grant was linked anew during a renewal.
NoneBurned == burned => lost \/ crossed

\* The tokens of the row are of the account the row shows, unless the provider
\* was linked anew during a renewal, whose save then overwrites the new tokens.
OneAccount ==
  row # None /\ ~crossed =>
    /\ minted[row.access].account = row.login
    /\ row.refresh # 0 => minted[row.refresh].account = row.login

\* A request is served a token that has not ended.
ServedFresh == \A c \in Calls : calls[c].got # 0 => calls[c].fresh

\* Every request that needs a token is answered.
Answered == \A c \in Calls : calls[c].at \in {"idle", "done"}
CallsEnd == <>[]Answered
=============================================================================
