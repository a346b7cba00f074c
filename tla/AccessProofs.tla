----------------------------- MODULE AccessProofs ----------------------------
(***************************************************************************)
(* Proofs about MCAccess: about the tokens of git providers (GitTokens),   *)
(* hosts that enrol (Enroll), users who sign in (SignIn), and              *)
(* notifications (Notify), for any number of requests, accounts, hosts,    *)
(* tokens, targets, events and faults.                                     *)
(***************************************************************************)
EXTENDS MCAccess, SequenceTheorems, FiniteSetTheorems, TLAPS

(***************************************************************************)
(* Git tokens.  While a renewal is under way the row is the one it was     *)
(* begun with, unless the grant was linked anew; so the provider knows the *)
(* refresh token it is sent, and what is saved is of the row's account.    *)
(***************************************************************************)
Minted == [account : Logins \cup {None}, renews : BOOLEAN, born : Nat]

GitTyped ==
  /\ minted \in Seq(Minted) /\ now \in Nat
  /\ DOMAIN calls = Calls
  /\ row # None =>
       /\ DOMAIN row = {"login", "access", "refresh", "exp"}
       /\ row.access \in 1..Len(minted) /\ row.refresh \in 0..Len(minted)
       /\ row.exp \in Nat /\ (row.refresh = 0 => row.exp = 0)

\* The renewal that is under way.
FlightInv ==
  /\ DOMAIN flight = {"at", "tok", "access"}
  /\ flight.at \in {"none", "load", "refresh", "save"}
  /\ flight.at \in {"refresh", "save"} =>
       /\ flight.tok.refresh \in 1..Len(minted)
       /\ ~gcrossed => row = flight.tok /\ row # None
  /\ flight.at = "save" =>
       /\ flight.access \in 1..Len(minted)
       /\ minted[flight.access].born = now
       /\ minted[flight.access].account = minted[flight.tok.refresh].account

\* The provider takes the refresh token of the row, or the one about to be saved.
GrantInv ==
  ~lost /\ ~gcrossed =>
    /\ row # None /\ row.refresh # 0 /\ flight.at # "save" => row.refresh \in good
    /\ flight.at = "save" => (IF rotating THEN flight.access ELSE flight.tok.refresh) \in good

\* A request has a token that has not ended, or none yet.
CallsInv ==
  \A c \in Calls : (calls[c].got # 0 => calls[c].fresh) /\ (calls[c].at # "done" => calls[c].fresh)

\* Installation tokens that are cached or about to be were given out.
CacheInv ==
  /\ cache \in 0..Len(minted)
  /\ \A c \in Calls : /\ DOMAIN calls[c] = {"at", "tok", "got", "fresh"}
                      /\ calls[c].at = "store" => calls[c].got \in 1..Len(minted)

GitInv == GitTyped /\ FlightInv /\ GrantInv /\ CallsInv /\ Git!NoneBurned /\ Git!OneAccount

\* Time passes.
LEMMA GitTick == ASSUME GitInv, Git!Tick PROVE GitInv'
<1> USE DEF GitInv, Git!Tick
<1>1. now' \in Nat /\ flight.at \notin {"refresh", "save"}
  BY DEF GitTyped
<1>2. UNCHANGED <<rotating, minted, good, row, flight, calls, lost, gcrossed, burned>>
  OBVIOUS
<1>3. GitTyped'
  BY <1>1, <1>2 DEF GitTyped
<1>4. FlightInv'
  BY <1>1, <1>2 DEF FlightInv
<1>5. GrantInv' /\ CallsInv'
  BY <1>2 DEF GrantInv, CallsInv
<1>6. Git!NoneBurned' /\ Git!OneAccount'
  BY <1>2 DEF Git!NoneBurned, Git!OneAccount
<1> QED BY <1>3, <1>4, <1>5, <1>6

\* A token that is given out is the last one, and the others stay.
LEMMA GitMints ==
  ASSUME GitTyped, NEW account \in Logins \cup {None}, NEW renews \in BOOLEAN,
         Git!Mint(account, renews)
  PROVE  /\ minted' \in Seq(Minted) /\ Len(minted) \in Nat
         /\ Len(minted') = Len(minted) + 1 /\ Git!New = Len(minted) + 1
         /\ minted'[Git!New] = [account |-> account, renews |-> renews, born |-> now]
         /\ \A n \in 1..Len(minted) : minted'[n] = minted[n]
<1> DEFINE t == [account |-> account, renews |-> renews, born |-> now]
<1>1. t \in Minted /\ minted' = Append(minted, t) /\ minted \in Seq(Minted)
  BY DEF Git!Mint, GitTyped, Minted
<1> HIDE DEF t, Minted
<1>2. /\ minted' \in Seq(Minted) /\ Len(minted) \in Nat
      /\ Len(minted') = Len(minted) + 1 /\ minted'[Len(minted) + 1] = t
      /\ \A n \in 1..Len(minted) : minted'[n] = minted[n]
  BY <1>1, AppendProperties, LenProperties
<1> QED BY <1>2 DEF Git!New, t

\* The provider is linked: a new row, and a renewal that is under way has crossed.
LEMMA GitLink ==
  ASSUME GitInv, NEW a \in Logins, NEW renews \in BOOLEAN, Git!Link(a, renews)
  PROVE  GitInv'
<1>1. /\ Git!Mint(a, renews) /\ Git!Grant(a, Git!New, renews)
      /\ good' = good \cup (IF renews THEN {Git!New} ELSE {})
      /\ gcrossed' = (gcrossed \/ flight.at # "none")
      /\ UNCHANGED <<rotating, flight, calls, now, lost, burned>>
  BY DEF Git!Link
<1>2. PICK n : n = Git!New
  OBVIOUS
<1>3. /\ minted' \in Seq(Minted) /\ Len(minted) \in Nat /\ n = Len(minted) + 1
      /\ Len(minted') = n /\ minted'[n].account = a
      /\ \A k \in 1..Len(minted) : minted'[k] = minted[k]
  <2>1. a \in Logins \cup {None} /\ GitTyped
    BY DEF GitInv
  <2>2. /\ minted' \in Seq(Minted) /\ Len(minted) \in Nat /\ n = Len(minted) + 1
        /\ Len(minted') = Len(minted) + 1
        /\ \A k \in 1..Len(minted) : minted'[k] = minted[k]
    BY <1>1, <1>2, <2>1, GitMints
  <2>3. minted'[n] = [account |-> a, renews |-> renews, born |-> now]
    BY <1>1, <1>2, <2>1, GitMints
  <2> QED BY <2>2, <2>3
<1>4. row' = [login |-> a, access |-> n, refresh |-> IF renews THEN n ELSE 0,
              exp |-> IF renews THEN now + 2 ELSE 0]
  BY <1>1, <1>2 DEF Git!Grant, Git!Lifetime
<1>5. now \in Nat /\ DOMAIN calls = Calls
  BY DEF GitInv, GitTyped
<1>6. /\ row'.login = a /\ row'.access = n /\ row'.refresh = (IF renews THEN n ELSE 0)
      /\ row'.exp = (IF renews THEN now + 2 ELSE 0)
      /\ DOMAIN row' = {"login", "access", "refresh", "exp"}
  BY <1>4
<1>7. GitTyped'
  BY <1>1, <1>3, <1>5, <1>6 DEF GitTyped
<1>8. FlightInv'
  <2>1. flight'.at \in {"refresh", "save"} => flight'.tok.refresh \in 1..Len(minted')
    BY <1>1, <1>3 DEF GitInv, FlightInv
  <2>0. flight'.at \in {"refresh", "save"} => gcrossed'
    BY <1>1
  <2>2. flight'.at = "save" =>
          /\ flight'.access \in 1..Len(minted')
          /\ minted'[flight'.access].born = now'
          /\ minted'[flight'.access].account = minted'[flight'.tok.refresh].account
    BY <1>1, <1>3 DEF GitInv, FlightInv
  <2> QED BY <1>1, <2>0, <2>1, <2>2 DEF GitInv, FlightInv
<1>9. GrantInv'
  <2>1. ~gcrossed' => flight'.at = "none"
    BY <1>1
  <2>2. row'.refresh # 0 => row'.refresh \in good'
    BY <1>1, <1>2, <1>6
  <2> QED BY <2>1, <2>2 DEF GrantInv
<1>10. CallsInv' /\ Git!NoneBurned'
  BY <1>1 DEF GitInv, CallsInv, Git!NoneBurned
<1>11. Git!OneAccount'
  BY <1>3, <1>6 DEF Git!OneAccount
<1> QED BY <1>7, <1>8, <1>9, <1>10, <1>11 DEF GitInv

LEMMA GitUnlink == ASSUME GitInv, Git!Unlink PROVE GitInv'
<1>1. /\ row' = None /\ gcrossed' = (gcrossed \/ flight.at # "none")
      /\ UNCHANGED <<rotating, minted, good, flight, calls, now, lost, burned>>
  BY DEF Git!Unlink
<1>2. GitTyped' /\ Git!OneAccount'
  BY <1>1 DEF GitInv, GitTyped, Git!OneAccount
<1>3. FlightInv' /\ GrantInv'
  BY <1>1 DEF GitInv, FlightInv, GrantInv
<1>4. CallsInv' /\ Git!NoneBurned'
  BY <1>1 DEF GitInv, CallsInv, Git!NoneBurned
<1> QED BY <1>2, <1>3, <1>4 DEF GitInv

\* A request, or every request that waits, is answered with a token that has not
\* ended.
LEMMA GitAnswers ==
  ASSUME GitTyped, CallsInv, NEW c \in Calls, NEW n, NEW exp, Git!Answer(c, n, exp),
         n # 0 => ~Git!Ended(exp)
  PROVE  CallsInv' /\ DOMAIN calls' = Calls
<1> DEFINE r == [Git!Asked("done") EXCEPT !.got = n, !.fresh = ~Git!Ended(exp)]
<1>1. calls' = [calls EXCEPT ![c] = r]
  BY DEF Git!Answer
<1>2. r.at = "done" /\ r.got = n /\ (n # 0 => r.fresh)
  BY DEF Git!Asked
<1> HIDE DEF r
<1>3. DOMAIN calls = Calls
  BY DEF GitTyped
<1> QED BY <1>1, <1>2, <1>3 DEF CallsInv

LEMMA GitDelivers ==
  ASSUME GitTyped, CallsInv, NEW n, NEW exp, Git!Deliver(n, exp), n # 0 => ~Git!Ended(exp)
  PROVE  CallsInv' /\ DOMAIN calls' = Calls /\ flight' = Git!NoFlight
<1> DEFINE r == [Git!Asked("done") EXCEPT !.got = n, !.fresh = ~Git!Ended(exp)]
<1>1. /\ calls' = [c \in Calls |-> IF calls[c].at = "waits" THEN r ELSE calls[c]]
      /\ flight' = Git!NoFlight
  BY DEF Git!Deliver
<1>2. r.at = "done" /\ r.got = n /\ (n # 0 => r.fresh)
  BY DEF Git!Asked
<1> HIDE DEF r
<1> QED BY <1>1, <1>2 DEF CallsInv

\* A renewal that has ended leaves nothing under way.
LEMMA NoFlightInv ==
  ASSUME flight' = Git!NoFlight
  PROVE  FlightInv' /\ flight'.at = "none"
BY DEF FlightInv, Git!NoFlight

\* A step that leaves tokens, row and renewal alone.
LEMMA GitQuiet ==
  ASSUME GitInv, UNCHANGED <<rotating, minted, good, row, flight, now, lost, gcrossed, burned>>,
         CallsInv', DOMAIN calls' = Calls
  PROVE  GitInv'
<1>1. GitTyped' /\ FlightInv' /\ GrantInv'
  BY DEF GitInv, GitTyped, FlightInv, GrantInv
<1>2. Git!NoneBurned' /\ Git!OneAccount'
  BY DEF GitInv, Git!NoneBurned, Git!OneAccount
<1> QED BY <1>1, <1>2 DEF GitInv

\* The token of a row that is not due has not ended.
LEMMA NotDue ==
  ASSUME GitTyped, row # None, ~Git!Due(row)
  PROVE  ~Git!Ended(row.exp)
BY DEF GitTyped, Git!Due, Git!Ended

LEMMA GitToken == ASSUME GitInv, NEW c \in Calls, Git!Token(c) PROVE GitInv'
<1>1. /\ UNCHANGED <<rotating, minted, good, row, flight, now, lost, gcrossed, burned>>
      /\ GitTyped /\ CallsInv /\ DOMAIN calls = Calls
  BY DEF Git!Token, GitInv, GitTyped
<1>2. CallsInv' /\ DOMAIN calls' = Calls
  <2>1. CASE Git!Answer(c, 0, 0)
    BY <1>1, <2>1, GitAnswers
  <2>2. CASE row # None /\ ~Git!Due(row) /\ Git!Answer(c, row.access, row.exp)
    <3>1. PICK n, exp : n = row.access /\ exp = row.exp
      OBVIOUS
    <3>2. Git!Answer(c, n, exp) /\ ~Git!Ended(exp)
      BY <1>1, <2>2, <3>1, NotDue
    <3> QED BY <1>1, <3>2, GitAnswers
  <2>3. CASE calls[c].at = "idle" /\ calls' = [calls EXCEPT ![c].at = "renew", ![c].tok = row]
    BY <1>1, <2>3 DEF CallsInv
  <2> QED BY <2>1, <2>2, <2>3 DEF Git!Token
<1> QED BY <1>1, <1>2, GitQuiet

\* The first caller starts the renewal; it has read the row, but the renewal reads
\* it again.
LEMMA GitJoin == ASSUME GitInv, NEW c \in Calls, Git!Join(c) PROVE GitInv'
<1>1. /\ UNCHANGED <<rotating, minted, good, row, now, lost, gcrossed, burned>>
      /\ calls[c].at = "renew" /\ calls' = [calls EXCEPT ![c].at = "waits"]
      /\ flight' = IF flight.at = "none" THEN [Git!NoFlight EXCEPT !.at = "load", !.tok = calls[c].tok]
                                         ELSE flight
  BY DEF Git!Join
<1>2. CallsInv' /\ GitTyped'
  BY <1>1 DEF GitInv, GitTyped, CallsInv
<1>3. Git!NoneBurned' /\ Git!OneAccount'
  BY <1>1 DEF GitInv, Git!NoneBurned, Git!OneAccount
<1>4. FlightInv' /\ GrantInv'
  <2>1. CASE flight.at = "none"
    <3>1. DOMAIN flight' = {"at", "tok", "access"} /\ flight'.at = "load"
      BY <1>1, <2>1 DEF Git!NoFlight
    <3> QED BY <1>1, <2>1, <3>1 DEF GitInv, FlightInv, GrantInv
  <2>2. CASE flight.at # "none"
    BY <1>1, <2>2 DEF GitInv, FlightInv, GrantInv
  <2> QED BY <2>1, <2>2
<1> QED BY <1>2, <1>3, <1>4 DEF GitInv

\* A renewal ends and leaves the row as it is: with every token it knew.
LEMMA GitEnds ==
  ASSUME GitInv, flight.at # "save" \/ lost', flight' = Git!NoFlight,
         CallsInv', DOMAIN calls' = Calls,
         minted' \in Seq(Minted), Len(minted) \in Nat, Len(minted') \in Nat, Len(minted') >= Len(minted),
         \A n \in 1..Len(minted) : minted'[n] = minted[n],
         UNCHANGED <<row, now, gcrossed>>, lost' \/ (lost' = lost /\ good' = good),
         burned' => lost' \/ gcrossed
  PROVE  GitInv'
<1>1. GitTyped'
  BY DEF GitInv, GitTyped
<1>2. FlightInv' /\ flight'.at = "none"
  BY NoFlightInv
<1>3. GrantInv'
  BY <1>2 DEF GitInv, GrantInv
<1>4. Git!NoneBurned'
  BY DEF Git!NoneBurned
<1>5. Git!OneAccount'
  BY DEF GitInv, GitTyped, Git!OneAccount
<1> QED BY <1>1, <1>2, <1>3, <1>4, <1>5 DEF GitInv

LEMMA GitReload == ASSUME GitInv, Git!Reload PROVE GitInv'
<1>1. /\ UNCHANGED <<rotating, minted, good, row, now, lost, gcrossed, burned>>
      /\ flight.at = "load" /\ GitTyped /\ CallsInv /\ Git!NoneBurned
      /\ minted \in Seq(Minted) /\ Len(minted) \in Nat
  <2>1. minted \in Seq(Minted)
    BY DEF GitInv, GitTyped
  <2>2. Len(minted) \in Nat
    <3> HIDE DEF Minted
    <3> QED BY <2>1, LenProperties
  <2> QED BY <2>1, <2>2 DEF Git!Reload, GitInv
<1>2. ASSUME NEW n, NEW exp, Git!Deliver(n, exp), n # 0 => ~Git!Ended(exp) PROVE GitInv'
  <2>1. CallsInv' /\ DOMAIN calls' = Calls /\ flight' = Git!NoFlight
    BY <1>1, <1>2, GitDelivers
  <2> HIDE DEF Minted
  <2> QED BY <1>1, <2>1, GitEnds DEF Git!NoneBurned
<1>3. CASE row = None /\ Git!Deliver(0, 0)
  BY <1>2, <1>3
<1>4. CASE row # None /\ ~Git!Due(row) /\ Git!Deliver(row.access, row.exp)
  <2>1. PICK n, exp : n = row.access /\ exp = row.exp
    OBVIOUS
  <2>2. Git!Deliver(n, exp) /\ ~Git!Ended(exp)
    BY <1>1, <1>4, <2>1, NotDue
  <2> QED BY <1>2, <2>2
<1>5. CASE row # None /\ Git!Due(row) /\ calls' = calls
           /\ flight' = [flight EXCEPT !.at = "refresh", !.tok = row]
  <2>1. /\ DOMAIN flight' = {"at", "tok", "access"} /\ flight'.at = "refresh" /\ flight'.tok = row
    BY <1>1, <1>5 DEF GitInv, FlightInv
  <2>2. row.refresh \in 1..Len(minted)
    BY <1>1, <1>5 DEF GitTyped, Git!Due
  <2>3. FlightInv'
    BY <1>1, <1>5, <2>1, <2>2 DEF FlightInv
  <2>4. GrantInv'
    BY <1>1, <1>5, <2>1 DEF GitInv, GrantInv
  <2>5. GitTyped' /\ CallsInv'
    BY <1>1, <1>5 DEF GitTyped, CallsInv
  <2>6. Git!NoneBurned' /\ Git!OneAccount'
    BY <1>1 DEF GitInv, Git!NoneBurned, Git!OneAccount
  <2> QED BY <2>3, <2>4, <2>5, <2>6 DEF GitInv
<1> QED BY <1>3, <1>4, <1>5 DEF Git!Reload

\* The provider renews the grant and its answer arrives or not, or it refuses, or it
\* is not reached.  Without the answer the token in hand is served while it lasts.
LEMMA GitRefresh == ASSUME GitInv, Git!Refresh PROVE GitInv'
<1>0. PICK old, acc, exp : /\ old = flight.tok.refresh /\ acc = flight.tok.access
                           /\ exp = flight.tok.exp
  OBVIOUS
<1>1. /\ flight.at = "refresh" /\ old \in 1..Len(minted) /\ GitTyped /\ CallsInv
      /\ UNCHANGED <<rotating, row, now, gcrossed>> /\ DOMAIN calls = Calls
  BY <1>0 DEF Git!Refresh, GitInv, FlightInv, GitTyped
<1>2. /\ minted \in Seq(Minted) /\ Len(minted) \in Nat
      /\ minted[old].account \in Logins \cup {None}
  <2>1. minted \in Seq(Minted)
    BY <1>1 DEF GitTyped
  <2>2. minted[old] \in Minted /\ Len(minted) \in Nat
    <3> HIDE DEF Minted
    <3> QED BY <1>1, <2>1, ElementOfSeq, LenProperties
  <2> QED BY <2>1, <2>2 DEF Minted
<1>3. ASSUME Git!Failed
      PROVE  CallsInv' /\ DOMAIN calls' = Calls /\ flight' = Git!NoFlight
  <2>1. CASE Git!Deliver(0, 0)
    BY <1>1, <2>1, GitDelivers
  <2>2. CASE ~Git!Ended(exp) /\ Git!Deliver(acc, exp)
    BY <1>1, <2>2, GitDelivers
  <2> QED BY <1>0, <1>3, <2>1, <2>2 DEF Git!Failed
<1>4. ~lost /\ ~gcrossed => old \in good
  BY <1>0, <1>1 DEF GitInv, FlightInv, GrantInv
<1>5. ASSUME Git!Mint(minted[old].account, TRUE)
      PROVE  /\ minted' \in Seq(Minted) /\ Len(minted') = Len(minted) + 1
             /\ Git!New = Len(minted) + 1
             /\ minted'[Len(minted) + 1].account = minted[old].account
             /\ minted'[Len(minted) + 1].born = now
             /\ \A n \in 1..Len(minted) : minted'[n] = minted[n]
  <2>1. PICK account \in Logins \cup {None} : account = minted[old].account
    BY <1>2
  <2>2. TRUE \in BOOLEAN /\ Git!Mint(account, TRUE)
    BY <1>5, <2>1
  <2>3. /\ minted' \in Seq(Minted) /\ Len(minted') = Len(minted) + 1
        /\ Git!New = Len(minted) + 1
        /\ minted'[Git!New] = [account |-> account, renews |-> TRUE, born |-> now]
        /\ \A n \in 1..Len(minted) : minted'[n] = minted[n]
    BY <1>1, <2>2, GitMints
  <2> QED BY <2>1, <2>3
<1>6. ASSUME Git!Mint(minted[old].account, TRUE), burned' = burned,
             good' = IF rotating THEN (good \ {old}) \cup {Git!New} ELSE good,
             flight' = [flight EXCEPT !.at = "save", !.access = Git!New],
             UNCHANGED <<calls, lost>>, old \in good
      PROVE  GitInv'
  <2>1. PICK n : n = Len(minted) + 1
    OBVIOUS
  <2>2. /\ minted' \in Seq(Minted) /\ Len(minted') = n /\ n \in Nat /\ Len(minted) < n
        /\ Git!New = n /\ minted'[n].account = minted[old].account /\ minted'[n].born = now
        /\ \A k \in 1..Len(minted) : minted'[k] = minted[k]
    BY <1>2, <1>5, <1>6, <2>1
  <2>3. /\ DOMAIN flight' = {"at", "tok", "access"} /\ flight'.at = "save" /\ flight'.access = n
        /\ flight'.tok = flight.tok
    BY <1>6, <2>2 DEF GitInv, FlightInv
  <2>4. GitTyped'
    BY <1>1, <1>2, <1>6, <2>2 DEF GitTyped
  <2>5. FlightInv'
    <3>1. ~gcrossed => row = flight.tok /\ row # None
      BY <1>1 DEF GitInv, FlightInv
    <3>2. old \in 1..Len(minted') /\ n \in 1..Len(minted') /\ minted'[old] = minted[old]
      BY <1>1, <1>2, <2>2
    <3> QED BY <1>0, <1>1, <2>2, <2>3, <3>1, <3>2 DEF FlightInv
  <2>6. GrantInv'
    BY <1>0, <1>1, <1>6, <2>2, <2>3 DEF GrantInv
  <2>7. CallsInv' /\ Git!NoneBurned'
    BY <1>1, <1>6 DEF GitInv, CallsInv, Git!NoneBurned
  <2>8. Git!OneAccount'
    BY <1>1, <2>2 DEF GitInv, GitTyped, Git!OneAccount
  <2> QED BY <2>4, <2>5, <2>6, <2>7, <2>8 DEF GitInv
<1>7. ASSUME Git!Mint(minted[old].account, TRUE), lost' = TRUE, Git!Failed, burned' = burned
      PROVE  GitInv'
  <2>1. Len(minted') \in Nat /\ Len(minted') >= Len(minted)
    BY <1>2, <1>5, <1>7
  <2> HIDE DEF Minted
  <2> QED BY <1>1, <1>2, <1>3, <1>5, <1>7, <2>1, GitEnds
<1>8. ASSUME old \notin good, burned' = TRUE, Git!Failed, UNCHANGED <<minted, good, lost>>
      PROVE  GitInv'
  <2>1. burned' => lost' \/ gcrossed
    BY <1>4, <1>8
  <2> HIDE DEF Minted
  <2> QED BY <1>1, <1>2, <1>3, <1>8, <2>1, GitEnds
<1>9. ASSUME Git!Failed, UNCHANGED <<minted, good, lost, burned>>
      PROVE  GitInv'
  <2>1. burned' => lost' \/ gcrossed
    BY <1>9 DEF GitInv, Git!NoneBurned
  <2> HIDE DEF Minted
  <2> QED BY <1>1, <1>2, <1>3, <1>9, <2>1, GitEnds
<1> QED BY <1>0, <1>6, <1>7, <1>8, <1>9 DEF Git!Refresh

\* What is saved is of the account of the row, unless that has been linked anew.
LEMMA GitSave == ASSUME GitInv, Git!Save PROVE GitInv'
<1>0. PICK n, exp, tok : n = flight.access /\ exp = Git!Expiry(n) /\ tok = flight.tok
  OBVIOUS
<1>1. /\ flight.at = "save" /\ n \in 1..Len(minted) /\ tok.refresh \in 1..Len(minted)
      /\ minted[n].born = now /\ minted[n].account = minted[tok.refresh].account
      /\ ~gcrossed => row = tok /\ row # None
      /\ GitTyped /\ CallsInv /\ DOMAIN calls = Calls /\ now \in Nat
      /\ UNCHANGED <<rotating, minted, good, now, gcrossed, burned>>
      /\ Git!Deliver(n, exp)
  BY <1>0 DEF Git!Save, GitInv, FlightInv, GitTyped
<1>2. exp \in Nat /\ ~Git!Ended(exp)
  BY <1>0, <1>1 DEF Git!Expiry, Git!Ended, Git!Lifetime
<1>3. CallsInv' /\ DOMAIN calls' = Calls /\ flight' = Git!NoFlight
  BY <1>1, <1>2, GitDelivers
<1>4. minted \in Seq(Minted) /\ Len(minted) \in Nat
  <2>1. minted \in Seq(Minted)
    BY <1>1 DEF GitTyped
  <2> HIDE DEF Minted
  <2> QED BY <2>1, LenProperties
<1>5. ASSUME lost' = lost,
             row' = IF row = None THEN None
                    ELSE [row EXCEPT !.access = n, !.exp = exp,
                                     !.refresh = IF rotating THEN n ELSE tok.refresh]
      PROVE  GitInv'
  <2>1. row # None => /\ row'.access = n /\ row'.exp = exp /\ row'.login = row.login
                      /\ row'.refresh = (IF rotating THEN n ELSE tok.refresh)
                      /\ DOMAIN row' = {"login", "access", "refresh", "exp"}
    BY <1>1, <1>5 DEF GitTyped
  <2>2. GitTyped'
    BY <1>1, <1>2, <1>3, <1>4, <1>5, <2>1 DEF GitTyped
  <2>3. FlightInv' /\ flight'.at = "none"
    BY <1>3, NoFlightInv
  <2>4. GrantInv'
    BY <1>0, <1>1, <1>5, <2>1, <2>3 DEF GitInv, GrantInv
  <2>5. Git!NoneBurned'
    BY <1>1, <1>5 DEF GitInv, Git!NoneBurned
  <2>6. Git!OneAccount'
    <3> SUFFICES ASSUME row' # None, ~gcrossed
                 PROVE  /\ minted[row'.access].account = row'.login
                        /\ row'.refresh # 0 => minted[row'.refresh].account = row'.login
      BY <1>1 DEF Git!OneAccount
    <3>1. row = tok /\ row # None /\ tok.refresh # 0
      BY <1>1, <1>4
    <3>2. minted[tok.refresh].account = row.login
      BY <3>1 DEF GitInv, Git!OneAccount
    <3> QED BY <1>1, <2>1, <3>1, <3>2
  <2> QED BY <1>3, <2>2, <2>3, <2>4, <2>5, <2>6 DEF GitInv
<1>6. ASSUME lost' = TRUE, row' = row PROVE GitInv'
  <2>1. Len(minted') \in Nat /\ Len(minted') >= Len(minted) /\ minted' = minted
    BY <1>1, <1>4
  <2>2. minted' \in Seq(Minted)
    BY <1>4, <2>1
  <2> HIDE DEF Minted
  <2> QED BY <1>1, <1>3, <1>4, <1>6, <2>1, <2>2, GitEnds
<1> QED BY <1>0, <1>5, <1>6 DEF Git!Save

\* Whatever happens, an installation token that is cached was given out.
LEMMA CacheStep == ASSUME GitTyped, CacheInv, Git!Next PROVE CacheInv'
<1>1. DOMAIN calls = Calls /\ minted \in Seq(Minted)
  BY DEF GitTyped
<1>2. Len(minted) \in Nat
  <2> HIDE DEF Minted
  <2> QED BY <1>1, LenProperties
<1>3. Len(minted') \in Nat /\ Len(minted') >= Len(minted)
  <2>1. minted' = minted \/ \E t : minted' = Append(minted, t)
    BY DEF Git!Next, Git!System, Git!Tick, Git!Unlink, Git!Token, Git!AppToken, Git!Link, Git!Reload,
           Git!Refresh, Git!Save, Git!Join, Git!AppMint, Git!AppStore, Git!Mint
  <2> QED BY <1>1, <1>2, <2>1
<1>4. cache' \in 0..Len(minted')
  <2>1. ASSUME NEW c \in Calls, Git!AppStore(c) PROVE cache' \in 0..Len(minted')
    BY <1>2, <1>3, <2>1 DEF Git!AppStore, CacheInv
  <2>2. CASE ~\E c \in Calls : Git!AppStore(c)
    <3>1. cache' = cache
      BY <2>2 DEF Git!Next, Git!System, Git!Tick, Git!Unlink, Git!Token, Git!AppToken, Git!Link,
             Git!Reload, Git!Refresh, Git!Save, Git!Join, Git!AppMint
    <3> QED BY <1>2, <1>3, <3>1 DEF CacheInv
  <2> QED BY <2>1, <2>2
<1> DEFINE Named(r) == /\ DOMAIN r = {"at", "tok", "got", "fresh"}
                       /\ r.at = "store" => r.got \in 1..Len(minted')
<1>5. \A c \in Calls : Named(calls[c])
  BY <1>2, <1>3 DEF CacheInv
<1>6. ASSUME NEW c \in Calls PROVE Named(calls'[c])
  <2>1. CASE calls' = calls
    BY <1>5, <2>1
  <2>2. ASSUME NEW d \in Calls, NEW n, NEW exp, Git!Answer(d, n, exp) PROVE Named(calls'[c])
    BY <1>1, <1>5, <2>2 DEF Git!Answer, Git!Asked
  <2>3. ASSUME NEW n, NEW exp, Git!Deliver(n, exp) PROVE Named(calls'[c])
    BY <1>5, <2>3 DEF Git!Deliver, Git!Asked
  <2>4. ASSUME NEW d \in Calls, NEW at, at # "store", NEW tok,
               \/ calls' = [calls EXCEPT ![d].at = at]
               \/ calls' = [calls EXCEPT ![d].at = at, ![d].tok = tok]
        PROVE  Named(calls'[c])
    BY <1>1, <1>5, <2>4
  <2>5. ASSUME NEW d \in Calls, Git!Token(d) PROVE Named(calls'[c])
    <3>1. PICK n, exp, tok : n = row.access /\ exp = row.exp /\ tok = row
      OBVIOUS
    <3>2. Git!Answer(d, 0, 0) \/ Git!Answer(d, n, exp)
            \/ calls' = [calls EXCEPT ![d].at = "renew", ![d].tok = tok]
      BY <2>5, <3>1 DEF Git!Token
    <3> QED BY <2>2, <2>4, <3>2
  <2>6. ASSUME NEW d \in Calls, Git!AppToken(d) PROVE Named(calls'[c])
    <3>1. PICK n, exp : n = cache /\ exp = Git!Expiry(cache)
      OBVIOUS
    <3>2. Git!Answer(d, n, exp) \/ calls' = [calls EXCEPT ![d].at = "mint"]
      BY <2>6, <3>1 DEF Git!AppToken
    <3> QED BY <2>2, <2>4, <3>2
  <2>7. ASSUME NEW d \in Calls, Git!AppMint(d) PROVE Named(calls'[c])
    <3>1. CASE Git!Answer(d, 0, 0)
      BY <2>2, <3>1
    <3>2. CASE Git!Mint(None, TRUE) /\ calls' = [calls EXCEPT ![d].at = "store", ![d].got = Git!New]
      <4>1. Git!New \in 1..Len(minted')
        BY <1>1, <1>2, <3>2 DEF Git!Mint, Git!New
      <4> QED BY <1>1, <1>5, <3>2, <4>1
    <3> QED BY <2>7, <3>1, <3>2 DEF Git!AppMint
  <2>8. ASSUME NEW d \in Calls, Git!AppStore(d) PROVE Named(calls'[c])
    <3>1. PICK n : n = calls[d].got
      OBVIOUS
    <3> QED BY <2>2, <2>8, <3>1 DEF Git!AppStore
  <2>9. CASE Git!Reload \/ Git!Refresh \/ Git!Save
    <3>1. PICK acc, exp, end, new, at : /\ acc = row.access /\ exp = row.exp /\ end = flight.tok.exp
                                        /\ new = flight.access /\ at = flight.tok.access
      OBVIOUS
    <3>2. PICK late : late = Git!Expiry(new)
      OBVIOUS
    <3>3. \/ calls' = calls \/ Git!Deliver(0, 0) \/ Git!Deliver(acc, exp)
          \/ Git!Deliver(at, end) \/ Git!Deliver(new, late)
      BY <2>9, <3>1, <3>2 DEF Git!Reload, Git!Refresh, Git!Save, Git!Failed
    <3> QED BY <2>1, <2>3, <3>3
  <2>10. CASE \E d \in Calls : Git!Join(d)
    BY <2>4, <2>10 DEF Git!Join
  <2>11. CASE Git!Tick \/ Git!Unlink \/ \E a \in Logins, renews \in BOOLEAN : Git!Link(a, renews)
    BY <2>1, <2>11 DEF Git!Tick, Git!Unlink, Git!Link
  <2> QED BY <2>5, <2>6, <2>7, <2>8, <2>9, <2>10, <2>11 DEF Git!Next, Git!System
<1> QED BY <1>4, <1>6 DEF CacheInv

\* Installation tokens leave the grant alone.
LEMMA GitApp ==
  ASSUME GitInv, CacheInv, NEW c \in Calls, Git!AppToken(c) \/ Git!AppMint(c) \/ Git!AppStore(c)
  PROVE  GitInv'
<1>1. /\ UNCHANGED <<rotating, good, row, flight, now, lost, gcrossed, burned>>
      /\ GitTyped /\ CallsInv /\ DOMAIN calls = Calls /\ now \in Nat
      /\ minted \in Seq(Minted) /\ Len(minted) \in Nat
  <2>1. minted \in Seq(Minted)
    BY DEF GitInv, GitTyped
  <2>2. Len(minted) \in Nat
    <3> HIDE DEF Minted
    <3> QED BY <2>1, LenProperties
  <2> QED BY <2>1, <2>2 DEF Git!AppToken, Git!AppMint, Git!AppStore, GitInv, GitTyped
<1>2. ASSUME NEW n, NEW exp, Git!Answer(c, n, exp), n # 0 => ~Git!Ended(exp)
      PROVE  CallsInv' /\ DOMAIN calls' = Calls
  BY <1>1, <1>2, GitAnswers
<1>3. ASSUME Git!AppToken(c) PROVE GitInv'
  <2>0. minted' = minted
    BY <1>3 DEF Git!AppToken
  <2>1. CASE calls' = [calls EXCEPT ![c].at = "mint"] /\ calls[c].at = "idle"
    BY <1>1, <2>0, <2>1, GitQuiet DEF CallsInv
  <2>2. CASE cache # 0 /\ now + 1 < Git!Expiry(cache) /\ Git!Answer(c, cache, Git!Expiry(cache))
    <3>1. PICK n, exp : n = cache /\ exp = Git!Expiry(cache)
      OBVIOUS
    <3>0. exp \in Nat
      <4>1. minted[cache] \in Minted
        <5> HIDE DEF Minted
        <5> QED BY <1>1, <2>2, ElementOfSeq DEF CacheInv
      <4> QED BY <3>1, <4>1 DEF Git!Expiry, Git!Lifetime, Minted
    <3>2. exp # 0 /\ now + 1 < exp => ~(now >= exp)
      BY <1>1, <3>0
    <3> QED BY <1>1, <1>2, <2>0, <2>2, <3>1, <3>2, GitQuiet DEF Git!Ended
  <2> QED BY <1>3, <2>1, <2>2 DEF Git!AppToken
<1>4. ASSUME Git!AppStore(c) PROVE GitInv'
  <2>1. minted' = minted /\ Git!Answer(c, calls[c].got, 0)
    BY <1>4 DEF Git!AppStore
  <2>2. PICK n : n = calls[c].got
    OBVIOUS
  <2>3. CallsInv' /\ DOMAIN calls' = Calls
    BY <1>2, <2>1, <2>2 DEF Git!Ended
  <2> QED BY <1>1, <2>1, <2>3, GitQuiet
<1>5. ASSUME Git!AppMint(c) PROVE GitInv'
  <2>1. CASE Git!Answer(c, 0, 0) /\ minted' = minted
    BY <1>1, <1>2, <2>1, GitQuiet
  <2>2. CASE /\ Git!Mint(None, TRUE)
             /\ calls' = [calls EXCEPT ![c].at = "store", ![c].got = Git!New]
    <3>1. CallsInv' /\ DOMAIN calls' = Calls
      BY <1>1, <1>5, <2>2 DEF Git!AppMint, CallsInv
    <3>2. None \in Logins \cup {None} /\ TRUE \in BOOLEAN
      OBVIOUS
    <3>3. /\ minted' \in Seq(Minted) /\ Len(minted') = Len(minted) + 1
          /\ \A n \in 1..Len(minted) : minted'[n] = minted[n]
      BY <1>1, <2>2, <3>2, GitMints
    <3>4. GitTyped'
      BY <1>1, <3>1, <3>3 DEF GitTyped
    <3>5. FlightInv' /\ GrantInv'
      BY <1>1, <3>3 DEF GitInv, FlightInv, GrantInv
    <3>6. Git!NoneBurned' /\ Git!OneAccount'
      BY <1>1, <3>3 DEF GitInv, GitTyped, Git!NoneBurned, Git!OneAccount
    <3> QED BY <3>1, <3>4, <3>5, <3>6 DEF GitInv
  <2> QED BY <1>5, <2>1, <2>2 DEF Git!AppMint
<1> QED BY <1>3, <1>4, <1>5

LEMMA GitStart == Git!Init => GitInv /\ CacheInv
<1> SUFFICES ASSUME Git!Init PROVE GitInv /\ CacheInv
  OBVIOUS
<1>1. CallsInv /\ DOMAIN calls = Calls /\ FlightInv
  BY DEF Git!Init, CallsInv, Git!Asked, FlightInv, Git!NoFlight
<1>0. cache = 0 /\ \A c \in Calls : calls[c].at = "idle" /\ DOMAIN calls[c] = {"at", "tok", "got", "fresh"}
  BY DEF Git!Init, Git!Asked
<1>g. flight.at = "none"
  BY DEF Git!Init, Git!NoFlight
<1>2. CASE minted = << >> /\ good = {} /\ row = None
  <2>1. minted \in Seq(Minted) /\ Len(minted) = 0
    <3> HIDE DEF Minted
    <3> QED BY <1>2, EmptySeq
  <2>2. GitTyped /\ CacheInv
    BY <1>0, <1>1, <1>2, <2>1 DEF Git!Init, GitTyped, CacheInv
  <2>3. GrantInv /\ Git!NoneBurned /\ Git!OneAccount
    BY <1>2, <1>g DEF Git!Init, GrantInv, Git!NoneBurned, Git!OneAccount
  <2> QED BY <1>1, <2>2, <2>3 DEF GitInv
<1>3. ASSUME NEW a \in Logins,
             minted = <<[account |-> a, renews |-> TRUE, born |-> 0]>>, good = {1},
             row = [login |-> a, access |-> 1, refresh |-> 1, exp |-> Git!Lifetime]
      PROVE  GitInv /\ CacheInv
  <2>1. minted \in Seq(Minted) /\ Len(minted) = 1 /\ minted[1].account = a
    BY <1>3 DEF Minted
  <2>2. GitTyped /\ CacheInv
    BY <1>0, <1>1, <1>3, <2>1 DEF Git!Init, GitTyped, Git!Lifetime, CacheInv
  <2>3. GrantInv /\ Git!NoneBurned /\ Git!OneAccount
    BY <1>3, <1>g, <2>1 DEF Git!Init, GrantInv, Git!NoneBurned, Git!OneAccount
  <2> QED BY <1>1, <2>2, <2>3 DEF GitInv
<1>4. \/ minted = << >> /\ good = {} /\ row = None
      \/ \E a \in Logins :
           /\ minted = <<[account |-> a, renews |-> TRUE, born |-> 0]>> /\ good = {1}
           /\ row = [login |-> a, access |-> 1, refresh |-> 1, exp |-> Git!Lifetime]
  BY DEF Git!Init
<1> QED BY <1>2, <1>3, <1>4

LEMMA GitStep == ASSUME GitInv, CacheInv, Git!Next PROVE GitInv' /\ CacheInv'
<1>1. GitInv'
  BY GitTick, GitLink, GitUnlink, GitToken, GitJoin, GitReload, GitRefresh, GitSave, GitApp
  DEF Git!Next, Git!System
<1>2. CacheInv'
  BY CacheStep DEF GitInv
<1> QED BY <1>1, <1>2

LEMMA GitStutter == ASSUME GitInv, CacheInv, UNCHANGED gitVars PROVE GitInv' /\ CacheInv'
BY GitQuiet DEF gitVars, GitInv, CallsInv, GitTyped, CacheInv

\* GrantKept: requests side by side do not use up a grant, what they are served is of
\* the account shown, and has not ended.
THEOREM GrantsKept == MCSafe => []GrantKept
<1>1. MCInit => GitInv /\ CacheInv
  BY GitStart DEF MCInit
<1>2. GitInv /\ CacheInv /\ [MCNext]_allVars => GitInv' /\ CacheInv'
  BY GitStep, GitStutter DEF MCNext, allVars, gitVars
<1>3. GitInv => GrantKept
  BY DEF GitInv, CallsInv, GrantKept, Git!ServedFresh
<1> QED BY <1>1, <1>2, <1>3, PTL DEF MCSafe

(***************************************************************************)
(* Hosts that enrol.  First the files of the control plane: those of a     *)
(* pair are written in order, the server's pair after the CA's, so what a  *)
(* boot finds was made by one CA up to where an earlier boot died.         *)
(***************************************************************************)
PkiInv ==
  /\ DOMAIN pki = {"cacrt", "cakey", "srvcrt", "srvkey"}
  /\ cas \in Nat /\ \A f \in DOMAIN pki : pki[f] \in Nat \cup {Enrolling!Torn}
  /\ pki.cakey # 0 => pki.cacrt > 0
  /\ pki.cakey > 0 => pki.cakey = pki.cacrt
  /\ pki.srvcrt # 0 => pki.cakey > 0
  /\ pki.srvcrt > 0 => pki.srvcrt = pki.cacrt
  /\ pki.srvkey # 0 => pki.srvcrt > 0
  /\ pki.srvkey > 0 => pki.srvkey = pki.cacrt
  /\ boot = "cakey" => pki.cacrt = cas /\ cas > 0 /\ pki.cakey = 0
  /\ boot \in {"srvcrt", "srvkey", "up"} => pki.cacrt = cas /\ cas > 0 /\ pki.cakey = cas
  /\ boot = "srvkey" => pki.srvcrt = cas /\ pki.srvkey = 0
  /\ boot = "up" => pki.srvcrt = cas /\ pki.srvkey = cas

\* A boot goes on from the files it finds.
LEMMA PkiBoots == ASSUME PkiInv, Enrolling!Boot PROVE PkiInv'
<1> USE DEF PkiInv, Enrolling!Torn, Enrolling!Bring
<1>1. CASE Enrolling!BootCA
  <2>1. CASE boot' = "srvcrt" /\ cas' = pki.cacrt /\ pki' = pki
             /\ Enrolling!Bring("cacrt", "cakey") = "load"
    BY <2>1
  <2>2. CASE /\ cas' = cas + 1 /\ pki' = [pki EXCEPT !.cacrt = cas + 1] /\ boot' = "cakey"
             /\ (pki.cacrt = 0 \/ pki.cakey = 0)
    BY <2>2
  <2>3. CASE boot' = "failed" /\ pki' = pki /\ cas' = cas
    BY <2>3
  <2> QED BY <1>1, <2>1, <2>2, <2>3 DEF Enrolling!BootCA, Enrolling!Write
<1>2. CASE Enrolling!BootServer
  <2>1. CASE boot' = "up" /\ cas' = cas /\ pki' = pki
             /\ Enrolling!Bring("srvcrt", "srvkey") = "load" /\ boot = "srvcrt"
    BY <2>1
  <2>2. CASE /\ cas' = cas /\ pki' = [pki EXCEPT !.srvcrt = cas] /\ boot' = "srvkey"
             /\ (pki.srvcrt = 0 \/ pki.srvkey = 0) /\ boot = "srvcrt"
    BY <1>2, <2>2 DEF Enrolling!BootServer
  <2>3. CASE boot' = "failed" /\ pki' = pki /\ cas' = cas
    BY <2>3
  <2> QED BY <1>2, <2>1, <2>2, <2>3 DEF Enrolling!BootServer, Enrolling!Write
<1>3. CASE Enrolling!BootKey
  BY <1>3 DEF Enrolling!BootKey, Enrolling!Write
<1> QED BY <1>1, <1>2, <1>3 DEF Enrolling!Boot

\* A crash leaves empty at most the file that was about to be written.
LEMMA PkiCrashes == ASSUME PkiInv, Enrolling!Crash PROVE PkiInv'
<1> USE DEF PkiInv, Enrolling!Torn, Enrolling!Bring
<1>1. boot' = "ca" /\ cas' = cas
  BY DEF Enrolling!Crash
<1>2. CASE pki' = pki
  BY <1>1, <1>2
<1>3. ASSUME NEW f \in DOMAIN pki, Enrolling!Writing(f), pki' = [pki EXCEPT ![f] = Enrolling!Torn]
      PROVE  PkiInv'
  <2>1. CASE f = "cacrt"
    BY <1>1, <1>3, <2>1 DEF Enrolling!Writing
  <2>2. CASE f = "cakey"
    BY <1>1, <1>3, <2>2 DEF Enrolling!Writing
  <2>3. CASE f = "srvcrt"
    BY <1>1, <1>3, <2>3 DEF Enrolling!Writing
  <2>4. CASE f = "srvkey"
    BY <1>1, <1>3, <2>4 DEF Enrolling!Writing
  <2> QED BY <2>1, <2>2, <2>3, <2>4
<1> QED BY <1>2, <1>3 DEF Enrolling!Crash

(***************************************************************************)
(* Then the commands.  Two that are between the lookup of one token and    *)
(* its certificate looked it up before either marked it; one command at a  *)
(* time saves on a host, and the files it has saved are its own.           *)
(***************************************************************************)
Stages  == {"sent", "read", "used", "bound", "end"}
Clients == {"waiting", "key", "crt", "ca", "ident", "done", "failed"}
Cmds == [host : Hosts, token : Nat, server : Servers \cup {0}, at : Stages, client : Clients,
         ca : Nat]
Tokens == [server : Servers, used : BOOLEAN, ended : BOOLEAN]

EnrollTyped ==
  /\ cas \in Nat
  /\ cmds \in Seq(Cmds) /\ tokens \in Seq(Tokens)
  /\ \A n \in DOMAIN cmds : cmds[n].token \in DOMAIN tokens

Marked(n) == cmds[n].at \in {"used", "bound"} \/ Enrolling!Signed(n)
Looked(n) == cmds[n].at = "read" \/ Marked(n)

TokensInv ==
  /\ \A n \in DOMAIN cmds : Marked(n) => tokens[cmds[n].token].used
  /\ \A n, k \in DOMAIN cmds :
       Looked(n) /\ Looked(k) /\ cmds[n].token = cmds[k].token /\ n # k => cmds[n].token \in raced

Agree(h) == disk[h].key = disk[h].crt /\ disk[h].crt = disk[h].ca /\ disk[h].ca = disk[h].ident
Begun == {"crt", "ca", "ident"}

DiskTyped ==
  /\ DOMAIN disk = Hosts
  /\ \A h \in Hosts : DOMAIN disk[h] = {"key", "crt", "ca", "ident"}

SavingInv ==
  /\ DiskTyped
  /\ \A n, k \in DOMAIN cmds :
       /\ cmds[n].client \in Enrolling!Active /\ cmds[k].client \in Enrolling!Active
       /\ cmds[n].host = cmds[k].host
       => n = k
  /\ \A n \in DOMAIN cmds :
       /\ cmds[n].client \in Begun => disk[cmds[n].host].key = n
       /\ cmds[n].client \in {"ca", "ident"} => disk[cmds[n].host].crt = n
       /\ cmds[n].client = "ident" => disk[cmds[n].host].ca = n
  /\ \A h \in Hosts :
       h \notin torn /\ (\A n \in DOMAIN cmds : cmds[n].host = h => cmds[n].client \notin Begun)
         => Agree(h)

EnrollInv == EnrollTyped /\ TokensInv /\ SavingInv

LEMMA EnrollStart == Enrolling!Init => PkiInv /\ EnrollInv
<1> SUFFICES ASSUME Enrolling!Init PROVE PkiInv /\ EnrollInv
  OBVIOUS
<1> USE DEF Enrolling!Init
<1>1. PkiInv
  BY DEF PkiInv, Enrolling!Torn
<1>2. EnrollTyped /\ cmds = << >>
  <2> HIDE DEF Cmds, Tokens
  <2> QED BY EmptySeq DEF EnrollTyped
<1>3. TokensInv /\ SavingInv
  BY <1>2 DEF TokensInv, SavingInv, DiskTyped, Agree, Enrolling!Blank
<1> QED BY <1>1, <1>2, <1>3 DEF EnrollInv

\* What leaves commands, tokens and files alone.
LEMMA EnrollQuiet ==
  ASSUME EnrollInv, cas' \in Nat, UNCHANGED <<cmds, tokens, disk, torn, raced>>
  PROVE  EnrollInv'
BY DEF EnrollInv, EnrollTyped, TokensInv, SavingInv, DiskTyped, Agree, Marked, Looked,
       Enrolling!Signed

\* Commands that no further one has looked a token up or marked it.
LEMMA TokensFrame ==
  ASSUME TokensInv, DOMAIN cmds' = DOMAIN cmds, raced \subseteq raced',
         \A n \in DOMAIN cmds : /\ cmds'[n].token = cmds[n].token
                                /\ Marked(n)' => Marked(n)
                                /\ Looked(n)' => Looked(n)
                                /\ tokens[cmds[n].token].used => tokens'[cmds[n].token].used
  PROVE  TokensInv'
BY DEF TokensInv

\* Commands that save nothing now.
LEMMA SavingFrame ==
  ASSUME SavingInv, DOMAIN cmds' = DOMAIN cmds, UNCHANGED <<disk, torn>>,
         \A n \in DOMAIN cmds :
           /\ cmds'[n].host = cmds[n].host
           /\ \/ cmds'[n].client = cmds[n].client
              \/ cmds[n].client = "waiting" /\ cmds'[n].client \in {"key", "failed"}
  PROVE  SavingInv'
<1> USE DEF SavingInv, Enrolling!Active, Begun
<1>1. DiskTyped'
  BY DEF DiskTyped
<1>2. \A n \in DOMAIN cmds : /\ cmds'[n].client \in Begun <=> cmds[n].client \in Begun
                             /\ cmds'[n].client \in Enrolling!Active
                                  => cmds[n].client \in Enrolling!Active
  OBVIOUS
<1>3. \A h \in Hosts : Agree(h) => Agree(h)'
  BY DEF Agree
<1> QED BY <1>1, <1>2, <1>3

\* A command at a step of its handler, or about to save a file, changed.
LEMMA CmdAt ==
  ASSUME EnrollTyped, NEW n \in DOMAIN cmds
  PROVE  /\ cmds[n] \in Cmds /\ Len(cmds) \in Nat /\ DOMAIN cmds = 1..Len(cmds)
         /\ tokens[cmds[n].token] \in Tokens
         /\ \A c \in Cmds : /\ [cmds EXCEPT ![n] = c] \in Seq(Cmds)
                            /\ DOMAIN [cmds EXCEPT ![n] = c] = DOMAIN cmds
<1>1. cmds \in Seq(Cmds) /\ tokens \in Seq(Tokens)
  BY DEF EnrollTyped
<1>2. cmds[n].token \in DOMAIN tokens
  BY DEF EnrollTyped
<1> HIDE DEF Cmds, Tokens
<1> QED BY <1>1, <1>2, ElementOfSeq, LenProperties, ExceptSeq

LEMMA EnrollReads ==
  ASSUME EnrollInv, NEW n \in DOMAIN cmds, Enrolling!ReadToken(n)
  PROVE  EnrollInv'
<1>0. EnrollTyped /\ TokensInv /\ SavingInv /\ UNCHANGED <<disk, torn, tokens, cas>>
      /\ raced \subseteq raced'
  BY DEF EnrollInv, Enrolling!ReadToken
<1>1. cmds[n] \in Cmds /\ cmds[n].at = "sent" /\ tokens[cmds[n].token] \in Tokens
  BY <1>0, CmdAt DEF Enrolling!ReadToken
<1>2. CASE /\ Enrolling!Readable(cmds[n].token)
           /\ cmds' = [cmds EXCEPT ![n].at = "read", ![n].server = tokens[cmds[n].token].server]
  <2> DEFINE c == [cmds[n] EXCEPT !.at = "read", !.server = tokens[cmds[n].token].server]
  <2>1. c \in Cmds /\ c.token = cmds[n].token /\ c.host = cmds[n].host /\ c.at = "read"
        /\ c.client = cmds[n].client /\ c.ca = cmds[n].ca
    BY <1>1 DEF Cmds, Stages, Tokens
  <2>2. cmds' = [cmds EXCEPT ![n] = c]
    BY <1>2
  <2> HIDE DEF c
  <2>3. cmds' \in Seq(Cmds) /\ DOMAIN cmds' = DOMAIN cmds
        /\ cmds'[n] = c /\ \A k \in DOMAIN cmds : k # n => cmds'[k] = cmds[k]
    BY <1>0, <2>1, <2>2, CmdAt
  <2>4. EnrollTyped'
    BY <1>0, <2>1, <2>3 DEF EnrollTyped
  <2>5. SavingInv'
    BY <1>0, <2>1, <2>3, SavingFrame
  <2>6. ~Marked(n) /\ ~Marked(n)' /\ \A k \in DOMAIN cmds : k # n =>
           (Marked(k)' <=> Marked(k)) /\ (Looked(k)' <=> Looked(k))
    <3>1. ~Marked(n)
      BY <1>0, <1>2 DEF TokensInv, Enrolling!Readable
    <3> QED BY <2>1, <2>3, <3>1 DEF Marked, Looked, Enrolling!Signed
  <2>7. ASSUME NEW k \in DOMAIN cmds, k # n, Looked(k), cmds[k].token = cmds[n].token
        PROVE  cmds[n].token \in raced'
    <3>1. ~Marked(k)
      BY <1>0, <1>2, <2>7 DEF TokensInv, Enrolling!Readable
    <3>2. cmds[k].at = "read"
      BY <2>7, <3>1 DEF Looked
    <3> QED BY <1>2, <2>7, <3>2 DEF Enrolling!ReadToken
  <2>8. TokensInv'
    BY <1>0, <2>1, <2>3, <2>6, <2>7 DEF TokensInv
  <2> QED BY <2>4, <2>5, <2>8 DEF EnrollInv
<1>3. CASE Enrolling!Reply(n, "failed")
  <2> DEFINE c == [cmds[n] EXCEPT !.at = "end",
                                  !.client = IF cmds[n].client = "waiting" THEN "failed"
                                             ELSE cmds[n].client]
  <2>1. c \in Cmds /\ c.token = cmds[n].token /\ c.host = cmds[n].host /\ c.at = "end"
        /\ c.ca = cmds[n].ca
        /\ \/ c.client = cmds[n].client
           \/ cmds[n].client = "waiting" /\ c.client \in {"key", "failed"}
    BY <1>1 DEF Cmds, Stages, Clients
  <2>2. cmds' = [cmds EXCEPT ![n] = c]
    BY <1>3 DEF Enrolling!Reply
  <2> HIDE DEF c
  <2>3. cmds' \in Seq(Cmds) /\ DOMAIN cmds' = DOMAIN cmds
        /\ cmds'[n] = c /\ \A k \in DOMAIN cmds : k # n => cmds'[k] = cmds[k]
    BY <1>0, <2>1, <2>2, CmdAt
  <2>4. EnrollTyped'
    BY <1>0, <2>1, <2>3 DEF EnrollTyped
  <2>5. SavingInv'
    BY <1>0, <2>1, <2>3, SavingFrame
  <2>6. TokensInv'
    BY <1>0, <2>1, <2>3, TokensFrame DEF Marked, Looked, Enrolling!Signed
  <2> QED BY <2>4, <2>5, <2>6 DEF EnrollInv
<1> QED BY <1>2, <1>3 DEF Enrolling!ReadToken

\* A handler that goes on from a lookup, and a command that is told or gives up.
LEMMA EnrollGoesOn ==
  ASSUME EnrollInv, NEW n \in DOMAIN cmds, NEW c \in Cmds, cmds' = [cmds EXCEPT ![n] = c],
         c.token = cmds[n].token, c.host = cmds[n].host, UNCHANGED <<disk, torn, raced, cas>>,
         \/ c.client = cmds[n].client
         \/ cmds[n].client = "waiting" /\ c.client \in {"key", "failed"},
         \/ c.at = cmds[n].at /\ c.ca = cmds[n].ca /\ tokens' = tokens
         \/ c.at = "end" /\ c.ca = cmds[n].ca /\ tokens' = tokens
         \/ cmds[n].at = "used" /\ c.at = "bound" /\ tokens' = tokens
         \/ /\ cmds[n].at = "read" /\ c.at = "used"
            /\ tokens' = [tokens EXCEPT ![cmds[n].token].used = TRUE]
  PROVE  EnrollInv'
<1>0. EnrollTyped /\ TokensInv /\ SavingInv
  BY DEF EnrollInv
<1>1. cmds' \in Seq(Cmds) /\ DOMAIN cmds' = DOMAIN cmds
      /\ cmds'[n] = c /\ \A k \in DOMAIN cmds : k # n => cmds'[k] = cmds[k]
  BY <1>0, CmdAt
<1>2. PICK t : t = cmds[n].token
  OBVIOUS
<1>3. t \in DOMAIN tokens /\ tokens \in Seq(Tokens) /\ tokens[t] \in Tokens
  BY <1>0, <1>2, CmdAt DEF EnrollTyped
<1>4. /\ tokens' \in Seq(Tokens) /\ DOMAIN tokens' = DOMAIN tokens
      /\ \A x \in DOMAIN tokens : tokens[x].used => tokens'[x].used
      /\ Marked(n)' => Marked(n) \/ tokens'[t].used
  <2>1. ASSUME tokens' = tokens, cmds[n].at # "read" \/ c.at # "used"
        PROVE  /\ tokens' \in Seq(Tokens) /\ DOMAIN tokens' = DOMAIN tokens
               /\ Marked(n)' => Marked(n)
    BY <1>1, <1>3, <2>1 DEF Marked, Enrolling!Signed
  <2>2. CASE tokens' = [tokens EXCEPT ![t].used = TRUE]
    <3> DEFINE v == [tokens[t] EXCEPT !.used = TRUE]
    <3>1. v \in Tokens /\ v.used
      BY <1>3 DEF Tokens
    <3>2. tokens' = [tokens EXCEPT ![t] = v]
      BY <2>2
    <3> HIDE DEF v, Tokens
    <3> QED BY <1>3, <3>1, <3>2, ExceptSeq
  <2> QED BY <1>2, <2>1, <2>2
<1>5. EnrollTyped'
  BY <1>0, <1>1, <1>4 DEF EnrollTyped
<1>6. SavingInv'
  BY <1>0, <1>1, SavingFrame
<1>7. \A k \in DOMAIN cmds : /\ k # n => (Marked(k)' <=> Marked(k)) /\ (Looked(k)' <=> Looked(k))
                             /\ Looked(k)' => Looked(k)
  BY <1>1 DEF Marked, Looked, Enrolling!Signed
<1>8. TokensInv'
  BY <1>0, <1>1, <1>2, <1>4, <1>7 DEF TokensInv, EnrollTyped
<1> QED BY <1>5, <1>6, <1>8 DEF EnrollInv

LEMMA EnrollHandles ==
  ASSUME EnrollInv, PkiInv, NEW n \in DOMAIN cmds, Enrolling!Handler(n) \/ Enrolling!GiveUp(n)
  PROVE  EnrollInv'
<1>0. EnrollTyped /\ cmds[n] \in Cmds /\ cas \in Nat
  BY CmdAt DEF EnrollInv, PkiInv
<1>1. ASSUME Enrolling!UseToken(n) PROVE EnrollInv'
  <2> DEFINE c == [cmds[n] EXCEPT !.at = "used"]
  <2>1. /\ c \in Cmds /\ c.token = cmds[n].token /\ c.host = cmds[n].host /\ c.at = "used"
        /\ c.client = cmds[n].client
    BY <1>0 DEF Cmds, Stages
  <2>2. /\ cmds' = [cmds EXCEPT ![n] = c] /\ UNCHANGED <<disk, torn, raced, cas>>
        /\ cmds[n].at = "read" /\ tokens' = [tokens EXCEPT ![cmds[n].token].used = TRUE]
    BY <1>1 DEF Enrolling!UseToken
  <2> HIDE DEF c, Cmds
  <2> QED BY <2>1, <2>2, EnrollGoesOn
<1>2. ASSUME Enrolling!Bind(n) PROVE EnrollInv'
  <2> DEFINE c == [cmds[n] EXCEPT !.at = "bound", !.ca = cas]
  <2>1. /\ c \in Cmds /\ c.token = cmds[n].token /\ c.host = cmds[n].host /\ c.at = "bound"
        /\ c.client = cmds[n].client
    BY <1>0 DEF Cmds, Stages
  <2>2. /\ cmds' = [cmds EXCEPT ![n] = c] /\ UNCHANGED <<disk, torn, raced, cas>>
        /\ cmds[n].at = "used" /\ tokens' = tokens
    BY <1>2 DEF Enrolling!Bind
  <2> HIDE DEF c, Cmds
  <2> QED BY <2>1, <2>2, EnrollGoesOn
<1>3. ASSUME Enrolling!Answer(n) PROVE EnrollInv'
  <2> DEFINE c == [cmds[n] EXCEPT !.at = "end",
                                  !.client = IF cmds[n].client = "waiting" THEN "key"
                                             ELSE cmds[n].client]
  <2>1. /\ c \in Cmds /\ c.token = cmds[n].token /\ c.host = cmds[n].host /\ c.at = "end"
        /\ c.ca = cmds[n].ca
        /\ \/ c.client = cmds[n].client
           \/ cmds[n].client = "waiting" /\ c.client \in {"key", "failed"}
    BY <1>0 DEF Cmds, Stages, Clients
  <2>2. /\ cmds' = [cmds EXCEPT ![n] = c] /\ UNCHANGED <<disk, torn, raced, cas, tokens>>
    BY <1>3 DEF Enrolling!Answer, Enrolling!Reply
  <2> HIDE DEF c, Cmds
  <2> QED BY <2>1, <2>2, EnrollGoesOn
<1>4. ASSUME Enrolling!GiveUp(n) PROVE EnrollInv'
  <2> DEFINE c == [cmds[n] EXCEPT !.client = "failed"]
  <2>1. /\ c \in Cmds /\ c.token = cmds[n].token /\ c.host = cmds[n].host /\ c.at = cmds[n].at
        /\ c.ca = cmds[n].ca /\ c.client = "failed"
    BY <1>0 DEF Cmds, Clients
  <2>2. /\ cmds' = [cmds EXCEPT ![n] = c] /\ UNCHANGED <<disk, torn, raced, cas, tokens>>
        /\ cmds[n].client = "waiting"
    BY <1>4 DEF Enrolling!GiveUp
  <2> HIDE DEF c, Cmds
  <2> QED BY <2>1, <2>2, EnrollGoesOn
<1> QED BY <1>1, <1>2, <1>3, <1>4, EnrollReads DEF Enrolling!Handler

\* A command saves a file, the next of its own, and the last makes the set whole.
LEMMA EnrollSaves ==
  ASSUME EnrollInv, NEW n \in DOMAIN cmds, Enrolling!Save(n)
  PROVE  EnrollInv'
<1>0. EnrollTyped /\ TokensInv /\ SavingInv /\ cmds[n] \in Cmds
      /\ UNCHANGED <<tokens, raced, cas>>
  BY CmdAt DEF EnrollInv, Enrolling!Save
<1>1. PICK f, h : f = cmds[n].client /\ h = cmds[n].host
  OBVIOUS
<1>2. f \in {"key", "crt", "ca", "ident"} /\ h \in Hosts
  BY <1>0, <1>1 DEF Enrolling!Save, Enrolling!Active, Cmds
<1> DEFINE c == [cmds[n] EXCEPT !.client = Enrolling!After(f)]
<1>3. /\ c \in Cmds /\ c.token = cmds[n].token /\ c.host = h /\ c.at = cmds[n].at
      /\ c.ca = cmds[n].ca /\ c.client = Enrolling!After(f)
  BY <1>0, <1>1, <1>2 DEF Cmds, Clients, Enrolling!After
<1>4. cmds' = [cmds EXCEPT ![n] = c]
  BY <1>1 DEF Enrolling!Save
<1> HIDE DEF c
<1>5. cmds' \in Seq(Cmds) /\ DOMAIN cmds' = DOMAIN cmds
      /\ cmds'[n] = c /\ \A k \in DOMAIN cmds : k # n => cmds'[k] = cmds[k]
  BY <1>0, <1>3, <1>4, CmdAt
<1>6. EnrollTyped'
  BY <1>0, <1>3, <1>5 DEF EnrollTyped
<1>7. TokensInv'
  BY <1>0, <1>3, <1>5, TokensFrame DEF Marked, Looked, Enrolling!Signed
<1>8. /\ disk' = [disk EXCEPT ![h][f] = n]
      /\ torn' = IF Enrolling!After(f) = "done" THEN torn \ {h} ELSE torn
  BY <1>1 DEF Enrolling!Save
<1>9. /\ DiskTyped' /\ disk'[h][f] = n
      /\ \A x \in DOMAIN disk[h] : x # f => disk'[h][x] = disk[h][x]
      /\ \A k \in Hosts : k # h => disk'[k] = disk[k]
  BY <1>0, <1>2, <1>8 DEF SavingInv, DiskTyped
<1>10. \A k \in DOMAIN cmds : k # n /\ cmds[k].host = h => cmds[k].client \notin Enrolling!Active
  BY <1>0, <1>1, <1>2 DEF SavingInv, Enrolling!Active
<1>11. \A k \in DOMAIN cmds : cmds[k].host \in Hosts
  BY <1>0, CmdAt DEF Cmds
<1>12. \A k \in DOMAIN cmds, j \in DOMAIN cmds :
         /\ cmds'[k].client \in Enrolling!Active /\ cmds'[j].client \in Enrolling!Active
         /\ cmds'[k].host = cmds'[j].host
         => k = j
  BY <1>0, <1>1, <1>2, <1>3, <1>5, <1>10 DEF SavingInv
<1>13. ASSUME NEW k \in DOMAIN cmds
       PROVE  /\ cmds'[k].client \in Begun => disk'[cmds'[k].host].key = k
              /\ cmds'[k].client \in {"ca", "ident"} => disk'[cmds'[k].host].crt = k
              /\ cmds'[k].client = "ident" => disk'[cmds'[k].host].ca = k
  <2>1. CASE k = n
    BY <1>0, <1>1, <1>2, <1>3, <1>5, <1>9, <2>1
    DEF SavingInv, DiskTyped, Begun, Enrolling!After
  <2>2. CASE k # n /\ cmds[k].host = h
    BY <1>5, <1>10, <2>2 DEF Begun, Enrolling!Active
  <2>3. CASE k # n /\ cmds[k].host # h
    BY <1>0, <1>5, <1>9, <1>11, <2>3 DEF SavingInv
  <2> QED BY <2>1, <2>2, <2>3
<1>14. ASSUME NEW k \in Hosts, k \notin torn',
              \A j \in DOMAIN cmds : cmds'[j].host = k => cmds'[j].client \notin Begun
       PROVE  Agree(k)'
  <2>1. CASE k = h
    <3>1. f = "ident"
      BY <1>2, <1>3, <1>5, <1>14, <2>1 DEF Begun, Enrolling!After
    <3> QED BY <1>0, <1>1, <1>2, <1>9, <2>1, <3>1, ZenonT(30) DEF Agree, SavingInv, DiskTyped, Begun
  <2>2. CASE k # h
    <3>1. k \notin torn
      BY <1>8, <1>14, <2>2
    <3>2. \A j \in DOMAIN cmds : cmds[j].host = k => cmds[j].client \notin Begun
      BY <1>1, <1>3, <1>5, <1>14, <2>2
    <3>3. Agree(k)
      BY <1>0, <3>1, <3>2 DEF SavingInv
    <3> QED BY <1>9, <2>2, <3>3 DEF Agree
  <2> QED BY <2>1, <2>2
<1>15. SavingInv'
  BY <1>5, <1>9, <1>12, <1>13, <1>14 DEF SavingInv
<1> QED BY <1>6, <1>7, <1>15 DEF EnrollInv

\* A command that dies while it saves: its host is among those torn.
LEMMA EnrollTears ==
  ASSUME EnrollInv, NEW n \in DOMAIN cmds, Enrolling!SaveDies(n)
  PROVE  EnrollInv'
<1>0. EnrollTyped /\ TokensInv /\ SavingInv /\ cmds[n] \in Cmds
      /\ UNCHANGED <<tokens, raced, cas>>
  BY CmdAt DEF EnrollInv, Enrolling!SaveDies
<1>1. PICK f, h : f = cmds[n].client /\ h = cmds[n].host
  OBVIOUS
<1>2. f \in {"key", "crt", "ca", "ident"} /\ h \in Hosts
  BY <1>0, <1>1 DEF Enrolling!SaveDies, Enrolling!Active, Cmds
<1> DEFINE c == [cmds[n] EXCEPT !.client = "failed"]
<1>3. /\ c \in Cmds /\ c.token = cmds[n].token /\ c.host = h /\ c.at = cmds[n].at
      /\ c.ca = cmds[n].ca /\ c.client = "failed"
  BY <1>0, <1>1 DEF Cmds, Clients
<1>4. cmds' = [cmds EXCEPT ![n] = c] /\ torn' = torn \cup {h}
  BY <1>1 DEF Enrolling!SaveDies
<1> HIDE DEF c
<1>5. cmds' \in Seq(Cmds) /\ DOMAIN cmds' = DOMAIN cmds
      /\ cmds'[n] = c /\ \A k \in DOMAIN cmds : k # n => cmds'[k] = cmds[k]
  BY <1>0, <1>3, <1>4, CmdAt
<1>6. EnrollTyped'
  BY <1>0, <1>3, <1>5 DEF EnrollTyped
<1>7. TokensInv'
  BY <1>0, <1>3, <1>5, TokensFrame DEF Marked, Looked, Enrolling!Signed
<1>8. disk' = disk \/ disk' = [disk EXCEPT ![h][f] = Enrolling!Torn]
  BY <1>1 DEF Enrolling!SaveDies
<1>9. DiskTyped' /\ \A k \in Hosts : k # h => disk'[k] = disk[k]
  BY <1>0, <1>2, <1>8 DEF SavingInv, DiskTyped
<1>10. \A k \in DOMAIN cmds : k # n /\ cmds[k].host = h => cmds[k].client \notin Enrolling!Active
  BY <1>0, <1>1, <1>2 DEF SavingInv, Enrolling!Active
<1>11. \A k \in DOMAIN cmds : cmds[k].host \in Hosts
  BY <1>0, CmdAt DEF Cmds
<1>12. \A k \in DOMAIN cmds, j \in DOMAIN cmds :
         /\ cmds'[k].client \in Enrolling!Active /\ cmds'[j].client \in Enrolling!Active
         /\ cmds'[k].host = cmds'[j].host
         => k = j
  BY <1>0, <1>3, <1>5 DEF SavingInv, Enrolling!Active
<1>13. ASSUME NEW k \in DOMAIN cmds
       PROVE  /\ cmds'[k].client \in Begun => disk'[cmds'[k].host].key = k
              /\ cmds'[k].client \in {"ca", "ident"} => disk'[cmds'[k].host].crt = k
              /\ cmds'[k].client = "ident" => disk'[cmds'[k].host].ca = k
  <2>1. CASE k = n
    BY <1>3, <1>5, <2>1 DEF Begun
  <2>2. CASE k # n /\ cmds[k].host = h
    BY <1>5, <1>10, <2>2 DEF Begun, Enrolling!Active
  <2>3. CASE k # n /\ cmds[k].host # h
    BY <1>0, <1>5, <1>9, <1>11, <2>3 DEF SavingInv
  <2> QED BY <2>1, <2>2, <2>3
<1>14. ASSUME NEW k \in Hosts, k \notin torn',
              \A j \in DOMAIN cmds : cmds'[j].host = k => cmds'[j].client \notin Begun
       PROVE  Agree(k)'
  <2>1. k # h /\ k \notin torn
    BY <1>4, <1>14
  <2>2. \A j \in DOMAIN cmds : cmds[j].host = k => cmds[j].client \notin Begun
    BY <1>1, <1>5, <1>14, <2>1
  <2>3. Agree(k)
    BY <1>0, <2>1, <2>2 DEF SavingInv
  <2> QED BY <1>9, <2>1, <2>3 DEF Agree
<1>15. SavingInv'
  BY <1>5, <1>9, <1>12, <1>13, <1>14 DEF SavingInv
<1> QED BY <1>6, <1>7, <1>15 DEF EnrollInv

\* A command starts where none saves; its files are those of the last that ended.
LEMMA EnrollBegins == ASSUME EnrollInv, Enrolling!Start PROVE EnrollInv'
<1>0. EnrollTyped /\ TokensInv /\ SavingInv /\ UNCHANGED <<tokens, raced, cas, disk, torn>>
  BY DEF EnrollInv, Enrolling!Start
<1>0a. PICK h \in Hosts, t \in DOMAIN tokens :
         /\ ~Enrolling!Saving(h)
         /\ \E c : /\ cmds' = Append(cmds, c)
                  /\ \/ c = [host |-> h, token |-> t, server |-> 0, at |-> "sent",
                             client |-> "waiting", ca |-> 0]
                     \/ c = [host |-> h, token |-> t, server |-> 0, at |-> "end",
                             client |-> "failed", ca |-> 0]
  BY DEF Enrolling!Start
<1>1. PICK c :
        /\ ~Enrolling!Saving(h) /\ cmds' = Append(cmds, c)
        /\ \/ c = [host |-> h, token |-> t, server |-> 0, at |-> "sent", client |-> "waiting",
                   ca |-> 0]
           \/ c = [host |-> h, token |-> t, server |-> 0, at |-> "end", client |-> "failed",
                   ca |-> 0]
  BY <1>0a
<1>2. PICK m : m = Len(cmds) + 1
  OBVIOUS
<1>3. /\ c \in Cmds /\ c.host = h /\ c.token = t /\ c.at \in {"sent", "end"} /\ c.ca = 0
      /\ c.client \in {"waiting", "failed"}
  <2>1. tokens \in Seq(Tokens)
    BY <1>0 DEF EnrollTyped
  <2>2. t \in Nat
    <3> HIDE DEF Tokens
    <3> QED BY <2>1, LenProperties
  <2> QED BY <1>1, <2>2 DEF Cmds, Stages, Clients
<1>4. /\ cmds' \in Seq(Cmds) /\ DOMAIN cmds' = DOMAIN cmds \cup {m} /\ m \notin DOMAIN cmds
      /\ cmds'[m] = c /\ \A k \in DOMAIN cmds : cmds'[k] = cmds[k]
  <2> HIDE DEF Cmds, Tokens
  <2>1. cmds \in Seq(Cmds)
    BY <1>0 DEF EnrollTyped
  <2> QED BY <1>1, <1>2, <1>3, <2>1, AppendProperties, LenProperties
<1>5. EnrollTyped'
  BY <1>0, <1>3, <1>4 DEF EnrollTyped
<1>6. ~Looked(m)' /\ ~Marked(m)'
  BY <1>3, <1>4 DEF Looked, Marked, Enrolling!Signed
<1>7. \A k \in DOMAIN cmds : (Marked(k)' <=> Marked(k)) /\ (Looked(k)' <=> Looked(k))
  BY <1>4 DEF Looked, Marked, Enrolling!Signed
<1>8. TokensInv'
  BY <1>0, <1>4, <1>6, <1>7 DEF TokensInv
<1>9. SavingInv'
  <2>1. DiskTyped' /\ c.client \notin Begun
    BY <1>0, <1>3 DEF SavingInv, DiskTyped, Begun
  <2>2. \A k \in DOMAIN cmds : cmds[k].host = h => cmds[k].client \notin Enrolling!Active
    BY <1>1 DEF Enrolling!Saving
  <2>3. \A k \in DOMAIN cmds', j \in DOMAIN cmds' :
          /\ cmds'[k].client \in Enrolling!Active /\ cmds'[j].client \in Enrolling!Active
          /\ cmds'[k].host = cmds'[j].host
          => k = j
    BY <1>0, <1>3, <1>4, <2>2 DEF SavingInv
  <2>4. \A k \in DOMAIN cmds' :
          /\ cmds'[k].client \in Begun => disk'[cmds'[k].host].key = k
          /\ cmds'[k].client \in {"ca", "ident"} => disk'[cmds'[k].host].crt = k
          /\ cmds'[k].client = "ident" => disk'[cmds'[k].host].ca = k
    BY <1>0, <1>3, <1>4, <2>1 DEF SavingInv, Begun
  <2>5. \A k \in Hosts : Agree(k) => Agree(k)'
    BY <1>0 DEF Agree
  <2>6. \A k \in Hosts :
          k \notin torn' /\ (\A j \in DOMAIN cmds' : cmds'[j].host = k => cmds'[j].client \notin Begun)
            => Agree(k)'
    BY <1>0, <1>4, <2>5 DEF SavingInv
  <2> QED BY <2>1, <2>3, <2>4, <2>6 DEF SavingInv
<1> QED BY <1>5, <1>8, <1>9 DEF EnrollInv

\* The control plane dies: the requests end, and who waits for one has failed.
LEMMA EnrollCrashes == ASSUME EnrollInv, Enrolling!Crash PROVE EnrollInv'
<1>0. EnrollTyped /\ TokensInv /\ SavingInv /\ UNCHANGED <<tokens, raced, cas, disk, torn>>
  BY DEF EnrollInv, Enrolling!Crash
<1>1. cmds \in Seq(Cmds) /\ Len(cmds) \in Nat /\ DOMAIN cmds = 1..Len(cmds)
  <2>1. cmds \in Seq(Cmds)
    BY <1>0 DEF EnrollTyped
  <2> HIDE DEF Cmds
  <2> QED BY <2>1, LenProperties
<1>2. /\ DOMAIN cmds' = DOMAIN cmds
      /\ \A n \in DOMAIN cmds :
           cmds'[n] = IF cmds[n].at = "end" THEN cmds[n]
                      ELSE [cmds[n] EXCEPT !.at = "end",
                                           !.client = IF @ = "waiting" THEN "failed" ELSE @]
  BY DEF Enrolling!Crash
<1>3. ASSUME NEW n \in DOMAIN cmds
      PROVE  /\ cmds'[n] \in Cmds /\ cmds'[n].token = cmds[n].token /\ cmds'[n].host = cmds[n].host
             /\ cmds'[n].at = "end" /\ cmds'[n].ca = cmds[n].ca
             /\ \/ cmds'[n].client = cmds[n].client
                \/ cmds[n].client = "waiting" /\ cmds'[n].client \in {"key", "failed"}
  <2>1. cmds[n] \in Cmds
    BY <1>0, CmdAt
  <2> QED BY <1>2, <2>1, ZenonT(30) DEF Cmds, Stages, Clients
<1>4. cmds' \in Seq(Cmds)
  <2>1. cmds' \in [1..Len(cmds) -> Cmds]
    <3>1. cmds' = [n \in DOMAIN cmds |->
                    IF cmds[n].at = "end" THEN cmds[n]
                    ELSE [cmds[n] EXCEPT !.at = "end",
                                         !.client = IF @ = "waiting" THEN "failed" ELSE @]]
      BY DEF Enrolling!Crash
    <3> HIDE DEF Cmds
    <3> QED BY <1>1, <1>3, <3>1
  <2> HIDE DEF Cmds
  <2> QED BY <1>1, <2>1, SeqDef
<1>5. EnrollTyped'
  BY <1>0, <1>2, <1>3, <1>4 DEF EnrollTyped
<1>6. \A n \in DOMAIN cmds : (Marked(n)' => Marked(n)) /\ (Looked(n)' => Looked(n))
  BY <1>3 DEF Looked, Marked, Enrolling!Signed
<1>7. TokensInv'
  BY <1>0, <1>2, <1>3, <1>6, TokensFrame
<1>8. SavingInv'
  BY <1>0, <1>2, <1>3, SavingFrame
<1> QED BY <1>5, <1>7, <1>8 DEF EnrollInv

\* Tokens that are issued, and some that end.
LEMMA EnrollIssues ==
  ASSUME EnrollInv, cas' \in Nat, UNCHANGED <<cmds, disk, torn, raced>>,
         tokens' \in Seq(Tokens), DOMAIN tokens \subseteq DOMAIN tokens',
         \A t \in DOMAIN tokens : tokens'[t].used = tokens[t].used
  PROVE  EnrollInv'
<1>1. EnrollTyped'
  BY DEF EnrollInv, EnrollTyped
<1>2. \A n \in DOMAIN cmds : cmds[n].token \in DOMAIN tokens
  BY DEF EnrollInv, EnrollTyped
<1>3. TokensInv'
  BY <1>2 DEF EnrollInv, TokensInv, Marked, Looked, Enrolling!Signed
<1>4. SavingInv'
  BY DEF EnrollInv, SavingInv, DiskTyped, Agree
<1> QED BY <1>1, <1>3, <1>4 DEF EnrollInv

LEMMA EnrollOperates ==
  ASSUME EnrollInv, PkiInv,
         Enrolling!Create \/ Enrolling!IssueToken \/ Enrolling!Delete \/ Enrolling!Expire
  PROVE  EnrollInv'
<1>1. UNCHANGED <<cmds, disk, torn, raced>> /\ cas' \in Nat
  BY DEF PkiInv, Enrolling!Create, Enrolling!IssueToken, Enrolling!Delete, Enrolling!Expire
<1>2. tokens \in Seq(Tokens) /\ Len(tokens) \in Nat /\ DOMAIN tokens = 1..Len(tokens)
      /\ \A t \in DOMAIN tokens : tokens[t] \in Tokens
  <2>1. tokens \in Seq(Tokens)
    BY DEF EnrollInv, EnrollTyped
  <2> HIDE DEF Tokens
  <2> QED BY <2>1, LenProperties, ElementOfSeq
<1>3. ASSUME NEW s \in Servers, Enrolling!Issue(s) PROVE EnrollInv'
  <2> DEFINE t == [server |-> s, used |-> FALSE, ended |-> FALSE]
  <2>1. t \in Tokens /\ tokens' = Append(tokens, t)
    BY <1>3 DEF Enrolling!Issue, Tokens
  <2> HIDE DEF t, Tokens
  <2>2. /\ tokens' \in Seq(Tokens) /\ DOMAIN tokens \subseteq DOMAIN tokens'
        /\ \A k \in DOMAIN tokens : tokens'[k] = tokens[k]
    BY <1>2, <2>1, AppendProperties, LenProperties
  <2> QED BY <1>1, <2>2, EnrollIssues
<1>4. ASSUME NEW s \in Servers,
             tokens' = [t \in DOMAIN tokens |->
                          [tokens[t] EXCEPT !.ended = @ \/ tokens[t].server = s]]
      PROVE  EnrollInv'
  <2>1. /\ DOMAIN tokens' = DOMAIN tokens
        /\ \A t \in DOMAIN tokens : tokens'[t].used = tokens[t].used /\ tokens'[t] \in Tokens
    BY <1>2, <1>4 DEF Tokens
  <2>2. tokens' \in Seq(Tokens)
    <3>1. tokens' \in [1..Len(tokens) -> Tokens]
      <4> HIDE DEF Tokens
      <4> QED BY <1>2, <1>4, <2>1
    <3> HIDE DEF Tokens
    <3> QED BY <1>2, <3>1, SeqDef
  <2> QED BY <1>1, <2>1, <2>2, EnrollIssues
<1>5. ASSUME NEW t \in DOMAIN tokens, tokens' = [tokens EXCEPT ![t].ended = TRUE]
      PROVE  EnrollInv'
  <2> DEFINE v == [tokens[t] EXCEPT !.ended = TRUE]
  <2>1. v \in Tokens /\ v.used = tokens[t].used /\ tokens' = [tokens EXCEPT ![t] = v]
    BY <1>2, <1>5 DEF Tokens
  <2> HIDE DEF v, Tokens
  <2>2. tokens' \in Seq(Tokens) /\ DOMAIN tokens' = DOMAIN tokens
        /\ tokens'[t] = v /\ \A k \in DOMAIN tokens : k # t => tokens'[k] = tokens[k]
    BY <1>2, <2>1, ExceptSeq
  <2> QED BY <1>1, <2>1, <2>2, EnrollIssues
<1> QED BY <1>3, <1>4, <1>5
     DEF Enrolling!Create, Enrolling!IssueToken, Enrolling!Delete, Enrolling!Expire

LEMMA EnrollStep ==
  ASSUME PkiInv, EnrollInv, Enrolling!Next PROVE PkiInv' /\ EnrollInv'
<1>1. CASE Enrolling!Boot
  <2>1. PkiInv'
    BY <1>1, PkiBoots
  <2>2. cas' \in Nat
    BY <2>1 DEF PkiInv
  <2> QED BY <1>1, <2>1, <2>2, EnrollQuiet DEF Enrolling!Boot
<1>2. CASE Enrolling!Crash
  BY <1>2, PkiCrashes, EnrollCrashes
<1>3. CASE UNCHANGED <<pki, boot, cas>>
  <2>1. PkiInv' /\ cas' \in Nat
    BY <1>3 DEF PkiInv
  <2>2. ASSUME NEW n \in DOMAIN cmds,
               \/ Enrolling!Handler(n) \/ Enrolling!Save(n)
               \/ Enrolling!GiveUp(n) \/ Enrolling!SaveDies(n)
        PROVE  EnrollInv'
    BY <2>2, EnrollHandles, EnrollSaves, EnrollTears
  <2>3. ASSUME NEW h \in Hosts,
               \/ Enrolling!AgentStart(h) \/ Enrolling!Restart(h) \/ Enrolling!Connect(h)
               \/ Enrolling!Rebind(h) \/ Enrolling!AgentCrash(h) \/ Enrolling!Drop(h)
        PROVE  EnrollInv'
    <3>1. UNCHANGED <<cmds, tokens, disk, torn, raced>>
      BY <2>3 DEF Enrolling!AgentStart, Enrolling!Restart, Enrolling!Connect,
                  Enrolling!Rebind, Enrolling!AgentCrash, Enrolling!Drop
    <3> QED BY <2>1, <3>1, EnrollQuiet
  <2>4. EnrollInv'
    <3>1. CASE Enrolling!System
      BY <1>1, <2>2, <2>3, <3>1, EnrollQuiet, <2>1 DEF Enrolling!System, Enrolling!Boot
    <3>2. CASE ~Enrolling!System /\ ~Enrolling!Crash
      BY <2>2, <2>3, <3>2, EnrollOperates, EnrollBegins DEF Enrolling!Next
    <3> QED BY <3>1, <3>2, <1>2, EnrollCrashes
  <2> QED BY <2>1, <2>4
<1>4. Enrolling!Boot \/ Enrolling!Crash \/ UNCHANGED <<pki, boot, cas>>
  <2>1. ASSUME NEW n \in DOMAIN cmds,
               \/ Enrolling!Handler(n) \/ Enrolling!Save(n)
               \/ Enrolling!GiveUp(n) \/ Enrolling!SaveDies(n)
        PROVE  UNCHANGED <<pki, boot, cas>>
    BY <2>1 DEF Enrolling!Handler, Enrolling!ReadToken, Enrolling!UseToken, Enrolling!Bind,
                Enrolling!Answer, Enrolling!Save, Enrolling!GiveUp, Enrolling!SaveDies
  <2>2. ASSUME NEW h \in Hosts,
               \/ Enrolling!AgentStart(h) \/ Enrolling!Restart(h) \/ Enrolling!Connect(h)
               \/ Enrolling!Rebind(h) \/ Enrolling!AgentCrash(h) \/ Enrolling!Drop(h)
        PROVE  UNCHANGED <<pki, boot, cas>>
    BY <2>2 DEF Enrolling!AgentStart, Enrolling!Restart, Enrolling!Connect,
                Enrolling!Rebind, Enrolling!AgentCrash, Enrolling!Drop
  <2>3. Enrolling!Create \/ Enrolling!IssueToken \/ Enrolling!Delete \/ Enrolling!Expire
          \/ Enrolling!Start => UNCHANGED <<pki, boot, cas>>
    BY DEF Enrolling!Create, Enrolling!IssueToken, Enrolling!Delete, Enrolling!Expire,
           Enrolling!Start
  <2> QED BY <2>1, <2>2, <2>3 DEF Enrolling!Next, Enrolling!System
<1> QED BY <1>1, <1>2, <1>3, <1>4

LEMMA EnrollStutter ==
  ASSUME PkiInv, EnrollInv, UNCHANGED enrollVars PROVE PkiInv' /\ EnrollInv'
<1>1. PkiInv' /\ cas' \in Nat
  BY DEF PkiInv, enrollVars
<1> QED BY <1>1, EnrollQuiet DEF enrollVars

\* EnrolledRight: a token enrols one command unless two requests raced for it, the
\* files of a host fit together, and a control plane that is up has those of its CA.
THEOREM EnrolledAsPromised == MCSafe => []EnrolledRight
<1>1. MCInit => PkiInv /\ EnrollInv
  BY EnrollStart DEF MCInit
<1>2. (PkiInv /\ EnrollInv) /\ [MCNext]_allVars => (PkiInv /\ EnrollInv)'
  BY EnrollStep, EnrollStutter DEF MCNext, allVars
<1>3. PkiInv /\ EnrollInv => EnrolledRight
  <2> SUFFICES ASSUME PkiInv, EnrollInv PROVE EnrolledRight
    OBVIOUS
  <2>1. Enrolling!TokensAreOneTime
    BY DEF EnrollInv, TokensInv, Marked, Looked, Enrolling!TokensAreOneTime
  <2>2. Enrolling!FilesAgree
    BY DEF EnrollInv, SavingInv, Agree, Begun, Enrolling!FilesAgree, Enrolling!Saving,
           Enrolling!Active
  <2>3. Enrolling!BundleWhole
    BY DEF PkiInv, Enrolling!BundleWhole, Enrolling!Up
  <2> QED BY <2>1, <2>2, <2>3 DEF EnrolledRight
<1> QED BY <1>1, <1>2, <1>3, PTL DEF MCSafe

(***************************************************************************)
(* Users who sign in.  Ids are given out and never taken back: what names  *)
(* a user (a session, an account, a key, a request) goes on naming a row.  *)
(* A challenge is in its table or was taken by one request.                *)
(***************************************************************************)
Ceremonies == [b : Browsers, purpose : {"login", "enroll", "step_up"}, user : Nat,
               allowed : SUBSET Keys]

SignTyped ==
  /\ users \in [Emails -> UserRows \cup {None}]
  /\ DOMAIN links = Accounts /\ DOMAIN keys = Keys /\ DOMAIN reqs = Requests
  /\ DOMAIN jar = Browsers /\ \A b \in Browsers : DOMAIN jar[b] = DOMAIN NoCookies
  /\ vouched \in [Browsers -> Emails \cup {None}]
  /\ begun \in Seq(Ceremonies) /\ challenges \subseteq 1..Len(begun)

\* Who is named has a row, and a session the one its browser was vouched for.
KnownInv ==
  /\ \A a \in Accounts : links[a] # None => links[a] \in Ids
  /\ \A k \in Keys : keys[k] # None => keys[k] \in Ids
  /\ \A b \in Browsers : jar[b].session # 0 =>
       /\ jar[b].session \in Ids
       /\ vouched[b] # None => /\ users[vouched[b]] # None
                               /\ users[vouched[b]].id = jar[b].session

\* A request that is under way.
ReqInv(q) ==
  /\ DOMAIN q = DOMAIN Idle
  /\ q.at \in {"exchange", "connect"} => q.user \in Ids \cup {0}
  /\ q.at = "identity" => q.account \in Accounts
  /\ q.at \in {"identity", "email", "insert", "link"} => q.email \in Emails
  /\ q.at = "link" => users[q.email] # None /\ users[q.email].id = q.user
  /\ q.at = "insert" /\ q.email \in seeded => q.email \in crossed
  /\ q.at \in {"take", "verify"} => q.key \in Keys /\ (q.kind # "login" => q.user \in Ids)
  /\ q.at = "verify" =>
       /\ q.n \in 1..Len(begun) /\ q.n \notin challenges
       /\ begun[q.n].purpose = q.kind /\ begun[q.n].user = q.user
       /\ \A x \in accepted : x.n # q.n

ReqsInv ==
  /\ \A r \in Requests : ReqInv(reqs[r])
  /\ \A r, s \in Requests :
       reqs[r].at = "verify" /\ reqs[s].at = "verify" /\ reqs[r].n = reqs[s].n => r = s

AcceptInv ==
  /\ \A x \in accepted : x.n \in 1..Len(begun) /\ x.n \notin challenges
  /\ CeremoniesWarrant

SeedInv ==
  \A e \in seeded : /\ e \in Emails /\ users[e] # None
                    /\ e \notin crossed => users[e].role = "owner" /\ users[e].password

SignInv == SignTyped /\ KnownInv /\ ReqsInv /\ AcceptInv /\ SeedInv

\* A user that has an id keeps it.
UsersGrow ==
  \A e \in Emails : users[e] # None => users'[e] # None /\ users'[e].id = users[e].id

BegunGrows ==
  /\ Len(begun) \in Nat /\ Len(begun') \in Nat /\ Len(begun) <= Len(begun')
  /\ \A n \in 1..Len(begun) : begun'[n] = begun[n]

LEMMA RowIsKnown == \A e \in Emails : users[e] # None => users[e].id \in Ids
BY DEF Ids

LEMMA IdsGrow == ASSUME UsersGrow PROVE Ids \subseteq Ids'
BY DEF UsersGrow, Ids

LEMMA FreshIsNumber == ASSUME SignTyped PROVE FreshId \in Nat
<1> DEFINE D == {e \in Emails : users[e] # None}
<1>1. IsFiniteSet(D)
  BY AccessAssumption, FS_Subset
<1>2. PICK f : f = [e \in D |-> users[e].id]
  OBVIOUS
<1>3. f \in Surjection(D, Ids)
  BY <1>2 DEF Surjection, Ids
<1>4. IsFiniteSet(Ids)
  BY <1>1, <1>3, FS_Surjection DEF ExistsSurjection
<1> QED BY <1>4, FS_CardinalityType DEF FreshId

\* An upsert writes one row, and keeps the id of a row that is there.
LEMMA UpsertGrows ==
  ASSUME SignTyped, NEW e \in Emails, NEW role \in {"owner", "viewer"}, NEW password \in BOOLEAN,
         Upsert(e, role, password)
  PROVE  /\ users' \in [Emails -> UserRows \cup {None}] /\ UsersGrow
         /\ users'[e] # None /\ users'[e].role = role /\ users'[e].password = password
         /\ \A x \in Emails : x # e => users'[x] = users[x]
<1> DEFINE u == [id |-> IF users[e] = None THEN FreshId ELSE users[e].id,
                 role |-> role, password |-> password]
<1>1. users \in [Emails -> UserRows \cup {None}]
  BY DEF SignTyped
<1>2. u \in UserRows /\ u.role = role /\ u.password = password
      /\ (users[e] # None => u.id = users[e].id)
  BY <1>1, FreshIsNumber DEF UserRows
<1>3. users' = [users EXCEPT ![e] = u]
  BY DEF Upsert
<1> HIDE DEF u, UserRows
<1>4. u # None
  BY <1>2, AccessAssumption
<1> QED BY <1>1, <1>2, <1>3, <1>4 DEF UsersGrow

\* A request that takes no step while others do.
LEMMA ReqKept ==
  ASSUME NEW q, ReqInv(q), UsersGrow, BegunGrows,
         q.at = "insert" /\ q.email \in seeded' => q.email \in crossed',
         q.at = "verify" => q.n \notin challenges' /\ \A x \in accepted' : x.n # q.n
  PROVE  ReqInv(q)'
BY IdsGrow DEF ReqInv, UsersGrow, BegunGrows, Idle

\* One request takes a step.
LEMMA ReqSteps ==
  ASSUME SignInv, NEW r \in Requests, NEW u, reqs' = [reqs EXCEPT ![r] = u], ReqInv(u)',
         \A s \in Requests : s # r => ReqInv(reqs[s])',
         \A s \in Requests : s # r /\ u.at = "verify" /\ reqs[s].at = "verify" => reqs[s].n # u.n
  PROVE  ReqsInv' /\ DOMAIN reqs' = Requests
<1>1. DOMAIN reqs = Requests
  BY DEF SignInv, SignTyped
<1>2. DOMAIN reqs' = Requests /\ reqs'[r] = u /\ \A s \in Requests : s # r => reqs'[s] = reqs[s]
  BY <1>1
<1> QED BY <1>2 DEF ReqsInv, SignInv

\* The other requests, while one takes a step or none does.
LEMMA OthersKept ==
  ASSUME SignInv, NEW s \in Requests, reqs'[s] = reqs[s], UsersGrow, BegunGrows,
         reqs[s].at = "insert" /\ reqs[s].email \in seeded' => reqs[s].email \in crossed',
         reqs[s].at = "verify" =>
           reqs[s].n \notin challenges' /\ \A x \in accepted' : x.n # reqs[s].n
  PROVE  ReqInv(reqs[s])'
<1>1. PICK q : q = reqs[s]
  OBVIOUS
<1>2. ReqInv(q)
  BY <1>1 DEF SignInv, ReqsInv
<1>3. ReqInv(q)'
  BY <1>1, <1>2, ReqKept
<1> QED BY <1>1, <1>3

\* What is true of another request that has taken its challenge.
LEMMA VerifyApart ==
  ASSUME SignInv, NEW s \in Requests, reqs[s].at = "verify"
  PROVE  /\ reqs[s].n \in 1..Len(begun) /\ reqs[s].n \notin challenges
         /\ \A x \in accepted : x.n # reqs[s].n
         /\ \A r \in Requests : r # s /\ reqs[r].at = "verify" => reqs[r].n # reqs[s].n
BY DEF SignInv, ReqsInv, ReqInv

\* No row of users, ceremony or seed changes while a request takes a step.
LEMMA QuietStep ==
  ASSUME SignInv, NEW r \in Requests, NEW u, reqs' = [reqs EXCEPT ![r] = u], ReqInv(u)',
         UNCHANGED <<users, begun, seeded, crossed>>, challenges' \subseteq challenges,
         u.at # "verify",
         \A x \in accepted' : x \in accepted \/ (reqs[r].at = "verify" /\ x.n = reqs[r].n)
  PROVE  ReqsInv' /\ DOMAIN reqs' = Requests
<1>1. UsersGrow /\ BegunGrows
  <2> HIDE DEF Ceremonies
  <2> QED BY LenProperties DEF UsersGrow, BegunGrows, SignInv, SignTyped
<1>2. ASSUME NEW s \in Requests, s # r PROVE ReqInv(reqs[s])'
  <2>1. reqs'[s] = reqs[s]
    BY <1>2 DEF SignInv, SignTyped
  <2>2. reqs[s].at = "insert" /\ reqs[s].email \in seeded' => reqs[s].email \in crossed'
    BY DEF SignInv, ReqsInv, ReqInv
  <2>3. reqs[s].at = "verify" =>
          reqs[s].n \notin challenges' /\ \A x \in accepted' : x.n # reqs[s].n
    BY <1>2, VerifyApart
  <2> QED BY <1>1, <2>1, <2>2, <2>3, OthersKept
<1> QED BY <1>2, ReqSteps

\* A browser's request that takes one step, and time.
LEMMA QuietReqs ==
  ASSUME SignInv, UNCHANGED <<users, begun, seeded, crossed, reqs, accepted>>,
         challenges' \subseteq challenges
  PROVE  ReqsInv' /\ AcceptInv' /\ SeedInv'
<1>1. UsersGrow /\ BegunGrows
  <2> HIDE DEF Ceremonies
  <2> QED BY LenProperties DEF UsersGrow, BegunGrows, SignInv, SignTyped
<1>2. ASSUME NEW s \in Requests PROVE ReqInv(reqs[s])'
  <2>1. reqs[s].at = "insert" /\ reqs[s].email \in seeded' => reqs[s].email \in crossed'
    BY DEF SignInv, ReqsInv, ReqInv
  <2>2. reqs[s].at = "verify" =>
          reqs[s].n \notin challenges' /\ \A x \in accepted' : x.n # reqs[s].n
    BY VerifyApart
  <2> QED BY <1>1, <2>1, <2>2, OthersKept
<1>3. ReqsInv'
  BY <1>2 DEF SignInv, ReqsInv
<1> QED BY <1>3 DEF SignInv, AcceptInv, SeedInv, CeremoniesWarrant

\* A request that is refused, or has answered, is done.
LEMMA Refused ==
  ASSUME NEW r, Refuse(r)
  PROVE  \E u : reqs' = [reqs EXCEPT ![r] = u] /\ ReqInv(u)' /\ u.at = "done"
<1> DEFINE u == [Idle EXCEPT !.at = "done"]
<1>1. DOMAIN u = DOMAIN Idle /\ u.at = "done"
  BY DEF Idle
<1>2. reqs' = [reqs EXCEPT ![r] = u]
  BY DEF Refuse, Step
<1> HIDE DEF u
<1>3. PICK v : v = u
  OBVIOUS
<1>4. ReqInv(v)'
  BY <1>1, <1>3 DEF ReqInv, Idle
<1> QED BY <1>1, <1>2, <1>3, <1>4

\* Nothing that names a user changes.
LEMMA KnownStays ==
  ASSUME SignInv, UsersGrow, UNCHANGED <<links, keys, vouched>>, DOMAIN jar' = Browsers,
         \A b \in Browsers : /\ DOMAIN jar'[b] = DOMAIN NoCookies
                             /\ jar'[b].session = jar[b].session
  PROVE  KnownInv'
BY IdsGrow DEF SignInv, SignTyped, KnownInv, UsersGrow

\* A browser gets a session, or loses it.
LEMMA Opens ==
  ASSUME SignInv, UNCHANGED <<users, links, keys>>, NEW b, NEW user, NEW email \in Emails \cup {None},
         Open(b, user, email),
         user # 0 => user \in Ids /\ (email # None => users[email] # None /\ users[email].id = user)
  PROVE  /\ KnownInv' /\ vouched' \in [Browsers -> Emails \cup {None}]
         /\ DOMAIN jar' = Browsers /\ \A x \in Browsers : DOMAIN jar'[x] = DOMAIN NoCookies
<1> USE DEF NoCookies
<1>1. Ids' = Ids
  BY DEF Ids
<1>2. /\ DOMAIN jar = Browsers /\ \A x \in Browsers : DOMAIN jar[x] = DOMAIN NoCookies
      /\ vouched \in [Browsers -> Emails \cup {None}]
  BY DEF SignInv, SignTyped
<1>3. jar' = [jar EXCEPT ![b].session = user] /\ vouched' = [vouched EXCEPT ![b] = email]
  BY DEF Open
<1>4. /\ vouched' \in [Browsers -> Emails \cup {None}]
      /\ DOMAIN jar' = Browsers /\ \A x \in Browsers : DOMAIN jar'[x] = DOMAIN NoCookies
  BY <1>2, <1>3
<1>5. \A x \in Browsers : /\ x # b => jar'[x] = jar[x] /\ vouched'[x] = vouched[x]
                          /\ x = b => jar'[x].session = user /\ vouched'[x] = email
  BY <1>2, <1>3
<1>6. KnownInv'
  BY <1>1, <1>5 DEF SignInv, KnownInv
<1> QED BY <1>4, <1>6

LEMMA SignStart == Init => SignInv
<1> SUFFICES ASSUME Init PROVE SignInv
  OBVIOUS
<1> USE DEF Init
<1>1. /\ users \in [Emails -> UserRows \cup {None}]
      /\ \A e \in seeded : /\ e \in Emails /\ users[e] # None
                           /\ users[e].role = "owner" /\ users[e].password
  <2>1. CASE users \in [Emails -> {None}]
    BY <2>1
  <2>2. ASSUME NEW a \in Emails,
               users = [e \in Emails |-> IF e = a THEN [id |-> 1, role |-> "owner", password |-> TRUE]
                                                  ELSE None]
        PROVE  /\ users \in [Emails -> UserRows \cup {None}]
               /\ \A e \in seeded : /\ e \in Emails /\ users[e] # None
                                    /\ users[e].role = "owner" /\ users[e].password
    <3> DEFINE u == [id |-> 1, role |-> "owner", password |-> TRUE]
    <3>1. u \in UserRows /\ u.role = "owner" /\ u.password
      BY DEF UserRows
    <3>2. users = [e \in Emails |-> IF e = a THEN u ELSE None]
      BY <2>2
    <3> HIDE DEF u, UserRows
    <3> QED BY <3>1, <3>2
  <2> QED BY <2>1, <2>2
<1>2. begun \in Seq(Ceremonies) /\ Len(begun) = 0
  <2> HIDE DEF Ceremonies
  <2> QED BY EmptySeq
<1>3. SignTyped
  BY <1>1, <1>2 DEF SignTyped, NoCookies
<1>4. KnownInv
  BY DEF KnownInv, NoCookies
<1>5. \A r \in Requests : reqs[r].at = "idle" /\ DOMAIN reqs[r] = DOMAIN Idle
  BY DEF Idle
<1>6. ReqsInv
  BY <1>5 DEF ReqsInv, ReqInv
<1>7. AcceptInv /\ SeedInv
  BY <1>1 DEF AcceptInv, SeedInv, CeremoniesWarrant
<1> QED BY <1>3, <1>4, <1>6, <1>7 DEF SignInv

\* The seed: a first sign-in that is about to insert has crossed it.
LEMMA SignSeeds == ASSUME SignInv, NEW e \in Emails, SeedAdmin(e) PROVE SignInv'
<1>0. SignTyped
  BY DEF SignInv
<1>1. /\ seeded \subseteq {e} /\ Upsert(e, "owner", TRUE) /\ seeded' = seeded \cup {e}
      /\ crossed' = crossed \cup
           {x \in {e} : \E r \in Requests : reqs[r].at = "insert" /\ reqs[r].email = x}
      /\ UNCHANGED <<links, keys, challenges, jar, flows, reqs, begun, vouched, accepted>>
  BY DEF SeedAdmin
<1>2. /\ users' \in [Emails -> UserRows \cup {None}] /\ UsersGrow
      /\ users'[e] # None /\ users'[e].role = "owner" /\ users'[e].password
  BY <1>0, <1>1, UpsertGrows
<1>3. BegunGrows
  <2> HIDE DEF Ceremonies
  <2> QED BY <1>0, <1>1, LenProperties DEF BegunGrows, SignTyped
<1>4. SignTyped'
  BY <1>0, <1>1, <1>2 DEF SignTyped
<1>5. KnownInv'
  BY <1>0, <1>1, <1>2, KnownStays DEF SignTyped
<1>6. ASSUME NEW s \in Requests PROVE ReqInv(reqs[s])'
  <2>1. reqs[s].at = "insert" /\ reqs[s].email \in seeded' => reqs[s].email \in crossed'
    BY <1>1 DEF SignInv, ReqsInv, ReqInv
  <2>2. reqs[s].at = "verify" =>
          reqs[s].n \notin challenges' /\ \A x \in accepted' : x.n # reqs[s].n
    BY <1>1, VerifyApart
  <2> QED BY <1>1, <1>2, <1>3, <2>1, <2>2, OthersKept
<1>7. ReqsInv'
  BY <1>1, <1>6 DEF SignInv, ReqsInv
<1>8. AcceptInv' /\ SeedInv'
  BY <1>1, <1>2 DEF SignInv, AcceptInv, SeedInv, CeremoniesWarrant
<1> QED BY <1>4, <1>5, <1>7, <1>8 DEF SignInv

\* What a browser does in one request.
LEMMA SignBrowses == ASSUME SignInv, NEW b \in Browsers, Browser(b) PROVE SignInv'
<1>1. ASSUME UNCHANGED <<users, begun, seeded, crossed, reqs, accepted>>,
             challenges' \subseteq challenges, DOMAIN links' = Accounts, DOMAIN keys' = Keys,
             DOMAIN jar' = Browsers, \A x \in Browsers : DOMAIN jar'[x] = DOMAIN NoCookies,
             vouched' \in [Browsers -> Emails \cup {None}], KnownInv'
      PROVE  SignInv'
  <2>1. SignTyped'
    BY <1>1 DEF SignInv, SignTyped
  <2>2. ReqsInv' /\ AcceptInv' /\ SeedInv'
    BY <1>1, QuietReqs
  <2> QED BY <1>1, <2>1, <2>2 DEF SignInv
<1>2. ASSUME NEW e \in Emails, Login(b, e) PROVE SignInv'
  <2>1. users[e] # None /\ users[e].id \in Ids /\ Open(b, users[e].id, e)
        /\ UNCHANGED <<tables, reqs, begun, accepted, seeded, crossed>>
    BY <1>2, RowIsKnown DEF Login
  <2>2. PICK id : id = users[e].id
    OBVIOUS
  <2>3. /\ KnownInv' /\ vouched' \in [Browsers -> Emails \cup {None}]
        /\ DOMAIN jar' = Browsers /\ \A x \in Browsers : DOMAIN jar'[x] = DOMAIN NoCookies
    BY <2>1, <2>2, Opens DEF tables
  <2> QED BY <1>1, <2>1, <2>3 DEF tables, SignInv, SignTyped
<1>3. ASSUME SessionEnds(b) PROVE SignInv'
  <2>1. Open(b, 0, None) /\ UNCHANGED <<tables, reqs, begun, accepted, seeded, crossed>>
    BY <1>3 DEF SessionEnds
  <2>2. /\ KnownInv' /\ vouched' \in [Browsers -> Emails \cup {None}]
        /\ DOMAIN jar' = Browsers /\ \A x \in Browsers : DOMAIN jar'[x] = DOMAIN NoCookies
    BY <2>1, Opens DEF tables
  <2> QED BY <1>1, <2>1, <2>2 DEF tables, SignInv, SignTyped
<1>4. ASSUME /\ DOMAIN jar' = Browsers
             /\ \A x \in Browsers : /\ DOMAIN jar'[x] = DOMAIN NoCookies
                                    /\ jar'[x].session = jar[x].session,
             UNCHANGED <<tables, reqs, begun, history>>
      PROVE  SignInv'
  <2>1. UsersGrow /\ UNCHANGED <<links, keys, vouched>>
    BY <1>4 DEF UsersGrow, tables, history
  <2>2. KnownInv'
    BY <1>4, <2>1, KnownStays
  <2> QED BY <1>1, <1>4, <2>2 DEF tables, history, SignInv, SignTyped
<1>5. ASSUME StateExpires(b) PROVE SignInv'
  <2>1. /\ DOMAIN jar' = Browsers
        /\ \A x \in Browsers : /\ DOMAIN jar'[x] = DOMAIN NoCookies
                               /\ jar'[x].session = jar[x].session
    BY <1>5 DEF StateExpires, SignInv, SignTyped, NoCookies
  <2> QED BY <1>4, <1>5, <2>1 DEF StateExpires
<1>6. ASSUME NEW via, NEW purpose, OAuthStart(b, via, purpose) PROVE SignInv'
  <2>1. /\ DOMAIN jar' = Browsers
        /\ \A x \in Browsers : /\ DOMAIN jar'[x] = DOMAIN NoCookies
                               /\ jar'[x].session = jar[x].session
    BY <1>6 DEF OAuthStart, SignInv, SignTyped, NoCookies
  <2> QED BY <1>4, <1>6, <2>1 DEF OAuthStart
<1>7. ASSUME NEW k \in Keys, DeleteKey(b, k) PROVE SignInv'
  <2>1. /\ keys' = [keys EXCEPT ![k] = None]
        /\ UNCHANGED <<users, links, challenges, jar, flows, reqs, begun, history>>
    BY <1>7 DEF DeleteKey
  <2>2. DOMAIN keys' = Keys /\ \A x \in Keys : keys'[x] = keys[x] \/ keys'[x] = None
    BY <2>1 DEF SignInv, SignTyped
  <2>3. KnownInv'
    BY <2>1, <2>2 DEF SignInv, KnownInv, Ids, history
  <2> QED BY <1>1, <2>1, <2>2, <2>3 DEF history, SignInv, SignTyped
<1>8. ASSUME NEW purpose \in {"login", "enroll", "step_up"}, Begin(b, purpose) PROVE SignInv'
  <2>1. PICK user, c :
          /\ user = IF purpose = "login" THEN 0 ELSE User(b)
          /\ c = [b |-> b, purpose |-> purpose, user |-> user,
                  allowed |-> IF purpose = "step_up" THEN Owned(user) ELSE Keys]
    OBVIOUS
  <2>2. /\ begun' = Append(begun, c) /\ challenges' = challenges \cup {Len(begun) + 1}
        /\ jar' = [jar EXCEPT ![b].challenge = Len(begun) + 1]
        /\ UNCHANGED <<users, links, keys, flows, reqs, history>>
    BY <1>8, <2>1 DEF Begin
  <2>3. c \in Ceremonies
    <3>1. user \in Nat
      BY <2>1 DEF User, Ids, SignInv, SignTyped, UserRows
    <3> QED BY <2>1, <3>1 DEF Ceremonies, Owned
  <2>4. /\ begun' \in Seq(Ceremonies) /\ BegunGrows /\ Len(begun') = Len(begun) + 1
        /\ challenges' \subseteq 1..Len(begun') /\ Len(begun) \in Nat
    <3> HIDE DEF Ceremonies
    <3>1. begun \in Seq(Ceremonies) /\ challenges \subseteq 1..Len(begun)
      BY DEF SignInv, SignTyped
    <3> QED BY <2>2, <2>3, <3>1, AppendProperties, LenProperties DEF BegunGrows
  <2>5. /\ DOMAIN jar' = Browsers
        /\ \A x \in Browsers : /\ DOMAIN jar'[x] = DOMAIN NoCookies
                               /\ jar'[x].session = jar[x].session
    BY <2>2 DEF SignInv, SignTyped, NoCookies
  <2>6. UsersGrow /\ UNCHANGED <<users, links, keys, reqs, vouched, accepted, seeded, crossed>>
    BY <2>2 DEF UsersGrow, history
  <2>7. SignTyped' /\ KnownInv'
    BY <2>4, <2>5, <2>6, KnownStays DEF SignInv, SignTyped
  <2>8. ASSUME NEW s \in Requests PROVE ReqInv(reqs[s])'
    <3>1. reqs[s].at = "insert" /\ reqs[s].email \in seeded' => reqs[s].email \in crossed'
      BY <2>6 DEF SignInv, ReqsInv, ReqInv
    <3>2. reqs[s].at = "verify" =>
            reqs[s].n \notin challenges' /\ \A x \in accepted' : x.n # reqs[s].n
      BY <2>2, <2>4, <2>6, VerifyApart
    <3> QED BY <2>4, <2>6, <3>1, <3>2, OthersKept
  <2>9. ReqsInv' /\ SeedInv'
    BY <2>6, <2>8 DEF SignInv, ReqsInv, SeedInv
  <2>10. AcceptInv'
    <3>1. \A x \in accepted : x.n \in 1..Len(begun') /\ x.n \notin challenges' /\ begun'[x.n] = begun[x.n]
      BY <2>2, <2>4 DEF SignInv, AcceptInv, BegunGrows
    <3> QED BY <2>6, <3>1 DEF SignInv, AcceptInv, CeremoniesWarrant
  <2> QED BY <2>7, <2>9, <2>10 DEF SignInv
<1> QED BY <1>2, <1>3, <1>5, <1>6, <1>7, <1>8 DEF Browser

\* A step of one request that changes no row of users, and accepts nothing.
LEMMA RequestGoes ==
  ASSUME SignInv, NEW r \in Requests, NEW u, reqs' = [reqs EXCEPT ![r] = u], ReqInv(u)',
         u.at # "verify", UNCHANGED <<users, begun, seeded, crossed, accepted>>,
         challenges' \subseteq challenges, DOMAIN links' = Accounts, DOMAIN keys' = Keys,
         DOMAIN jar' = Browsers, \A x \in Browsers : DOMAIN jar'[x] = DOMAIN NoCookies,
         vouched' \in [Browsers -> Emails \cup {None}], KnownInv'
  PROVE  SignInv'
<1>1. ReqsInv' /\ DOMAIN reqs' = Requests
  BY QuietStep
<1>2. SignTyped'
  BY <1>1 DEF SignInv, SignTyped
<1>3. AcceptInv' /\ SeedInv'
  BY DEF SignInv, AcceptInv, SeedInv, CeremoniesWarrant
<1> QED BY <1>1, <1>2, <1>3 DEF SignInv

\* ... nor the cookies.
LEMMA RequestGoesOn ==
  ASSUME SignInv, NEW r \in Requests, NEW u, reqs' = [reqs EXCEPT ![r] = u], ReqInv(u)',
         u.at # "verify", challenges' \subseteq challenges,
         UNCHANGED <<users, links, keys, begun, vouched, accepted, seeded, crossed>>,
         DOMAIN jar' = Browsers,
         \A x \in Browsers : DOMAIN jar'[x] = DOMAIN NoCookies /\ jar'[x].session = jar[x].session
  PROVE  SignInv'
<1>1. UsersGrow
  BY DEF UsersGrow
<1>2. KnownInv'
  BY <1>1, KnownStays
<1>3. /\ DOMAIN links' = Accounts /\ DOMAIN keys' = Keys
      /\ vouched' \in [Browsers -> Emails \cup {None}]
  BY DEF SignInv, SignTyped
<1> QED BY <1>2, <1>3, RequestGoes

LEMMA SignStarts ==
  ASSUME SignInv, NEW r \in Requests,
         \/ \E n \in 1..Len(flows) : Callback(r, n)
         \/ \E n \in 1..Len(begun), k \in Keys : Finish(r, n, k)
  PROVE  SignInv'
<1>0. /\ UNCHANGED <<tables, jar, flows, begun, history>>
      /\ DOMAIN jar' = Browsers
      /\ \A x \in Browsers : DOMAIN jar'[x] = DOMAIN NoCookies /\ jar'[x].session = jar[x].session
  BY DEF Callback, Finish, SignInv, SignTyped
<1>1. ASSUME NEW u, reqs' = [reqs EXCEPT ![r] = u], ReqInv(u)', u.at # "verify" PROVE SignInv'
  BY <1>0, <1>1, RequestGoesOn DEF tables, history
<1>2. CASE Refuse(r)
  BY <1>1, <1>2, Refused
<1>3. \A b : User(b) \in Ids \cup {0}
  BY DEF User
<1>4. Ids' = Ids
  BY <1>0 DEF Ids, tables
<1>5. ASSUME NEW n \in 1..Len(flows), Callback(r, n), ~Refuse(r) PROVE SignInv'
  <2>1. PICK u : /\ u = [Idle EXCEPT !.at = "exchange", !.kind = jar[flows[n].b].purpose,
                                     !.b = flows[n].b, !.user = User(flows[n].b), !.n = n]
                 /\ reqs' = [reqs EXCEPT ![r] = u]
    BY <1>5 DEF Callback, Step
  <2>2. DOMAIN u = DOMAIN Idle /\ u.at = "exchange" /\ u.user \in Ids' \cup {0}
    BY <1>3, <1>4, <2>1 DEF Idle
  <2>3. ReqInv(u)'
    BY <2>2 DEF ReqInv
  <2> QED BY <1>1, <2>1, <2>2, <2>3
<1>6. ASSUME NEW n \in 1..Len(begun), NEW k \in Keys, Finish(r, n, k), ~Refuse(r) PROVE SignInv'
  <2>1. PICK user : user = IF begun[n].purpose = "login" THEN 0 ELSE User(begun[n].b)
    OBVIOUS
  <2>2. PICK id : /\ begun[n].purpose = "login" \/ user # 0
                  /\ Step(r, [Idle EXCEPT !.at = "take", !.kind = begun[n].purpose, !.b = begun[n].b,
                                          !.user = user, !.n = n, !.id = id, !.key = k])
    BY <1>6, <2>1 DEF Finish
  <2>3. PICK u : /\ u = [Idle EXCEPT !.at = "take", !.kind = begun[n].purpose, !.b = begun[n].b,
                                     !.user = user, !.n = n, !.id = id, !.key = k]
                 /\ reqs' = [reqs EXCEPT ![r] = u]
    BY <2>2 DEF Step
  <2>4. /\ DOMAIN u = DOMAIN Idle /\ u.at = "take" /\ u.key \in Keys
        /\ u.kind # "login" => u.user \in Ids'
    BY <1>3, <1>4, <2>1, <2>2, <2>3 DEF Idle
  <2>5. ReqInv(u)'
    BY <2>4 DEF ReqInv
  <2> QED BY <1>1, <2>3, <2>4, <2>5
<1> QED BY <1>2, <1>5, <1>6

\* The provider's answer: the request goes on with what it reports.
LEMMA SignExchanges == ASSUME SignInv, NEW r \in Requests, Exchange(r) PROVE SignInv'
<1>0. /\ UNCHANGED <<tables, begun, history>> /\ reqs[r].at = "exchange" /\ ReqInv(reqs[r])
      /\ DOMAIN jar = Browsers /\ \A x \in Browsers : DOMAIN jar[x] = DOMAIN NoCookies
  BY DEF Exchange, SignInv, ReqsInv, SignTyped
<1>1. CASE Refuse(r) /\ UNCHANGED jar
  BY <1>0, <1>1, Refused, RequestGoesOn DEF tables, history
<1>2. ASSUME NEW a \in Accounts, NEW e \in Emails, NEW at \in {"connect", "identity", "email"},
             NEW account, at = "identity" => account = a,
             jar' = [jar EXCEPT ![reqs[r].b].state = 0, ![reqs[r].b].purpose = "login"],
             Step(r, [reqs[r] EXCEPT !.at = at, !.account = account, !.email = e])
      PROVE  SignInv'
  <2>1. /\ DOMAIN jar' = Browsers
        /\ \A x \in Browsers : /\ DOMAIN jar'[x] = DOMAIN NoCookies
                               /\ jar'[x].session = jar[x].session
    BY <1>0, <1>2 DEF NoCookies
  <2>2. PICK u : u = [reqs[r] EXCEPT !.at = at, !.account = account, !.email = e]
                 /\ reqs' = [reqs EXCEPT ![r] = u]
    BY <1>2 DEF Step
  <2>3. DOMAIN reqs[r] = DOMAIN Idle /\ reqs[r].user \in Ids \cup {0}
    BY <1>0 DEF ReqInv
  <2>4. /\ DOMAIN u = DOMAIN Idle /\ u.at = at /\ u.account = account /\ u.email = e
        /\ u.user \in Ids \cup {0}
    BY <2>2, <2>3 DEF Idle
  <2>5. Ids' = Ids
    BY <1>0 DEF Ids, tables
  <2>6. ReqInv(u)'
    BY <1>2, <2>4, <2>5 DEF ReqInv
  <2> QED BY <1>0, <2>1, <2>2, <2>4, <2>6, RequestGoesOn DEF tables, history
<1>3. ASSUME ~(Refuse(r) /\ UNCHANGED jar) PROVE SignInv'
  <2>1. PICK a \in Accounts, e \in Emails :
          /\ jar' = [jar EXCEPT ![reqs[r].b].state = 0, ![reqs[r].b].purpose = "login"]
          /\ Step(r, [reqs[r] EXCEPT
                        !.at = CASE reqs[r].kind = "git" -> "connect"
                                 [] flows[reqs[r].n].via = "oauth" -> "identity"
                                 [] OTHER -> "email",
                        !.account = IF flows[reqs[r].n].via = "oauth" THEN a ELSE None,
                        !.email = e])
    BY <1>3 DEF Exchange
  <2>2. PICK at, account :
          /\ at = CASE reqs[r].kind = "git" -> "connect"
                    [] flows[reqs[r].n].via = "oauth" -> "identity"
                    [] OTHER -> "email"
          /\ account = IF flows[reqs[r].n].via = "oauth" THEN a ELSE None
    OBVIOUS
  <2>3. CASE reqs[r].kind = "git"
    BY <1>2, <2>1, <2>2, <2>3
  <2>4. CASE reqs[r].kind # "git" /\ flows[reqs[r].n].via = "oauth"
    BY <1>2, <2>1, <2>2, <2>4
  <2>5. CASE reqs[r].kind # "git" /\ flows[reqs[r].n].via # "oauth"
    BY <1>2, <2>1, <2>2, <2>5
  <2> QED BY <2>3, <2>4, <2>5
<1> QED BY <1>1, <1>3

\* purpose git, and an account that is known.
LEMMA SignConnects ==
  ASSUME SignInv, NEW r \in Requests, Connect(r) \/ Identify(r) \/ FindEmail(r)
  PROVE  SignInv'
<1>0. /\ SignTyped /\ KnownInv /\ ReqInv(reqs[r]) /\ DOMAIN reqs[r] = DOMAIN Idle
      /\ UNCHANGED <<users, keys, challenges, flows, begun, accepted, seeded, crossed>>
      /\ Ids' = Ids
  BY DEF SignInv, ReqsInv, ReqInv, Connect, Identify, FindEmail, tables, history, Ids
<1>1. ASSUME Connect(r) PROVE SignInv'
  <2>1. /\ links' = links
           \/ (reqs[r].user # 0 /\ links' = [links EXCEPT ![reqs[r].account] = reqs[r].user])
        /\ Refuse(r) /\ UNCHANGED <<users, keys, challenges, jar, flows, begun, history>>
        /\ reqs[r].user \in Ids \cup {0}
    BY <1>0, <1>1 DEF Connect, ReqInv
  <2>2. DOMAIN links' = Accounts /\ \A a \in Accounts : links'[a] # None => links'[a] \in Ids
    BY <1>0, <2>1 DEF SignTyped, KnownInv
  <2>3. KnownInv'
    BY <1>0, <2>1, <2>2 DEF KnownInv, history
  <2>4. PICK u : reqs' = [reqs EXCEPT ![r] = u] /\ ReqInv(u)' /\ u.at = "done"
    BY <2>1, Refused
  <2> QED BY <1>0, <2>1, <2>2, <2>3, <2>4, RequestGoes DEF SignTyped, history
<1>2. ASSUME Identify(r) PROVE SignInv'
  <2>0. reqs[r].account \in Accounts /\ reqs[r].email \in Emails /\ links' = links
    BY <1>0, <1>2 DEF Identify, ReqInv, tables
  <2>1. CASE links[reqs[r].account] # None
    <3>1. PICK id : id = links[reqs[r].account]
      OBVIOUS
    <3>2. Open(reqs[r].b, id, None) /\ Refuse(r) /\ id \in Ids
      BY <1>0, <1>2, <2>0, <2>1, <3>1 DEF Identify, KnownInv
    <3>3. PICK b : b = reqs[r].b
      OBVIOUS
    <3>4. /\ KnownInv' /\ vouched' \in [Browsers -> Emails \cup {None}]
          /\ DOMAIN jar' = Browsers /\ \A x \in Browsers : DOMAIN jar'[x] = DOMAIN NoCookies
      BY <1>0, <2>0, <3>2, <3>3, Opens
    <3>5. PICK u : reqs' = [reqs EXCEPT ![r] = u] /\ ReqInv(u)' /\ u.at = "done"
      BY <3>2, Refused
    <3> QED BY <1>0, <2>0, <3>4, <3>5, RequestGoes DEF SignTyped
  <2>2. CASE links[reqs[r].account] = None
    <3>1. PICK u : u = [reqs[r] EXCEPT !.at = "email"] /\ reqs' = [reqs EXCEPT ![r] = u]
      BY <1>2, <2>2 DEF Identify, Step
    <3>2. DOMAIN u = DOMAIN Idle /\ u.at = "email" /\ u.email \in Emails
      BY <1>0, <2>0, <3>1 DEF Idle
    <3>3. ReqInv(u)'
      BY <3>2 DEF ReqInv
    <3>4. UNCHANGED <<jar, vouched>>
      BY <1>2, <2>2 DEF Identify
    <3> QED BY <1>0, <2>0, <3>1, <3>2, <3>3, <3>4, RequestGoesOn DEF SignTyped
  <2> QED BY <2>1, <2>2
<1>3. ASSUME FindEmail(r) PROVE SignInv'
  <2>0. reqs[r].email \in Emails /\ UNCHANGED <<tables, jar, history>>
    BY <1>0, <1>3 DEF FindEmail, ReqInv
  <2>1. PICK u : /\ u = IF users[reqs[r].email] = None THEN [reqs[r] EXCEPT !.at = "insert"]
                        ELSE [reqs[r] EXCEPT !.at = "link", !.user = users[reqs[r].email].id]
                 /\ reqs' = [reqs EXCEPT ![r] = u]
    BY <1>3 DEF FindEmail, Step
  <2>2. CASE users[reqs[r].email] = None
    <3>1. DOMAIN u = DOMAIN Idle /\ u.at = "insert" /\ u.email = reqs[r].email
      BY <1>0, <2>1, <2>2 DEF Idle
    <3>2. u.email \notin seeded
      BY <2>2, <3>1 DEF SignInv, SeedInv
    <3>3. ReqInv(u)'
      BY <1>0, <2>0, <3>1, <3>2 DEF ReqInv
    <3> QED BY <1>0, <2>0, <2>1, <3>1, <3>3, RequestGoesOn DEF SignTyped, tables, history
  <2>3. CASE users[reqs[r].email] # None
    <3>1. /\ DOMAIN u = DOMAIN Idle /\ u.at = "link" /\ u.email = reqs[r].email
          /\ u.user = users[reqs[r].email].id
      BY <1>0, <2>1, <2>3 DEF Idle
    <3>2. ReqInv(u)'
      BY <1>0, <2>0, <2>3, <3>1 DEF ReqInv
    <3> QED BY <1>0, <2>0, <2>1, <3>1, <3>2, RequestGoesOn DEF SignTyped, tables, history
  <2> QED BY <2>2, <2>3
<1> QED BY <1>1, <1>2, <1>3

\* The first sign-in of an address writes the row, the seeded one only if it crossed.
LEMMA SignProvisions == ASSUME SignInv, NEW r \in Requests, Provision(r) PROVE SignInv'
<1>1. PICK e, q : q = reqs[r] /\ e = q.email
  OBVIOUS
<1>2. /\ Upsert(e, "viewer", FALSE) /\ q.at = "insert"
      /\ Step(r, [q EXCEPT !.at = "link", !.user = users'[e].id])
      /\ UNCHANGED <<links, keys, challenges, jar, flows, begun, history>>
  BY <1>1 DEF Provision
<1>3. e \in Emails /\ (e \in seeded => e \in crossed) /\ DOMAIN q = DOMAIN Idle
  BY <1>1, <1>2 DEF SignInv, ReqsInv, ReqInv
<1>4. /\ users' \in [Emails -> UserRows \cup {None}] /\ UsersGrow /\ users'[e] # None
      /\ \A x \in Emails : x # e => users'[x] = users[x]
  BY <1>2, <1>3, UpsertGrows DEF SignInv
<1>5. PICK u : u = [q EXCEPT !.at = "link", !.user = users'[e].id] /\ reqs' = [reqs EXCEPT ![r] = u]
  BY <1>2 DEF Step
<1>6. DOMAIN u = DOMAIN Idle /\ u.at = "link" /\ u.email = e /\ u.user = users'[e].id
  BY <1>1, <1>3, <1>5 DEF Idle
<1>7. ReqInv(u)'
  BY <1>3, <1>4, <1>6 DEF ReqInv
<1>8. BegunGrows
  <2> HIDE DEF Ceremonies
  <2> QED BY <1>2, LenProperties DEF BegunGrows, SignInv, SignTyped
<1>9. ASSUME NEW s \in Requests, s # r PROVE ReqInv(reqs[s])'
  <2>1. reqs'[s] = reqs[s]
    BY <1>5, <1>9 DEF SignInv, SignTyped
  <2>2. reqs[s].at = "insert" /\ reqs[s].email \in seeded' => reqs[s].email \in crossed'
    BY <1>2 DEF SignInv, ReqsInv, ReqInv, history
  <2>3. reqs[s].at = "verify" =>
          reqs[s].n \notin challenges' /\ \A x \in accepted' : x.n # reqs[s].n
    BY <1>2, VerifyApart DEF history
  <2> QED BY <1>4, <1>6, <1>8, <2>1, <2>2, <2>3, OthersKept
<1>10. ReqsInv' /\ DOMAIN reqs' = Requests
  BY <1>5, <1>6, <1>7, <1>9, ReqSteps
<1>11. SignTyped'
  BY <1>2, <1>4, <1>10 DEF SignInv, SignTyped, history
<1>12. KnownInv'
  BY <1>2, <1>4, KnownStays DEF SignInv, SignTyped, history
<1>13. AcceptInv' /\ SeedInv'
  BY <1>2, <1>3, <1>4 DEF SignInv, AcceptInv, SeedInv, CeremoniesWarrant, history
<1> QED BY <1>10, <1>11, <1>12, <1>13 DEF SignInv

\* The session is opened for the row that the address has.
LEMMA SignOpens == ASSUME SignInv, NEW r \in Requests, LinkAndOpen(r) PROVE SignInv'
<1>1. PICK b, id, e, a : b = reqs[r].b /\ id = reqs[r].user /\ e = reqs[r].email
                         /\ a = reqs[r].account
  OBVIOUS
<1>2. /\ links' = links \/ links' = [links EXCEPT ![a] = id]
      /\ Open(b, id, e) /\ Refuse(r)
      /\ UNCHANGED <<users, keys, challenges, flows, begun, accepted, seeded, crossed>>
  BY <1>1 DEF LinkAndOpen
<1>3. e \in Emails /\ users[e] # None /\ users[e].id = id /\ id \in Ids
  BY <1>1, RowIsKnown DEF LinkAndOpen, SignInv, ReqsInv, ReqInv
<1>4. jar' = [jar EXCEPT ![b].session = id] /\ vouched' = [vouched EXCEPT ![b] = e]
  BY <1>2 DEF Open
<1>5. /\ DOMAIN jar' = Browsers /\ \A x \in Browsers : DOMAIN jar'[x] = DOMAIN NoCookies
      /\ vouched' \in [Browsers -> Emails \cup {None}] /\ DOMAIN links' = Accounts
      /\ \A x \in Browsers : /\ x # b => jar'[x] = jar[x] /\ vouched'[x] = vouched[x]
                             /\ x = b => jar'[x].session = id /\ vouched'[x] = e
  BY <1>2, <1>3, <1>4 DEF SignInv, SignTyped, NoCookies
<1>6. Ids' = Ids /\ \A x \in Accounts : links'[x] # None => links'[x] \in Ids
  <2>1. Ids' = Ids
    BY <1>2 DEF Ids
  <2>2. \A x \in Accounts : links'[x] = links[x] \/ links'[x] = id
    BY <1>2 DEF SignInv, SignTyped
  <2> QED BY <1>3, <2>1, <2>2 DEF SignInv, KnownInv
<1>7. KnownInv'
  BY <1>2, <1>3, <1>5, <1>6 DEF SignInv, KnownInv
<1>8. PICK u : reqs' = [reqs EXCEPT ![r] = u] /\ ReqInv(u)' /\ u.at = "done"
  BY <1>2, Refused
<1> QED BY <1>2, <1>5, <1>7, <1>8, RequestGoes DEF SignInv, SignTyped

\* The row of a challenge is deleted, and one request goes on with it.
LEMMA SignTakes == ASSUME SignInv, NEW r \in Requests, TakeChallenge(r) PROVE SignInv'
<1>1. PICK q : q = reqs[r]
  OBVIOUS
<1>2. /\ challenges' = challenges \ {q.id} /\ q.at = "take"
      /\ UNCHANGED <<users, links, keys, jar, flows, begun, history>>
  BY <1>1 DEF TakeChallenge, TakeRow
<1>3. ReqInv(q) /\ DOMAIN q = DOMAIN Idle
  BY <1>1 DEF SignInv, ReqsInv, ReqInv
<1>4. CASE Refuse(r)
  <2>1. PICK u : reqs' = [reqs EXCEPT ![r] = u] /\ ReqInv(u)' /\ u.at = "done"
    BY <1>4, Refused
  <2> QED BY <1>2, <2>1, RequestGoesOn DEF SignInv, SignTyped, history
<1>5. CASE /\ q.id \in challenges /\ begun[q.id].purpose = q.kind /\ begun[q.id].user = q.user
           /\ q.id = q.n /\ Step(r, [q EXCEPT !.at = "verify"])
  <2>1. PICK u : u = [q EXCEPT !.at = "verify"] /\ reqs' = [reqs EXCEPT ![r] = u]
    BY <1>5 DEF Step
  <2>2. /\ DOMAIN u = DOMAIN Idle /\ u.at = "verify" /\ u.n = q.id /\ u.kind = q.kind
        /\ u.user = q.user /\ u.key = q.key
    BY <1>3, <1>5, <2>1 DEF Idle
  <2>3. Ids' = Ids
    BY <1>2 DEF Ids
  <2>4. u.n \in 1..Len(begun) /\ \A x \in accepted : x.n # u.n
    BY <1>5, <2>2 DEF SignInv, SignTyped, AcceptInv
  <2>5. ReqInv(u)'
    BY <1>2, <1>3, <1>5, <2>2, <2>3, <2>4 DEF ReqInv, history
  <2>6. UsersGrow /\ BegunGrows
    <3> HIDE DEF Ceremonies
    <3> QED BY <1>2, LenProperties DEF UsersGrow, BegunGrows, SignInv, SignTyped
  <2>7. ASSUME NEW s \in Requests, s # r PROVE ReqInv(reqs[s])'
    <3>1. reqs'[s] = reqs[s]
      BY <2>1, <2>7 DEF SignInv, SignTyped
    <3>2. reqs[s].at = "insert" /\ reqs[s].email \in seeded' => reqs[s].email \in crossed'
      BY <1>2 DEF SignInv, ReqsInv, ReqInv, history
    <3>3. reqs[s].at = "verify" =>
            reqs[s].n \notin challenges' /\ \A x \in accepted' : x.n # reqs[s].n
      BY <1>2, VerifyApart DEF history
    <3> QED BY <2>6, <3>1, <3>2, <3>3, OthersKept
  <2>8. \A s \in Requests : s # r /\ u.at = "verify" /\ reqs[s].at = "verify" => reqs[s].n # u.n
    BY <1>5, <2>2, VerifyApart
  <2>9. ReqsInv' /\ DOMAIN reqs' = Requests
    BY <2>1, <2>5, <2>7, <2>8, ReqSteps, ZenonT(30)
  <2>10. SignTyped' /\ KnownInv'
    BY <1>2, <2>3, <2>9 DEF SignInv, SignTyped, KnownInv, history
  <2>11. AcceptInv' /\ SeedInv'
    BY <1>2 DEF SignInv, AcceptInv, SeedInv, CeremoniesWarrant, history
  <2> QED BY <2>9, <2>10, <2>11 DEF SignInv
<1> QED BY <1>1, <1>4, <1>5 DEF TakeChallenge

\* A ceremony whose row is gone is accepted once at most, for its user and key.
LEMMA Accepts ==
  ASSUME SignInv, NEW r \in Requests, reqs[r].at = "verify", Refuse(r), NEW x,
         x.n = reqs[r].n, x.user = x.owner, reqs[r].kind # "login" => x.user = reqs[r].user,
         accepted' = accepted \/ accepted' = accepted \cup {x},
         UNCHANGED <<users, begun, challenges, seeded, crossed>>
  PROVE  ReqsInv' /\ DOMAIN reqs' = Requests /\ AcceptInv' /\ SeedInv'
<1>1. PICK u : reqs' = [reqs EXCEPT ![r] = u] /\ ReqInv(u)' /\ u.at = "done"
  BY Refused
<1>2. \A y \in accepted' : y \in accepted \/ (reqs[r].at = "verify" /\ y.n = reqs[r].n)
  OBVIOUS
<1>3. ReqsInv' /\ DOMAIN reqs' = Requests
  BY <1>1, <1>2, QuietStep
<1>4. /\ x.n \in 1..Len(begun) /\ x.n \notin challenges /\ \A y \in accepted : y.n # x.n
      /\ begun[x.n].purpose = reqs[r].kind /\ begun[x.n].user = reqs[r].user
  BY DEF SignInv, ReqsInv, ReqInv
<1>5. AcceptInv'
  BY <1>4 DEF SignInv, AcceptInv, CeremoniesWarrant
<1>6. SeedInv'
  BY DEF SignInv, SeedInv
<1> QED BY <1>3, <1>5, <1>6

LEMMA SignAccepts ==
  ASSUME SignInv, NEW r \in Requests, PasskeyLogin(r) \/ PasskeyRegister(r) \/ StepUp(r)
  PROVE  SignInv'
<1>1. /\ reqs[r].at = "verify" /\ Refuse(r) /\ reqs[r].key \in Keys
      /\ reqs[r].kind # "login" => reqs[r].user \in Ids
      /\ UNCHANGED <<users, links, challenges, flows, begun, seeded, crossed>>
      /\ SignTyped /\ KnownInv
  BY DEF PasskeyLogin, PasskeyRegister, StepUp, SignInv, ReqsInv, ReqInv
<1>2. PICK k, user : k = reqs[r].key /\ user = reqs[r].user
  OBVIOUS
<1>3. ASSUME PasskeyLogin(r) PROVE SignInv'
  <2>1. PICK id : id = keys[k]
    OBVIOUS
  <2>2. PICK x : x = [r |-> r, n |-> reqs[r].n, user |-> id, owner |-> id]
    OBVIOUS
  <2>3. reqs[r].kind = "login" /\ keys' = keys
    BY <1>3 DEF PasskeyLogin
  <2>4. x.n = reqs[r].n /\ x.user = x.owner
    BY <2>2
  <2>5. CASE id # None
    <3>1. Open(reqs[r].b, id, None) /\ accepted' = accepted \cup {x} /\ id \in Ids
      BY <1>1, <1>2, <1>3, <2>1, <2>2, <2>3, <2>5 DEF PasskeyLogin, Accept, KnownInv
    <3>2. PICK b : b = reqs[r].b
      OBVIOUS
    <3>3. /\ KnownInv' /\ vouched' \in [Browsers -> Emails \cup {None}]
          /\ DOMAIN jar' = Browsers /\ \A y \in Browsers : DOMAIN jar'[y] = DOMAIN NoCookies
      BY <1>1, <2>3, <3>1, <3>2, Opens
    <3>4. ReqsInv' /\ DOMAIN reqs' = Requests /\ AcceptInv' /\ SeedInv'
      BY <1>1, <2>3, <2>4, <3>1, Accepts
    <3>5. SignTyped'
      BY <1>1, <2>3, <3>3, <3>4 DEF SignTyped
    <3> QED BY <3>3, <3>4, <3>5 DEF SignInv
  <2>6. CASE id = None
    <3>1. UNCHANGED <<jar, vouched, accepted>>
      BY <1>2, <1>3, <2>1, <2>6 DEF PasskeyLogin
    <3>2. ReqsInv' /\ DOMAIN reqs' = Requests /\ AcceptInv' /\ SeedInv'
      BY <1>1, <2>3, <2>4, <3>1, Accepts
    <3>3. SignTyped' /\ KnownInv'
      BY <1>1, <2>3, <3>1, <3>2 DEF SignTyped, KnownInv, Ids
    <3> QED BY <3>2, <3>3 DEF SignInv
  <2> QED BY <2>5, <2>6
<1>4. PICK x : x = [r |-> r, n |-> reqs[r].n, user |-> user, owner |-> user]
  OBVIOUS
<1>5. x.n = reqs[r].n /\ x.user = x.owner /\ x.user = reqs[r].user
  BY <1>2, <1>4
<1>6. ASSUME PasskeyRegister(r) PROVE SignInv'
  <2>1. /\ UNCHANGED <<jar, vouched>> /\ reqs[r].kind = "enroll"
        /\ \/ keys' = [keys EXCEPT ![k] = user] /\ Accept(r, user)
           \/ UNCHANGED <<keys, accepted>>
    BY <1>2, <1>6 DEF PasskeyRegister
  <2>2. /\ DOMAIN keys' = Keys
        /\ keys' = keys \/ keys'[k] = user
        /\ \A y \in Keys : keys'[y] = keys[y] \/ keys'[y] = user
    BY <1>1, <1>2, <2>1 DEF SignTyped
  <2>3. accepted' = accepted \/ accepted' = accepted \cup {x}
    <3>1. CASE keys' = [keys EXCEPT ![k] = user] /\ Accept(r, user)
      <4>1. keys'[reqs[r].key] = user
        BY <1>1, <1>2, <3>1 DEF SignTyped
      <4> QED BY <1>4, <3>1, <4>1 DEF Accept
    <3> QED BY <2>1, <3>1
  <2>4. ReqsInv' /\ DOMAIN reqs' = Requests /\ AcceptInv' /\ SeedInv'
    BY <1>1, <1>5, <2>3, Accepts
  <2>5. SignTyped' /\ KnownInv'
    BY <1>1, <1>2, <2>1, <2>2, <2>4 DEF SignTyped, KnownInv, Ids
  <2> QED BY <2>4, <2>5 DEF SignInv
<1>7. ASSUME StepUp(r) PROVE SignInv'
  <2>1. UNCHANGED <<jar, vouched, keys>> /\ (accepted' = accepted \/ accepted' = accepted \cup {x})
    BY <1>2, <1>4, <1>7 DEF StepUp, KeyStands, Accept
  <2>2. ReqsInv' /\ DOMAIN reqs' = Requests /\ AcceptInv' /\ SeedInv'
    BY <1>1, <1>5, <2>1, Accepts
  <2>3. SignTyped' /\ KnownInv'
    BY <1>1, <2>1, <2>2 DEF SignTyped, KnownInv, Ids
  <2> QED BY <2>2, <2>3 DEF SignInv
<1> QED BY <1>3, <1>6, <1>7

LEMMA SignStep == ASSUME SignInv, Next PROVE SignInv'
<1>1. ASSUME NEW r \in Requests, Handler(r) PROVE SignInv'
  BY <1>1, SignExchanges, SignConnects, SignProvisions, SignOpens, SignTakes, SignAccepts
  DEF Handler
<1>2. ASSUME NEW n \in challenges, ChallengeExpires(n) PROVE SignInv'
  <2>1. /\ challenges' \subseteq challenges
        /\ UNCHANGED <<users, links, keys, jar, flows, reqs, begun, history>>
    BY <1>2 DEF ChallengeExpires
  <2>2. ReqsInv' /\ AcceptInv' /\ SeedInv'
    BY <2>1, QuietReqs DEF history
  <2>3. SignTyped' /\ KnownInv'
    BY <2>1 DEF SignInv, SignTyped, KnownInv, Ids, history
  <2> QED BY <2>2, <2>3 DEF SignInv
<1> QED BY <1>1, <1>2, SignStarts, SignBrowses, SignSeeds DEF Next

LEMMA SignStutter == ASSUME SignInv, UNCHANGED vars PROVE SignInv'
<1>1. ReqsInv' /\ AcceptInv' /\ SeedInv'
  BY QuietReqs DEF vars, tables, history
<1>2. SignTyped' /\ KnownInv'
  BY DEF vars, tables, history, SignInv, SignTyped, KnownInv, Ids
<1> QED BY <1>1, <1>2 DEF SignInv

\* LetInRight: a ceremony lets one request in, for the user and the key it was about; a
\* session is of the user vouched for; and the seeded owner stays the owner.
THEOREM WhoIsLetIn == MCSafe => []LetInRight
<1>1. MCInit => SignInv
  BY SignStart DEF MCInit
<1>2. SignInv /\ [MCNext]_allVars => SignInv'
  BY SignStep, SignStutter DEF MCNext, allVars
<1>3. SignInv => LetInRight
  BY DEF LetInRight, SignInv, AcceptInv, KnownInv, SeedInv, SessionsRight, OwnerKept
<1> QED BY <1>1, <1>2, <1>3, PTL DEF MCSafe
-----------------------------------------------------------------------------
(***************************************************************************)
(* Notifications.  While the targets of an event are told, those told and  *)
(* those left make up the ones it matches, and none is told twice.         *)
(***************************************************************************)
Fields == {"pc", "ev", "known", "todo", "rec", "enabled", "push"}
Unlisted == {"none", "enrich", "list"}
Had(f) == {sent[f][i] : i \in DOMAIN sent[f]}
Due(f) == {t \in fire[f].enabled : Ntf!Matches(t, fire[f].ev, fire[f].known)}

\* One event.
FireInv(f) ==
  /\ DOMAIN fire[f] = Fields
  /\ sent[f] \in Seq(Ntf!Names) /\ fire[f].enabled \subseteq DOMAIN Targets
  /\ fire[f].pc \in Unlisted => sent[f] = << >> /\ fire[f].enabled = {} /\ fire[f].todo = {}
  /\ fire[f].pc = "test" => fire[f].ev = None
  /\ fire[f].ev # None /\ fire[f].pc \in {"deliver", "push", "pushing", "over"} =>
       /\ \A i, j \in DOMAIN sent[f] : sent[f][i] = sent[f][j] => i = j
       /\ Had(f) \cup fire[f].todo = Due(f) /\ Had(f) \cap fire[f].todo = {}
       /\ fire[f].pc # "deliver" => fire[f].todo = {}

NotifyInv ==
  /\ DOMAIN fire = Ntf!Fires /\ DOMAIN sent = Ntf!Fires
  /\ \A f \in Ntf!Fires : FireInv(f)
  /\ DOMAIN trow = Ntf!Names /\ DOMAIN put = Ntf!Names /\ Ntf!SecretKept
  /\ DOMAIN cached = Ntf!Replicas /\ Ntf!KeysAgree

\* What the events are like does not change when targets, subscriptions and keys do.
LEMMA FiresFrame ==
  ASSUME NotifyInv, UNCHANGED <<fire, sent>>
  PROVE  DOMAIN fire' = Ntf!Fires /\ DOMAIN sent' = Ntf!Fires /\ \A f \in Ntf!Fires : FireInv(f)'
<1>1. \A f : Had(f)' = Had(f) /\ Due(f)' = Due(f)
  BY DEF Had, Due, Ntf!Matches, Ntf!WantsEvent
<1> QED BY <1>1 DEF NotifyInv, FireInv

\* Nor do the secrets and the keys when an event goes on.
LEMMA TablesFrame ==
  ASSUME NotifyInv, UNCHANGED <<trow, put, mixed, vapid, cached, strayed>>
  PROVE  /\ DOMAIN trow' = Ntf!Names /\ DOMAIN put' = Ntf!Names /\ Ntf!SecretKept'
         /\ DOMAIN cached' = Ntf!Replicas /\ Ntf!KeysAgree'
BY DEF NotifyInv, Ntf!SecretKept, Ntf!KeysAgree, Ntf!There

\* One event goes on; the others are as they were.
LEMMA OneFires ==
  ASSUME NotifyInv, NEW f \in Ntf!Fires, NEW u, FireInv(f)',
         fire' = [fire EXCEPT ![f] = u],
         DOMAIN sent' = Ntf!Fires, \A g \in Ntf!Fires \ {f} : sent'[g] = sent[g]
  PROVE  DOMAIN fire' = Ntf!Fires /\ DOMAIN sent' = Ntf!Fires /\ \A g \in Ntf!Fires : FireInv(g)'
<1>1. DOMAIN fire' = Ntf!Fires
  BY DEF NotifyInv
<1>2. ASSUME NEW g \in Ntf!Fires, g # f PROVE FireInv(g)'
  <2>1. fire'[g] = fire[g] /\ sent'[g] = sent[g]
    BY <1>2 DEF NotifyInv
  <2>2. Had(g)' = Had(g) /\ Due(g)' = Due(g)
    BY <2>1 DEF Had, Due, Ntf!Matches, Ntf!WantsEvent
  <2> QED BY <2>1, <2>2 DEF NotifyInv, FireInv
<1> QED BY <1>1, <1>2

\* An event goes on without telling anybody: its targets are not yet known, or do not
\* matter, or are as they were and all told if they have to be.
LEMMA QuietFire ==
  ASSUME NotifyInv, NEW f \in Ntf!Fires, NEW u, DOMAIN u = Fields,
         fire' = [fire EXCEPT ![f] = u],
         UNCHANGED <<sent, trow, put, mixed, vapid, cached, strayed>>,
         u.todo = fire[f].todo, u.enabled = fire[f].enabled,
         u.pc \in Unlisted => fire[f].pc \in Unlisted,
         u.pc = "test" => u.ev = None,
         \/ fire[f].pc \in Unlisted
         \/ u.ev = None
         \/ /\ u.ev = fire[f].ev /\ u.known = fire[f].known
            /\ \/ u.pc = fire[f].pc
               \/ fire[f].pc \in {"deliver", "push", "pushing"} /\ u.todo = {}
  PROVE  NotifyInv'
<1>1. fire'[f] = u /\ sent'[f] = sent[f]
  BY DEF NotifyInv
<1>2. Had(f)' = Had(f)
  BY <1>1 DEF Had
<1>3. FireInv(f)
  BY DEF NotifyInv
<1>4. DOMAIN u = Fields /\ sent'[f] \in Seq(Ntf!Names) /\ u.enabled \subseteq DOMAIN Targets
  BY <1>1, <1>3 DEF FireInv
<1>5. u.pc \in Unlisted => sent'[f] = << >> /\ u.enabled = {} /\ u.todo = {}
  BY <1>1, <1>3 DEF FireInv
<1>6. ASSUME u.ev # None, u.pc \in {"deliver", "push", "pushing", "over"}
      PROVE  /\ \A i, j \in DOMAIN sent'[f] : sent'[f][i] = sent'[f][j] => i = j
             /\ Had(f)' \cup u.todo = Due(f)' /\ Had(f)' \cap u.todo = {}
             /\ u.pc # "deliver" => u.todo = {}
  <2>1. CASE fire[f].pc \in Unlisted
    <3>1. sent[f] = << >> /\ u.enabled = {} /\ u.todo = {}
      BY <1>3, <2>1 DEF FireInv
    <3>2. Had(f)' = {} /\ Due(f)' = {}
      BY <1>1, <3>1 DEF Had, Due
    <3> QED BY <1>1, <3>1, <3>2
  <2>2. CASE fire[f].pc \notin Unlisted
    <3>1. /\ u.ev = fire[f].ev /\ u.known = fire[f].known
          /\ \/ u.pc = fire[f].pc
             \/ fire[f].pc \in {"deliver", "push", "pushing"} /\ u.todo = {}
      BY <1>6, <2>2
    <3>2. Due(f)' = Due(f)
      BY <1>1, <3>1 DEF Due, Ntf!Matches, Ntf!WantsEvent
    <3> QED BY <1>1, <1>2, <1>3, <1>6, <3>1, <3>2 DEF FireInv
  <2> QED BY <2>1, <2>2
<1>7. FireInv(f)'
  BY <1>1, <1>4, <1>5, <1>6 DEF FireInv
<1>8. DOMAIN fire' = Ntf!Fires /\ DOMAIN sent' = Ntf!Fires /\ \A g \in Ntf!Fires : FireInv(g)'
  BY <1>7, OneFires DEF NotifyInv
<1> QED BY <1>8, TablesFrame DEF NotifyInv

\* Targets are made, changed and deleted.
LEMMA TargetsChange ==
  ASSUME NotifyInv,
         \/ \E t \in Ntf!Names : Ntf!CreateTarget(t) \/ Ntf!DeleteTarget(t)
         \/ \E t \in Ntf!Names, in \in Patches : Ntf!PatchRead(t, in)
         \/ \E r \in Ntf!Turns : Ntf!PatchWrite(r)
  PROVE  NotifyInv'
<1>1. UNCHANGED <<fire, sent, subs, gone, vapid, ensure, cached, strayed>>
  BY DEF Ntf!CreateTarget, Ntf!DeleteTarget, Ntf!PatchRead, Ntf!PatchWrite, Ntf!pushVars
<1>2. DOMAIN trow = Ntf!Names /\ DOMAIN put = Ntf!Names /\ Ntf!SecretKept
  BY DEF NotifyInv
<1>3. ASSUME NEW t \in Ntf!Names, Ntf!CreateTarget(t)
      PROVE  DOMAIN trow' = Ntf!Names /\ DOMAIN put' = Ntf!Names /\ Ntf!SecretKept'
  BY <1>2, <1>3 DEF Ntf!CreateTarget, Ntf!SecretKept, Ntf!There, Ntf!Row
<1>4. ASSUME NEW t \in Ntf!Names, Ntf!DeleteTarget(t)
      PROVE  DOMAIN trow' = Ntf!Names /\ DOMAIN put' = Ntf!Names /\ Ntf!SecretKept'
  BY <1>2, <1>4 DEF Ntf!DeleteTarget, Ntf!SecretKept, Ntf!There, Ntf!Row
<1>5. ASSUME NEW t \in Ntf!Names, NEW in \in Patches, Ntf!PatchRead(t, in)
      PROVE  DOMAIN trow' = Ntf!Names /\ DOMAIN put' = Ntf!Names /\ Ntf!SecretKept'
  BY <1>2, <1>5 DEF Ntf!PatchRead, Ntf!SecretKept, Ntf!There
<1>6. ASSUME NEW r \in Ntf!Turns, Ntf!PatchWrite(r)
      PROVE  DOMAIN trow' = Ntf!Names /\ DOMAIN put' = Ntf!Names /\ Ntf!SecretKept'
  <2>1. PICK q, t : q = patch[r] /\ t = q.target
    OBVIOUS
  <2>2. CASE ~Ntf!There(t)
    BY <1>2, <1>6, <2>1, <2>2 DEF Ntf!PatchWrite, Ntf!SecretKept, Ntf!There
  <2>3. CASE Ntf!There(t) /\ trow[t] # q.copy
    <3>1. /\ \E x : trow' = [trow EXCEPT ![t] = x]
          /\ put' = put \/ put' = [put EXCEPT ![t] = r]
          /\ mixed' = mixed \cup {t}
      BY <1>6, <2>1, <2>3 DEF Ntf!PatchWrite
    <3> QED BY <1>2, <3>1 DEF Ntf!SecretKept, Ntf!There
  <2>4. CASE Ntf!There(t) /\ trow[t] = q.copy
    <3>1. PICK secret, x :
            /\ secret = Ntf!Merged(q.in, q.copy.secret, r)
            /\ x = [state |-> "there",
                    enabled |-> IF q.in.enabled = None THEN q.copy.enabled ELSE q.in.enabled.to,
                    secret |-> secret]
      OBVIOUS
    <3>2. /\ trow' = [trow EXCEPT ![t] = x] /\ mixed' = mixed
          /\ put' = IF q.in.secret \in {None, Ntf!Hidden} THEN put ELSE [put EXCEPT ![t] = r]
      BY <1>6, <2>1, <2>4, <3>1 DEF Ntf!PatchWrite
    <3>3. x.secret = IF q.in.secret \in {None, Ntf!Hidden} THEN trow[t].secret ELSE r
      BY <2>4, <3>1 DEF Ntf!Merged
    <3> QED BY <1>2, <2>4, <3>2, <3>3 DEF Ntf!SecretKept, Ntf!There
  <2> QED BY <2>2, <2>3, <2>4
<1>7. DOMAIN trow' = Ntf!Names /\ DOMAIN put' = Ntf!Names /\ Ntf!SecretKept'
  BY <1>3, <1>4, <1>5, <1>6, (\E t \in Ntf!Names : Ntf!CreateTarget(t) \/ Ntf!DeleteTarget(t))
     \/ (\E t \in Ntf!Names, in \in Patches : Ntf!PatchRead(t, in))
     \/ (\E r \in Ntf!Turns : Ntf!PatchWrite(r))
<1>8. DOMAIN cached' = Ntf!Replicas /\ Ntf!KeysAgree'
  BY <1>1 DEF NotifyInv, Ntf!KeysAgree
<1> QED BY <1>1, <1>7, <1>8, FiresFrame DEF NotifyInv

\* Keys are made and read back, and browsers subscribe.
LEMMA KeysChange ==
  ASSUME NotifyInv,
         \/ \E p \in Ntf!Replicas : Ntf!EnsureRead(p) \/ Ntf!EnsureInsert(p) \/ Ntf!EnsureReread(p)
         \/ \E e \in Endpoints, p \in Ntf!Replicas, asked \in Subscribing : Ntf!Subscribe(e, p, asked)
         \/ \E e \in Endpoints :
              Ntf!Unsubscribe(e) \/ \E asked \in Subscribing : Ntf!PatchSubscription(e, asked)
  PROVE  NotifyInv'
<1>1. UNCHANGED <<fire, sent, trow, put, mixed>>
  BY DEF Ntf!EnsureRead, Ntf!EnsureInsert, Ntf!EnsureReread, Ntf!Subscribe, Ntf!Unsubscribe,
         Ntf!PatchSubscription, Ntf!targetVars
<1>2. DOMAIN cached = Ntf!Replicas /\ Ntf!KeysAgree
  BY DEF NotifyInv
<1>3. ASSUME NEW p \in Ntf!Replicas, Ntf!EnsureRead(p)
      PROVE  DOMAIN cached' = Ntf!Replicas /\ Ntf!KeysAgree'
  BY <1>2, <1>3 DEF Ntf!EnsureRead, Ntf!KeysAgree
<1>4. ASSUME NEW p \in Ntf!Replicas, Ntf!EnsureInsert(p)
      PROVE  DOMAIN cached' = Ntf!Replicas /\ Ntf!KeysAgree'
  BY <1>2, <1>4 DEF Ntf!EnsureInsert, Ntf!KeysAgree
<1>5. ASSUME NEW p \in Ntf!Replicas, Ntf!EnsureReread(p)
      PROVE  DOMAIN cached' = Ntf!Replicas /\ Ntf!KeysAgree'
  BY <1>2, <1>5 DEF Ntf!EnsureReread, Ntf!KeysAgree
<1>6. ASSUME UNCHANGED <<vapid, cached, strayed>>
      PROVE  DOMAIN cached' = Ntf!Replicas /\ Ntf!KeysAgree'
  BY <1>2, <1>6 DEF Ntf!KeysAgree
<1>7. DOMAIN cached' = Ntf!Replicas /\ Ntf!KeysAgree'
  BY <1>3, <1>4, <1>5, <1>6 DEF Ntf!Subscribe, Ntf!Unsubscribe, Ntf!PatchSubscription
<1>8. DOMAIN trow' = Ntf!Names /\ DOMAIN put' = Ntf!Names /\ Ntf!SecretKept'
  BY <1>1 DEF NotifyInv, Ntf!SecretKept, Ntf!There
<1> QED BY <1>1, <1>7, <1>8, FiresFrame DEF NotifyInv

\* An event begins.
LEMMA EventBegins ==
  ASSUME NotifyInv, NEW f \in Ntf!Fires,
         \/ \E ev \in Events : Ntf!FireFailed(f, ev) \/ Ntf!FirePush(f, ev)
         \/ \E t \in Ntf!Names : Ntf!FireTest(f, t)
  PROVE  NotifyInv'
<1>1. FireInv(f) /\ UNCHANGED <<sent, trow, put, mixed, vapid, cached, strayed>>
  BY DEF NotifyInv, Ntf!FireFailed, Ntf!FirePush, Ntf!FireTest, Ntf!targetVars, Ntf!pushVars
<1>2. fire[f].pc = "none"
  BY DEF Ntf!FireFailed, Ntf!FirePush, Ntf!FireTest, Ntf!Begin, Ntf!At
<1>3. fire[f].todo = {} /\ fire[f].enabled = {} /\ fire[f].pc \in Unlisted
  BY <1>1, <1>2 DEF FireInv, Unlisted
<1>4. ASSUME NEW ev \in Events, NEW pc \in {"enrich", "push"}, fire' = [fire EXCEPT ![f] = Ntf!NewFire(pc, ev)]
      PROVE  NotifyInv'
  <2>1. PICK u : u = Ntf!NewFire(pc, ev)
    OBVIOUS
  <2>2. DOMAIN u = Fields /\ u.todo = {} /\ u.enabled = {} /\ u.pc # "test"
    BY <2>1 DEF Ntf!NewFire, Fields
  <2> QED BY <1>1, <1>3, <1>4, <2>1, <2>2, QuietFire
<1>5. ASSUME NEW t \in Ntf!Names, Ntf!FireTest(f, t) PROVE NotifyInv'
  <2>1. PICK u : u = [Ntf!NewFire("test", None) EXCEPT !.todo = {t}]
    OBVIOUS
  <2>2. DOMAIN u = Fields /\ u.enabled = {} /\ u.pc = "test" /\ u.ev = None
    BY <2>1 DEF Ntf!NewFire, Fields
  <2>3. fire' = [fire EXCEPT ![f] = u] /\ fire'[f] = u /\ sent'[f] = sent[f]
    BY <1>1, <1>5, <2>1 DEF Ntf!FireTest, Ntf!Begin, NotifyInv
  <2>4. FireInv(f)'
    BY <1>1, <2>2, <2>3 DEF FireInv, Unlisted
  <2>5. DOMAIN fire' = Ntf!Fires /\ DOMAIN sent' = Ntf!Fires /\ \A g \in Ntf!Fires : FireInv(g)'
    BY <1>1, <2>3, <2>4, OneFires DEF NotifyInv
  <2> QED BY <1>1, <2>5, TablesFrame DEF NotifyInv
<1> QED BY <1>4, <1>5 DEF Ntf!FireFailed, Ntf!FirePush, Ntf!Begin

\* The targets are listed.
LEMMA EventLists ==
  ASSUME NotifyInv, NEW f \in Ntf!Fires, Ntf!Enrich(f) \/ Ntf!ListTargets(f)
  PROVE  NotifyInv'
<1>1. FireInv(f) /\ UNCHANGED <<sent, trow, put, mixed, vapid, cached, strayed>>
  BY DEF NotifyInv, Ntf!Enrich, Ntf!ListTargets, Ntf!targetVars, Ntf!pushVars
<1>2. fire[f].pc \in Unlisted /\ DOMAIN fire[f] = Fields
  BY <1>1 DEF Ntf!Enrich, Ntf!ListTargets, Ntf!At, FireInv, Unlisted
<1>3. ASSUME NEW u, DOMAIN u = Fields, u.todo = fire[f].todo, u.enabled = fire[f].enabled,
             fire' = [fire EXCEPT ![f] = u], u.pc # "test"
      PROVE  NotifyInv'
  BY <1>1, <1>2, <1>3, QuietFire
<1>4. CASE Ntf!Enrich(f)
  <2>1. PICK u : /\ fire' = [fire EXCEPT ![f] = u]
                 /\ \/ u = [fire[f] EXCEPT !.pc = "list"]
                    \/ u = [fire[f] EXCEPT !.pc = "list", !.known = FALSE]
    BY <1>4 DEF Ntf!Enrich, Ntf!Go
  <2>2. DOMAIN u = Fields /\ u.todo = fire[f].todo /\ u.enabled = fire[f].enabled /\ u.pc # "test"
    BY <1>2, <2>1 DEF Fields
  <2> QED BY <1>3, <2>1, <2>2
<1>5. CASE Ntf!ListTargets(f)
  <2>1. PICK on : on = {t \in Ntf!Names : Ntf!There(t) /\ trow[t].enabled}
    OBVIOUS
  <2>2. PICK u : u = [fire[f] EXCEPT !.pc = "deliver", !.enabled = on,
                        !.todo = {t \in on : Ntf!Matches(t, fire[f].ev, fire[f].known)}]
    OBVIOUS
  <2>3. fire' = [fire EXCEPT ![f] = u] \/ fire' = [fire EXCEPT ![f] = [fire[f] EXCEPT !.pc = "over"]]
    BY <1>5, <2>1, <2>2 DEF Ntf!ListTargets, Ntf!Go
  <2>4. CASE fire' = [fire EXCEPT ![f] = u]
    <3>1. fire'[f] = u /\ sent'[f] = sent[f] /\ sent[f] = << >>
      BY <1>1, <1>2, <2>4 DEF NotifyInv, FireInv
    <3>2. /\ DOMAIN u = Fields /\ u.pc = "deliver" /\ u.enabled = on /\ u.ev = fire[f].ev
          /\ u.known = fire[f].known
          /\ u.todo = {t \in on : Ntf!Matches(t, u.ev, u.known)}
      BY <1>2, <2>2 DEF Fields
    <3>3. Had(f)' = {} /\ Due(f)' = u.todo /\ on \subseteq DOMAIN Targets
      BY <2>1, <3>1, <3>2 DEF Had, Due, Ntf!Matches, Ntf!WantsEvent, Ntf!Names
    <3>4. FireInv(f)'
      BY <1>1, <3>1, <3>2, <3>3 DEF FireInv, Unlisted
    <3>5. DOMAIN fire' = Ntf!Fires /\ DOMAIN sent' = Ntf!Fires /\ \A g \in Ntf!Fires : FireInv(g)'
      BY <1>1, <2>4, <3>4, OneFires DEF NotifyInv
    <3> QED BY <1>1, <3>5, TablesFrame DEF NotifyInv
  <2>5. CASE fire' = [fire EXCEPT ![f] = [fire[f] EXCEPT !.pc = "over"]]
    <3>1. PICK v : v = [fire[f] EXCEPT !.pc = "over"]
      OBVIOUS
    <3>2. DOMAIN v = Fields /\ v.todo = fire[f].todo /\ v.enabled = fire[f].enabled /\ v.pc # "test"
      BY <1>2, <3>1 DEF Fields
    <3> QED BY <1>3, <2>5, <3>1, <3>2
  <2> QED BY <2>3, <2>4, <2>5
<1> QED BY <1>4, <1>5

\* A target is told.
LEMMA EventTells ==
  ASSUME NotifyInv, NEW f \in Ntf!Fires, NEW t \in Ntf!Names, Ntf!Deliver(f, t)
  PROVE  NotifyInv'
<1>1. FireInv(f) /\ UNCHANGED <<trow, put, mixed, vapid, cached, strayed>>
  BY DEF NotifyInv, Ntf!Deliver, Ntf!targetVars, Ntf!pushVars
<1>2. PICK u : u = [fire[f] EXCEPT !.todo = @ \ {t}, !.rec = @ \cup {t}]
  OBVIOUS
<1>3. /\ fire' = [fire EXCEPT ![f] = u] /\ fire'[f] = u
      /\ sent' = [sent EXCEPT ![f] = Append(sent[f], t)] /\ sent'[f] = Append(sent[f], t)
      /\ DOMAIN sent' = Ntf!Fires
      /\ fire[f].pc \in {"deliver", "test"} /\ t \in fire[f].todo
  BY <1>2 DEF Ntf!Deliver, NotifyInv
<1>4. /\ DOMAIN u = Fields /\ u.pc = fire[f].pc /\ u.ev = fire[f].ev /\ u.known = fire[f].known
      /\ u.enabled = fire[f].enabled /\ u.todo = fire[f].todo \ {t}
  BY <1>1, <1>2 DEF FireInv, Fields
<1>5. /\ sent[f] \in Seq(Ntf!Names) /\ sent'[f] \in Seq(Ntf!Names)
      /\ DOMAIN sent'[f] = 1..(Len(sent[f]) + 1) /\ DOMAIN sent[f] = 1..Len(sent[f])
      /\ Len(sent[f]) \in Nat
      /\ sent'[f][Len(sent[f]) + 1] = t
      /\ \A i \in 1..Len(sent[f]) : sent'[f][i] = sent[f][i]
  BY <1>1, <1>3 DEF FireInv
<1>6. Had(f)' = Had(f) \cup {t}
  BY <1>5 DEF Had
<1>7. Due(f)' = Due(f)
  BY <1>3, <1>4 DEF Due, Ntf!Matches, Ntf!WantsEvent
<1>8. ASSUME u.ev # None, u.pc = "deliver"
      PROVE  /\ \A i, j \in DOMAIN sent'[f] : sent'[f][i] = sent'[f][j] => i = j
             /\ Had(f)' \cup u.todo = Due(f)' /\ Had(f)' \cap u.todo = {}
  <2>1. /\ \A i, j \in DOMAIN sent[f] : sent[f][i] = sent[f][j] => i = j
        /\ Had(f) \cup fire[f].todo = Due(f) /\ Had(f) \cap fire[f].todo = {}
    BY <1>1, <1>4, <1>8 DEF FireInv
  <2>2. \A i \in 1..Len(sent[f]) : sent[f][i] # t
    BY <1>3, <1>5, <2>1 DEF Had
  <2>3. \A i, j \in DOMAIN sent'[f] : sent'[f][i] = sent'[f][j] => i = j
    BY <1>5, <2>1, <2>2
  <2> QED BY <1>3, <1>4, <1>6, <1>7, <2>1, <2>3
<1>9. FireInv(f)'
  BY <1>1, <1>3, <1>4, <1>5, <1>8 DEF FireInv, Unlisted
<1>10. DOMAIN fire' = Ntf!Fires /\ DOMAIN sent' = Ntf!Fires /\ \A g \in Ntf!Fires : FireInv(g)'
  BY <1>3, <1>9, OneFires
<1> QED BY <1>1, <1>10, TablesFrame DEF NotifyInv

\* Those that are told are waited for, and the browsers follow.
LEMMA EventGoesOn ==
  ASSUME NotifyInv, NEW f \in Ntf!Fires,
         \/ Ntf!Waited(f) \/ Ntf!ListPush(f) \/ Ntf!PushEnds(f)
         \/ \E t \in Ntf!Names : Ntf!Record(f, t)
         \/ \E e \in Endpoints : Ntf!DeliverPush(f, e)
  PROVE  NotifyInv'
<1>1. FireInv(f) /\ UNCHANGED <<sent, trow, put, mixed, vapid, cached, strayed>>
  BY DEF NotifyInv, Ntf!Waited, Ntf!ListPush, Ntf!PushEnds, Ntf!Record, Ntf!DeliverPush,
         Ntf!targetVars, Ntf!pushVars
<1>2. DOMAIN fire[f] = Fields /\ (fire[f].pc = "test" => fire[f].ev = None)
      /\ (fire[f].pc \in {"push", "pushing"} /\ fire[f].ev # None => fire[f].todo = {})
  BY <1>1 DEF FireInv
<1>3. PICK u :
        /\ fire' = [fire EXCEPT ![f] = u] /\ DOMAIN u = Fields
        /\ u.todo = fire[f].todo /\ u.enabled = fire[f].enabled
        /\ u.ev = fire[f].ev /\ u.known = fire[f].known
        /\ \/ u.pc = fire[f].pc
           \/ fire[f].pc = "test" /\ u.pc = "over"
           \/ fire[f].pc = "deliver" /\ u.todo = {} /\ u.pc = "push"
           \/ fire[f].pc \in {"push", "pushing"} /\ u.pc \in {"pushing", "over"}
  <2>1. ASSUME NEW pc, Ntf!Go(f, pc)
        PROVE  \E u : /\ fire' = [fire EXCEPT ![f] = u] /\ DOMAIN u = Fields
                      /\ u.todo = fire[f].todo /\ u.enabled = fire[f].enabled
                      /\ u.ev = fire[f].ev /\ u.known = fire[f].known /\ u.pc = pc
    <3>1. PICK u : u = [fire[f] EXCEPT !.pc = pc]
      OBVIOUS
    <3>2. /\ DOMAIN u = Fields /\ u.todo = fire[f].todo /\ u.enabled = fire[f].enabled
          /\ u.ev = fire[f].ev /\ u.known = fire[f].known /\ u.pc = pc
      BY <1>2, <3>1 DEF Fields
    <3> QED BY <2>1, <3>1, <3>2 DEF Ntf!Go
  <2>2. CASE Ntf!Waited(f)
    BY <2>1, <2>2 DEF Ntf!Waited, Ntf!At
  <2>3. CASE Ntf!PushEnds(f)
    BY <2>1, <2>3 DEF Ntf!PushEnds, Ntf!At
  <2>4. CASE Ntf!ListPush(f)
    <3>1. PICK b, u : u = [fire[f] EXCEPT !.pc = "pushing", !.push = b] /\ fire[f].pc = "push"
                      /\ (Ntf!Go(f, "over") \/ fire' = [fire EXCEPT ![f] = u])
      BY <2>4 DEF Ntf!ListPush, Ntf!At
    <3>2. /\ DOMAIN u = Fields /\ u.todo = fire[f].todo /\ u.enabled = fire[f].enabled
          /\ u.ev = fire[f].ev /\ u.known = fire[f].known /\ u.pc = "pushing"
      BY <1>2, <3>1 DEF Fields
    <3>3. CASE Ntf!Go(f, "over")
      BY <2>1, <3>1, <3>3
    <3>4. CASE fire' = [fire EXCEPT ![f] = u]
      BY <3>1, <3>2, <3>4
    <3> QED BY <3>1, <3>3, <3>4
  <2>5. ASSUME NEW t \in Ntf!Names, Ntf!Record(f, t)
        PROVE  \E u : /\ fire' = [fire EXCEPT ![f] = u] /\ DOMAIN u = Fields
                      /\ u.todo = fire[f].todo /\ u.enabled = fire[f].enabled
                      /\ u.ev = fire[f].ev /\ u.known = fire[f].known /\ u.pc = fire[f].pc
    <3>1. PICK u : u = [fire[f] EXCEPT !.rec = @ \ {t}]
      OBVIOUS
    <3>2. /\ DOMAIN u = Fields /\ u.todo = fire[f].todo /\ u.enabled = fire[f].enabled
          /\ u.ev = fire[f].ev /\ u.known = fire[f].known /\ u.pc = fire[f].pc
      BY <1>2, <3>1 DEF Fields
    <3> QED BY <2>5, <3>1, <3>2 DEF Ntf!Record
  <2>6. ASSUME NEW e \in Endpoints, Ntf!DeliverPush(f, e)
        PROVE  \E u : /\ fire' = [fire EXCEPT ![f] = u] /\ DOMAIN u = Fields
                      /\ u.todo = fire[f].todo /\ u.enabled = fire[f].enabled
                      /\ u.ev = fire[f].ev /\ u.known = fire[f].known /\ u.pc = fire[f].pc
    <3>1. PICK u : u = [fire[f] EXCEPT !.push = @ \ {e}]
      OBVIOUS
    <3>2. /\ DOMAIN u = Fields /\ u.todo = fire[f].todo /\ u.enabled = fire[f].enabled
          /\ u.ev = fire[f].ev /\ u.known = fire[f].known /\ u.pc = fire[f].pc
      BY <1>2, <3>1 DEF Fields
    <3> QED BY <2>6, <3>1, <3>2 DEF Ntf!DeliverPush
  <2> QED BY <2>2, <2>3, <2>4, <2>5, <2>6
<1>4. u.pc \in Unlisted => fire[f].pc \in Unlisted
  BY <1>3 DEF Unlisted
<1>5. \/ u.ev = None
      \/ u.pc = fire[f].pc
      \/ fire[f].pc \in {"deliver", "push", "pushing"} /\ u.todo = {}
  BY <1>2, <1>3
<1>6. u.pc = "test" => u.ev = None
  BY <1>2, <1>3
<1> QED BY <1>1, <1>3, <1>4, <1>5, <1>6, QuietFire

\* A replica starts again: its key is read anew, and its events are lost.
LEMMA ReplicaRestarts ==
  ASSUME NotifyInv, NEW p \in Ntf!Replicas, Ntf!Restart(p)
  PROVE  NotifyInv'
<1>1. UNCHANGED <<sent, trow, put, mixed, vapid>>
  BY DEF Ntf!Restart, Ntf!targetVars
<1>2. DOMAIN cached' = Ntf!Replicas /\ Ntf!KeysAgree'
  BY DEF Ntf!Restart, NotifyInv, Ntf!KeysAgree
<1>3. DOMAIN trow' = Ntf!Names /\ DOMAIN put' = Ntf!Names /\ Ntf!SecretKept'
  BY <1>1 DEF NotifyInv, Ntf!SecretKept, Ntf!There
<1>4. PICK u : u = [Ntf!NoFire EXCEPT !.pc = "lost"]
  OBVIOUS
<1>5. DOMAIN u = Fields /\ u.pc = "lost" /\ u.enabled = {}
  BY <1>4 DEF Ntf!NoFire, Ntf!NewFire, Fields
<1>6. DOMAIN fire' = Ntf!Fires /\ \A f \in Ntf!Fires : fire'[f] = fire[f] \/ fire'[f] = u
  BY <1>4 DEF Ntf!Restart, NotifyInv
<1>7. ASSUME NEW f \in Ntf!Fires PROVE FireInv(f)'
  <2>1. FireInv(f) /\ sent'[f] = sent[f]
    BY <1>1 DEF NotifyInv
  <2>2. CASE fire'[f] = fire[f]
    <3>1. Had(f)' = Had(f) /\ Due(f)' = Due(f)
      BY <2>1, <2>2 DEF Had, Due, Ntf!Matches, Ntf!WantsEvent
    <3> QED BY <2>1, <2>2, <3>1 DEF FireInv
  <2>3. CASE fire'[f] = u
    BY <1>5, <2>1, <2>3 DEF FireInv, Unlisted
  <2> QED BY <1>6, <2>2, <2>3
<1> QED BY <1>1, <1>2, <1>3, <1>6, <1>7 DEF NotifyInv

LEMMA NotifyStart == Ntf!Init => NotifyInv
<1> SUFFICES ASSUME Ntf!Init PROVE NotifyInv
  OBVIOUS
<1>1. DOMAIN fire = Ntf!Fires /\ DOMAIN sent = Ntf!Fires
  BY DEF Ntf!Init
<1>2. ASSUME NEW f \in Ntf!Fires PROVE FireInv(f)
  <2>1. /\ DOMAIN fire[f] = Fields /\ fire[f].pc = "none" /\ fire[f].enabled = {}
        /\ fire[f].todo = {} /\ sent[f] = << >>
    BY DEF Ntf!Init, Ntf!NoFire, Ntf!NewFire, Fields
  <2> QED BY <2>1 DEF FireInv, Unlisted
<1>3. DOMAIN trow = Ntf!Names /\ DOMAIN put = Ntf!Names /\ Ntf!SecretKept
  BY DEF Ntf!Init, Ntf!SecretKept, Ntf!There, Ntf!Row
<1>4. DOMAIN cached = Ntf!Replicas /\ Ntf!KeysAgree
  BY DEF Ntf!Init, Ntf!KeysAgree
<1> QED BY <1>1, <1>2, <1>3, <1>4 DEF NotifyInv

LEMMA NotifyStep == ASSUME NotifyInv, Ntf!Next PROVE NotifyInv'
BY TargetsChange, KeysChange, EventBegins, EventLists, EventTells, EventGoesOn, ReplicaRestarts
DEF Ntf!Next, Ntf!System

LEMMA NotifyStutter == ASSUME NotifyInv, UNCHANGED notifyVars PROVE NotifyInv'
BY FiresFrame, TablesFrame DEF NotifyInv, notifyVars

\* A sequence without repetition is as long as its range is large.
LEMMA LengthOfDistinct ==
  ASSUME NEW S, NEW s \in Seq(S), \A i, j \in DOMAIN s : s[i] = s[j] => i = j
  PROVE  Len(s) = Cardinality({s[i] : i \in DOMAIN s})
<1> DEFINE D == 1..Len(s)
           R == {s[i] : i \in D}
<1>1. DOMAIN s = D /\ Len(s) \in Nat
  OBVIOUS
<1>2. [i \in D |-> s[i]] \in Bijection(D, R)
  BY <1>1 DEF Bijection, Injection, Surjection, IsInjective
<1>3. IsFiniteSet(D) /\ Cardinality(D) = Len(s)
  BY <1>1, FS_Interval
<1>4. Cardinality(R) = Cardinality(D)
  BY <1>2, <1>3, FS_Bijection DEF ExistsBijection
<1> QED BY <1>1, <1>3, <1>4

LEMMA ToldThen == ASSUME NotifyInv PROVE Ntf!Told
<1>0. \A S : Ntf!Cardinality(S) = Cardinality(S)
  BY DEF Ntf!Cardinality, Cardinality
<1> SUFFICES ASSUME NEW f \in Ntf!Fires, fire[f].pc \in {"pushing", "over"}, fire[f].ev # None
             PROVE  LET asked == {t \in fire[f].enabled : Ntf!Asked(t, fire[f].ev)}
                        had   == {sent[f][i] : i \in DOMAIN sent[f]} IN
                    /\ Len(sent[f]) = Cardinality(had)
                    /\ had \subseteq asked
                    /\ \A t \in asked \ had : ~fire[f].known /\ Targets[t].scope = "server"
  BY <1>0 DEF Ntf!Told
<1>1. /\ FireInv(f) /\ Had(f) = Due(f) /\ sent[f] \in Seq(Ntf!Names)
      /\ \A i, j \in DOMAIN sent[f] : sent[f][i] = sent[f][j] => i = j
      /\ fire[f].enabled \subseteq DOMAIN Targets
  BY DEF NotifyInv, FireInv
<1>2. Len(sent[f]) = Cardinality(Had(f))
  BY <1>1, LengthOfDistinct DEF Had
<1>3. ASSUME NEW t \in fire[f].enabled
      PROVE  /\ Ntf!Matches(t, fire[f].ev, fire[f].known) => Ntf!Asked(t, fire[f].ev)
             /\ Ntf!Asked(t, fire[f].ev) /\ ~Ntf!Matches(t, fire[f].ev, fire[f].known) =>
                  ~fire[f].known /\ Targets[t].scope = "server"
  <2>1. Targets[t].scope \in {"all", "server", "other"}
    BY <1>1, TargetsAssumption
  <2> QED BY <2>1 DEF Ntf!Matches, Ntf!WantsEvent, Ntf!Asked
<1> QED BY <1>1, <1>2, <1>3 DEF Due, Had

\* NotifyRight: those who asked for an event, and nobody else, are told once, before
\* the browsers are; a target keeps the secret that was submitted last; and what is
\* pushed is signed with the key of the table.
THEOREM ToldOnce == MCSafe => []NotifyRight
<1>1. MCInit => NotifyInv
  BY NotifyStart DEF MCInit
<1>2. NotifyInv /\ [MCNext]_allVars => NotifyInv'
  BY NotifyStep, NotifyStutter DEF MCNext, allVars
<1>3. NotifyInv => NotifyRight
  BY ToldThen DEF NotifyRight, NotifyInv
<1> QED BY <1>1, <1>2, <1>3, PTL DEF MCSafe
=============================================================================
