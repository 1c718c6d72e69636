------------------------------- MODULE Sessions -------------------------------
(***************************************************************************)
(* The sessions of one account, a member's or an administrator's: signing  *)
(* in, exchanging a refresh token, and what revokes every session at once  *)
(* (signing out everywhere, a new password, a new role).  A request is     *)
(* split wherever it waits for the database or for bcrypt.                 *)
(***************************************************************************)
EXTENDS Naturals, Sequences

CONSTANTS SignIns,        \* sign-ins, each with a session of its own
          Refreshes,      \* refresh requests under way at a time
          MaxSessions,    \* 10 in the code
          MaxRevocations, MaxSeconds, MaxExchanges

SessionsAssumption ==
    /\ SignIns # {} /\ Refreshes # {}
    /\ MaxSessions \in Nat \ {0}
    /\ MaxRevocations \in Nat /\ MaxSeconds \in Nat /\ MaxExchanges \in Nat

VARIABLES second,       \* the clock that stamps tokens
          account,      \* tokenVersion, refreshSessions, isActive / isBanned, reset code
          signIn,       \* where each sign-in is
          refresh,      \* where each refresh request is
          change,       \* a change or reset of the password under way
          issued,       \* token pairs that clients received
          exchanged,    \* refresh tokens exchanged for a new pair, in order
          revocations,  \* how often all sessions were revoked
          late          \* a sign-in was under way when sessions were revoked

vars == <<second, account, signIn, refresh, change, issued, exchanged, revocations, late>>
-----------------------------------------------------------------------------
\* Tokens signed in one second for one session and version are the same string.
\* since: the revocations before the sign-in they go back to.
Token == [session : SignIns, version : Nat, second : Nat, since : Nat]
NoToken == [session |-> "none", version |-> 0, second |-> 0, since |-> 0]

TypeOK ==
    /\ second \in 0..MaxSeconds
    /\ account \in [version : Nat, sessions : Seq(Token), usable : BOOLEAN, code : BOOLEAN]
    /\ signIn \in [SignIns -> [stage : {"new", "matched", "version", "in", "failed"},
                               version : Nat, since : Nat]]
    /\ refresh \in [Refreshes -> [stage : {"idle", "rotate", "pull"},
                                  token : Token \cup {NoToken}]]
    /\ change \in {"idle", "change", "reset"}
    /\ issued \subseteq Token
    /\ exchanged \in Seq(Token)
    /\ revocations \in 0..MaxRevocations
    /\ late \in BOOLEAN

Init ==
    /\ second = 0
    /\ account = [version |-> 0, sessions |-> <<>>, usable |-> TRUE, code |-> FALSE]
    /\ signIn = [s \in SignIns |-> [stage |-> "new", version |-> 0, since |-> 0]]
    /\ refresh = [r \in Refreshes |-> [stage |-> "idle", token |-> NoToken]]
    /\ change = "idle"
    /\ issued = {} /\ exchanged = <<>>
    /\ revocations = 0 /\ late = FALSE

Holds(token) == \E i \in DOMAIN account.sessions : account.sessions[i] = token

\* jwt.strategy and validateToken: any request with an access token of the pair.
Accepted(token) == account.usable /\ token.version = account.version
-----------------------------------------------------------------------------
(* Signing in. *)

\* login: the account is read and bcrypt finds that the password matches.
MatchPassword(s) ==
    /\ signIn[s].stage = "new"
    /\ signIn' = [signIn EXCEPT ![s] = [stage |-> "matched", version |-> 0,
                                        since |-> revocations]]
    /\ UNCHANGED <<second, account, refresh, change, issued, exchanged, revocations, late>>

\* issueTokenPair reads the version again.
ReadVersion(s) ==
    /\ signIn[s].stage = "matched"
    /\ signIn' = [signIn EXCEPT ![s].stage = "version", ![s].version = account.version]
    /\ UNCHANGED <<second, account, refresh, change, issued, exchanged, revocations, late>>

\* $slice -10 keeps the newest sessions.
Newest(sessions) ==
    IF Len(sessions) <= MaxSessions THEN sessions
    ELSE SubSeq(sessions, Len(sessions) - MaxSessions + 1, Len(sessions))

\* The tokens are signed, the version is written back and the session pushed.
PushSession(s) ==
    LET token == [session |-> s, version |-> signIn[s].version, second |-> second,
                  since |-> signIn[s].since]
    IN /\ signIn[s].stage = "version"
       /\ signIn' = [signIn EXCEPT ![s].stage = "in"]
       /\ account' = [account EXCEPT !.version = token.version,
                                     !.sessions = Newest(Append(@, token))]
       /\ issued' = issued \cup {token}
       /\ late' = (late \/ token.since < revocations)
       /\ UNCHANGED <<second, refresh, change, exchanged, revocations>>

\* The password does not match, or the database fails, before anything is written.
SignInFails(s) ==
    /\ signIn[s].stage \in {"matched", "version"}
    /\ signIn' = [signIn EXCEPT ![s].stage = "failed"]
    /\ UNCHANGED <<second, account, refresh, change, issued, exchanged, revocations, late>>
-----------------------------------------------------------------------------
(* Exchanging a refresh token. *)

\* A client presents a refresh token it received; a revoked session or an
\* account that is banned or inactive is refused.
ReadAccount(r) ==
    /\ refresh[r].stage = "idle"
    /\ Len(exchanged) < MaxExchanges
    /\ \E token \in issued :
         /\ token.version = account.version
         /\ account.usable
         /\ refresh' = [refresh EXCEPT ![r] =
                [token |-> token, stage |-> IF Holds(token) THEN "rotate" ELSE "pull"]]
    /\ UNCHANGED <<second, account, signIn, change, issued, exchanged, revocations, late>>

NewToken(token) == [token EXCEPT !.second = second]

\* Mutant of Rotates: the session is found by its id alone.
RotatesById(token) ==
    \E i \in DOMAIN account.sessions : account.sessions[i].session = token.session

\* updateOne on the session that still has the hash of the old token.
Rotates(token) == /\ account.version = token.version
                  /\ Holds(token)

\* modifiedCount is 0 where the new token is the old one.
Modifies(token) == Rotates(token) /\ NewToken(token) # token

RotateToken(r) ==
    LET token == refresh[r].token IN
    /\ refresh[r].stage = "rotate"
    /\ Modifies(token)
    /\ account' = [account EXCEPT !.sessions =
           [i \in DOMAIN @ |-> IF @[i].session = token.session THEN NewToken(token) ELSE @[i]]]
    /\ issued' = issued \cup {NewToken(token)}
    /\ exchanged' = Append(exchanged, token)
    /\ refresh' = [refresh EXCEPT ![r] = [stage |-> "idle", token |-> NoToken]]
    /\ UNCHANGED <<second, signIn, change, revocations, late>>

RotateRefused(r) ==
    /\ refresh[r].stage = "rotate"
    /\ ~Modifies(refresh[r].token)
    /\ refresh' = [refresh EXCEPT ![r].stage = "pull"]
    /\ UNCHANGED <<second, account, signIn, change, issued, exchanged, revocations, late>>

\* $pull by the id of a session, which one entry has at most (OneEntryPerSession).
Without(sessions, session) ==
    LET Has(i) == sessions[i].session = session IN
    IF \E i \in DOMAIN sessions : Has(i)
    THEN LET i == CHOOSE j \in DOMAIN sessions : Has(j)
         IN SubSeq(sessions, 1, i - 1) \o SubSeq(sessions, i + 1, Len(sessions))
    ELSE sessions

\* A token that was used already ends its session, whoever has it now.
PullSession(r) ==
    /\ refresh[r].stage = "pull"
    /\ account' = [account EXCEPT !.sessions = Without(@, refresh[r].token.session)]
    /\ refresh' = [refresh EXCEPT ![r] = [stage |-> "idle", token |-> NoToken]]
    /\ UNCHANGED <<second, signIn, change, issued, exchanged, revocations, late>>
-----------------------------------------------------------------------------
(* Revoking every session. *)

\* Mutant of Revoke: the version stays.
RevokeSessionsOnly ==
    /\ revocations < MaxRevocations
    /\ revocations' = revocations + 1
    /\ account' = [account EXCEPT !.sessions = <<>>]

\* $inc of the version and $set of no sessions, in one update.
Revoke ==
    /\ revocations < MaxRevocations
    /\ revocations' = revocations + 1
    /\ account' = [account EXCEPT !.version = @ + 1, !.sessions = <<>>]

LogoutAllDevices ==
    /\ \E t \in issued : Accepted(t)
    /\ Revoke
    /\ UNCHANGED <<second, signIn, refresh, change, issued, exchanged, late>>

\* updateRole by another administrator: the same update.
UpdateRole ==
    /\ Revoke
    /\ UNCHANGED <<second, signIn, refresh, change, issued, exchanged, late>>

\* changePassword: bcrypt compares the old password and hashes the new one.
BeginChange ==
    /\ change = "idle"
    /\ \E t \in issued : Accepted(t)
    /\ change' = "change"
    /\ UNCHANGED <<second, account, signIn, refresh, issued, exchanged, revocations, late>>

ForgotPassword ==
    /\ ~account.code /\ revocations < MaxRevocations
    /\ account' = [account EXCEPT !.code = TRUE]
    /\ UNCHANGED <<second, signIn, refresh, change, issued, exchanged, revocations, late>>

\* resetPassword finds the account by the code of the e-mail.
BeginReset ==
    /\ change = "idle" /\ account.code
    /\ change' = "reset"
    /\ UNCHANGED <<second, account, signIn, refresh, issued, exchanged, revocations, late>>

WritePassword ==
    /\ change = "change"
    /\ Revoke
    /\ change' = "idle"
    /\ UNCHANGED <<second, signIn, refresh, issued, exchanged, late>>

WriteReset ==
    /\ change = "reset"
    /\ revocations < MaxRevocations
    /\ revocations' = revocations + 1
    /\ account' = [account EXCEPT !.version = @ + 1, !.sessions = <<>>, !.code = FALSE]
    /\ change' = "idle"
    /\ UNCHANGED <<second, signIn, refresh, issued, exchanged, late>>

\* A member is banned, deactivated or admitted again.
Suspend ==
    /\ account' = [account EXCEPT !.usable = ~@]
    /\ UNCHANGED <<second, signIn, refresh, change, issued, exchanged, revocations, late>>

Tick ==
    /\ second < MaxSeconds
    /\ second' = second + 1
    /\ UNCHANGED <<account, signIn, refresh, change, issued, exchanged, revocations, late>>
-----------------------------------------------------------------------------
Next ==
    \/ \E s \in SignIns : \/ MatchPassword(s) \/ ReadVersion(s)
                          \/ PushSession(s) \/ SignInFails(s)
    \/ \E r \in Refreshes : \/ ReadAccount(r) \/ RotateToken(r)
                            \/ RotateRefused(r) \/ PullSession(r)
    \/ LogoutAllDevices \/ UpdateRole
    \/ BeginChange \/ ForgotPassword \/ BeginReset \/ WritePassword \/ WriteReset
    \/ Suspend \/ Tick

Spec == Init /\ [][Next]_vars
-----------------------------------------------------------------------------
(* Once the sessions of an account are revoked, no token that goes back to *)
(* a sign-in before that is accepted: neither one whose version was        *)
(* current, nor one signed in for with the old password.  The one          *)
(* exception is an account where a sign-in was under way at a revocation:  *)
(* it writes back the version it read.                                     *)
RevokedStaysRevoked ==
    \A token \in issued : token.since < revocations /\ Accepted(token) => late

(* A refresh token is exchanged at most once, however many requests carry  *)
(* it at a time and however often a client repeats it.                     *)
RefreshedOnce ==
    \A i, j \in DOMAIN exchanged : exchanged[i] = exchanged[j] => i = j
-----------------------------------------------------------------------------
(* The invariants on which these two rest.                                 *)

\* While no sign-in was late, versions count revocations: that of the account,
\* those of tokens, and those that sign-ins under way have read.
VersionsCount ==
    ~late =>
        /\ account.version = revocations
        /\ \A token \in issued : token.version = token.since
        /\ \A s \in SignIns : signIn[s].stage = "version" =>
               signIn[s].since <= signIn[s].version /\ signIn[s].version <= revocations

\* What the account holds was issued, and what was exchanged is older than now
\* and not held any more.
HeldAreFresh ==
    /\ \A s \in SignIns : signIn[s].since <= revocations
    /\ \A token \in issued : token.second <= second /\ signIn[token.session].stage = "in"
    /\ \A i \in DOMAIN account.sessions : account.sessions[i] \in issued
    /\ \A j \in DOMAIN exchanged : /\ exchanged[j] \in issued
                                  /\ exchanged[j].second < second
                                  /\ ~Holds(exchanged[j])

OneEntryPerSession ==
    \A i, j \in DOMAIN account.sessions :
        account.sessions[i].session = account.sessions[j].session => i = j

SessionsInv == TypeOK /\ VersionsCount /\ HeldAreFresh /\ OneEntryPerSession /\ RefreshedOnce
=============================================================================
