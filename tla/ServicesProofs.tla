---------------------------- MODULE ServicesProofs ----------------------------
(***************************************************************************)
(* What is true of the services for every value of the constants.  Each    *)
(* service has an invariant of its own, stated in its module; here (and,   *)
(* for the services of the office, in OfficeServicesProofs) it is shown to *)
(* hold at first and through every action, and the properties of Services  *)
(* follow.  The variables of a service are the slots that its INSTANCE     *)
(* gives it.                                                               *)
(***************************************************************************)
EXTENDS Services, OfficeServicesProofs, FiniteSetTheorems, SequenceTheorems, TLAPS

(* Sessions: second is v1, account v2, signIn v3, refresh v4, change v5,   *)
(* issued v6, exchanged v7, revocations v8 and late v9.                    *)

SessionsVars == <<v1, v2, v3, v4, v5, v6, v7, v8, v9>>

LEMMA SessionsStep ==
    ASSUME focus = "sessions", [Next]_vars
    PROVE  focus' = "sessions" /\ (Auth!Next \/ UNCHANGED SessionsVars)
BY DEF Next, vars, SessionsVars

\* $slice keeps entries at the end, $pull all entries but one.
LEMMA NewestIsThinned ==
    ASSUME NEW S, NEW q \in Seq(S)
    PROVE  Auth!Newest(q) \in Seq(S) /\ Thinned(Auth!Newest(q), q)
<1>. DEFINE id == [i \in DOMAIN q |-> i]
<1>1. Thinned(q, q)
  <2>1. id \in [DOMAIN q -> DOMAIN q] /\ \A i \in DOMAIN q : id[i] = i OBVIOUS
  <2>. QED BY <2>1 DEF Thinned
<1>2. CASE Len(q) <= MaxSessions BY <1>1, <1>2 DEF Auth!Newest
<1>3. CASE ~(Len(q) <= MaxSessions)
  <2>1. MaxSessions \in Nat \ {0} BY SessionsAssumed DEF Auth!SessionsAssumption
  <2>2. Len(q) - MaxSessions + 1 \in 1 .. Len(q) + 1 BY <2>1, <1>3
  <2>3. Auth!Newest(q) = SubSeq(q, Len(q) - MaxSessions + 1, Len(q)) BY <1>3 DEF Auth!Newest
  <2>. QED BY <2>2, <2>3, SuffixIsThinned
<1>. QED BY <1>2, <1>3

LEMMA WithoutIsThinned ==
    ASSUME NEW S, NEW q \in Seq(S), NEW s
    PROVE  Auth!Without(q, s) \in Seq(S) /\ Thinned(Auth!Without(q, s), q)
<1>. DEFINE id == [i \in DOMAIN q |-> i]
<1>1. CASE \E i \in DOMAIN q : q[i].session = s
  <2>. DEFINE k == CHOOSE j \in DOMAIN q : q[j].session = s
  <2>1. k \in DOMAIN q BY <1>1
  <2>2. Auth!Without(q, s) = SubSeq(q, 1, k - 1) \o SubSeq(q, k + 1, Len(q))
    BY <1>1 DEF Auth!Without
  <2>. HIDE DEF k
  <2>. QED BY <2>1, <2>2, OneLessIsThinned
<1>2. CASE ~ \E i \in DOMAIN q : q[i].session = s
  <2>1. Auth!Without(q, s) = q BY <1>2 DEF Auth!Without
  <2>2. id \in [DOMAIN q -> DOMAIN q] /\ \A i \in DOMAIN q : id[i] = i OBVIOUS
  <2>. QED BY <2>1, <2>2 DEF Thinned
<1>. QED BY <1>1, <1>2

LEMMA SessionsStarts ==
    ASSUME focus = "sessions", Init
    PROVE  Auth!SessionsInv
<1>1. Auth!Init BY DEF Init
<1>2. MaxSeconds \in Nat /\ MaxRevocations \in Nat BY SessionsAssumed DEF Auth!SessionsAssumption
<1>3. v2 = [version |-> 0, sessions |-> <<>>, usable |-> TRUE, code |-> FALSE]
      /\ v7 = <<>> /\ v6 = {} /\ v8 = 0 /\ v1 = 0 /\ v9 = FALSE
  BY <1>1 DEF Auth!Init
<1>4. v3 \in [A -> [stage : {"new", "matched", "version", "in", "failed"},
                   version : Nat, since : Nat]]
      /\ \A s \in A : v3[s].stage = "new" /\ v3[s].since = 0
  BY <1>1 DEF Auth!Init
<1>5. v4 \in [B -> [stage : {"idle", "rotate", "pull"},
                   token : Auth!Token \cup {Auth!NoToken}]]
  BY <1>1 DEF Auth!Init
<1>6. Auth!TypeOK
  <2>1. v2 \in [version : Nat, sessions : Seq(Auth!Token), usable : BOOLEAN, code : BOOLEAN] BY <1>3
  <2>2. v5 = "idle" /\ v1 \in 0 .. MaxSeconds /\ v8 \in 0 .. MaxRevocations
    BY <1>1, <1>2, <1>3 DEF Auth!Init
  <2>. QED BY <1>3, <1>4, <1>5, <2>1, <2>2 DEF Auth!TypeOK
<1>7. Auth!VersionsCount BY <1>3, <1>4 DEF Auth!VersionsCount
<1>8. Auth!HeldAreFresh /\ Auth!OneEntryPerSession /\ Auth!RefreshedOnce
  BY <1>3, <1>4 DEF Auth!HeldAreFresh, Auth!OneEntryPerSession, Auth!RefreshedOnce
<1>. QED BY <1>6, <1>7, <1>8 DEF Auth!SessionsInv

\* What the account holds after entries were taken away.
LEMMA FewerSessions ==
    ASSUME Auth!SessionsInv,
           v2'.version = v2.version, v2'.sessions \in Seq(Auth!Token),
           Thinned(v2'.sessions, v2.sessions)
    PROVE  /\ \A i \in DOMAIN v2'.sessions : v2'.sessions[i] \in v6
           /\ \A t : Auth!Holds(t)' => Auth!Holds(t)
           /\ Auth!OneEntryPerSession'
<1>1. PICK f \in [DOMAIN v2'.sessions -> DOMAIN v2.sessions] :
          /\ \A i, j \in DOMAIN v2'.sessions : f[i] = f[j] => i = j
          /\ \A i \in DOMAIN v2'.sessions : v2'.sessions[i] = v2.sessions[f[i]]
  BY DEF Thinned
<1>2. \A i \in DOMAIN v2'.sessions : v2'.sessions[i] \in v6
  BY <1>1 DEF Auth!SessionsInv, Auth!HeldAreFresh
<1>3. \A t : Auth!Holds(t)' => Auth!Holds(t) BY <1>1 DEF Auth!Holds
<1>4. Auth!OneEntryPerSession' BY <1>1 DEF Auth!SessionsInv, Auth!OneEntryPerSession
<1>. QED BY <1>2, <1>3, <1>4

LEMMA SignInKeeps ==
    ASSUME Auth!SessionsInv, NEW s \in A,
           Auth!MatchPassword(s) \/ Auth!ReadVersion(s) \/ Auth!SignInFails(s)
    PROVE  Auth!SessionsInv'
<1>. USE DEF Auth!MatchPassword, Auth!ReadVersion, Auth!SignInFails
<1>0. Auth!TypeOK BY DEF Auth!SessionsInv
<1>1. UNCHANGED <<v1, v2, v4, v5, v6, v7, v8, v9>> OBVIOUS
<1>2. /\ v3' \in [A -> [stage : {"new", "matched", "version", "in", "failed"},
                        version : Nat, since : Nat]]
      /\ \A r \in A : v3[r].stage = "in" => v3'[r] = v3[r]
      /\ \A r \in A : v3'[r] = v3[r] \/ (r = s /\ v3'[s].stage # "version"
                                         /\ v3'[s].since \in {v3[s].since, v8})
                      \/ (r = s /\ v3'[s].since = v3[s].since /\ v3'[s].version = v2.version)
  <2>0. v3 \in [A -> [stage : {"new", "matched", "version", "in", "failed"},
                     version : Nat, since : Nat]]
        /\ v2.version \in Nat /\ v8 \in Nat
    BY <1>0 DEF Auth!TypeOK
  <2>1. CASE Auth!MatchPassword(s) BY <2>0, <2>1
  <2>2. CASE Auth!ReadVersion(s)
    <3>1. v3' = [v3 EXCEPT ![s] = [@ EXCEPT !.stage = "version", !.version = v2.version]]
      BY <2>0, <2>2
    <3>2. v3[s].stage = "matched" BY <2>2
    <3>3. /\ v3'[s].stage = "version" /\ v3'[s].since = v3[s].since
          /\ v3'[s].version = v2.version
          /\ \A r \in A : r # s => v3'[r] = v3[r]
      BY <2>0, <3>1
    <3>4. v3' \in [A -> [stage : {"new", "matched", "version", "in", "failed"},
                       version : Nat, since : Nat]]
      BY <2>0, <3>1
    <3>. QED BY <3>2, <3>3, <3>4
  <2>3. CASE Auth!SignInFails(s) BY <2>0, <2>3
  <2>. QED BY <2>1, <2>2, <2>3
<1>3. Auth!TypeOK' BY <1>0, <1>1, <1>2 DEF Auth!TypeOK
<1>4. \A r \in A : v3'[r].since <= v8
  BY <1>0, <1>2 DEF Auth!SessionsInv, Auth!HeldAreFresh, Auth!TypeOK
<1>5. Auth!HeldAreFresh'
  BY <1>0, <1>1, <1>2, <1>4 DEF Auth!SessionsInv, Auth!HeldAreFresh, Auth!TypeOK, Auth!Token,
   Auth!Holds
<1>6. Auth!VersionsCount'
  BY <1>0, <1>1, <1>2, <1>4 DEF Auth!SessionsInv, Auth!VersionsCount, Auth!TypeOK
<1>7. Auth!OneEntryPerSession' /\ Auth!RefreshedOnce'
  BY <1>1 DEF Auth!SessionsInv, Auth!OneEntryPerSession, Auth!RefreshedOnce
<1>. QED BY <1>3, <1>5, <1>6, <1>7 DEF Auth!SessionsInv

LEMMA PushSessionKeeps ==
    ASSUME Auth!SessionsInv, NEW s \in A, Auth!PushSession(s)
    PROVE  Auth!SessionsInv'
<1>. DEFINE token == [session |-> s, version |-> v3[s].version, second |-> v1,
                      since |-> v3[s].since]
            q == Append(v2.sessions, token)
<1>0. Auth!TypeOK /\ Auth!HeldAreFresh /\ Auth!VersionsCount
      /\ Auth!OneEntryPerSession
  BY DEF Auth!SessionsInv
<1>1. /\ v3[s].stage = "version"
      /\ v3' = [v3 EXCEPT ![s].stage = "in"]
      /\ v2' = [v2 EXCEPT !.version = v3[s].version, !.sessions = Auth!Newest(q)]
      /\ v6' = v6 \cup {token}
      /\ v9' = (v9 \/ v3[s].since < v8)
      /\ UNCHANGED <<v1, v4, v5, v7, v8>>
  BY DEF Auth!PushSession
<1>2. token \in Auth!Token BY <1>0 DEF Auth!TypeOK, Auth!Token
<1>3. \A t \in v6 : t.session # s BY <1>0, <1>1 DEF Auth!HeldAreFresh
<1>. DEFINE old == v2.sessions
<1>4. old \in Seq(Auth!Token) /\ \A i \in DOMAIN old : old[i] \in v6
  BY <1>0 DEF Auth!TypeOK, Auth!HeldAreFresh
<1>. HIDE DEF token
<1>5. /\ q \in Seq(Auth!Token) /\ Len(q) = Len(old) + 1
      /\ \A i \in DOMAIN q : q[i] = IF i <= Len(old) THEN old[i] ELSE token
  BY <1>2, <1>4, AppendProperties
<1>. HIDE DEF q
<1>6. /\ Auth!Newest(q) \in Seq(Auth!Token)
      /\ Thinned(Auth!Newest(q), q)
  BY <1>5, NewestIsThinned
<1>7. v2' \in [version : Nat, sessions : Seq(Auth!Token), usable : BOOLEAN, code : BOOLEAN]
      /\ v2'.version = v3[s].version /\ v2'.sessions = Auth!Newest(q)
  BY <1>0, <1>1, <1>6 DEF Auth!TypeOK
<1>8. PICK f \in [DOMAIN v2'.sessions -> DOMAIN q] :
          /\ \A i, j \in DOMAIN v2'.sessions : f[i] = f[j] => i = j
          /\ \A i \in DOMAIN v2'.sessions : v2'.sessions[i] = q[f[i]]
  BY <1>6, <1>7 DEF Thinned
<1>9. \A i \in DOMAIN q : q[i] \in v6 \cup {token} BY <1>4, <1>5
<1>10. token.session = s /\ token.second = v1 /\ token.version = v3[s].version
       /\ token.since = v3[s].since
  BY DEF token
<1>11. \A i, j \in DOMAIN q : q[i].session = q[j].session => i = j
  <2>. SUFFICES ASSUME NEW i \in DOMAIN q, NEW j \in DOMAIN q, q[i].session = q[j].session
                PROVE  i = j
    OBVIOUS
  <2>0. i \in 1 .. Len(old) + 1 /\ j \in 1 .. Len(old) + 1 /\ Len(old) \in Nat BY <1>4, <1>5
  <2>1. CASE i <= Len(old) /\ j <= Len(old)
    <3>1. q[i] = old[i] /\ q[j] = old[j] /\ i \in DOMAIN old /\ j \in DOMAIN old
      BY <1>4, <1>5, <2>0, <2>1
    <3>. QED BY <1>0, <3>1 DEF Auth!OneEntryPerSession
  <2>2. CASE i <= Len(old) /\ ~(j <= Len(old)) BY <1>3, <1>4, <1>5, <1>10, <2>0, <2>2
  <2>3. CASE ~(i <= Len(old)) /\ j <= Len(old) BY <1>3, <1>4, <1>5, <1>10, <2>0, <2>3
  <2>. QED BY <2>0, <2>1, <2>2, <2>3
<1>12. Auth!OneEntryPerSession' BY <1>8, <1>11 DEF Auth!OneEntryPerSession
<1>13. /\ v3' \in [A -> [stage : {"new", "matched", "version", "in", "failed"},
                         version : Nat, since : Nat]]
       /\ v3'[s].stage = "in" /\ v3'[s].since = v3[s].since
       /\ \A r \in A : r # s => v3'[r] = v3[r]
  BY <1>0, <1>1 DEF Auth!TypeOK
<1>14. Auth!TypeOK' BY <1>0, <1>1, <1>2, <1>7, <1>13 DEF Auth!TypeOK
<1>15. Auth!RefreshedOnce' BY <1>1 DEF Auth!SessionsInv, Auth!RefreshedOnce
<1>16. \A j \in DOMAIN v7 : v7[j] \in v6 /\ v7[j] # token BY <1>0, <1>3, <1>10 DEF Auth!HeldAreFresh
<1>17. \A t : Auth!Holds(t)' => Auth!Holds(t) \/ t = token
  <2>. SUFFICES ASSUME NEW t, Auth!Holds(t)'
                PROVE  Auth!Holds(t) \/ t = token
    OBVIOUS
  <2>1. PICK i \in DOMAIN v2'.sessions : v2'.sessions[i] = t BY DEF Auth!Holds
  <2>2. f[i] \in DOMAIN q /\ q[f[i]] = t BY <1>8, <2>1
  <2>. QED BY <1>4, <1>5, <2>2 DEF Auth!Holds
<1>18. Auth!HeldAreFresh'
  <2>1. \A r \in A : v3'[r].since <= v8' BY <1>0, <1>1, <1>13 DEF Auth!HeldAreFresh
  <2>2. \A t \in v6' : t.second <= v1' /\ v3'[t.session].stage = "in"
    BY <1>0, <1>1, <1>2, <1>10, <1>13 DEF Auth!HeldAreFresh, Auth!TypeOK, Auth!Token
  <2>3. \A i \in DOMAIN v2'.sessions : v2'.sessions[i] \in v6' BY <1>1, <1>8, <1>9
  <2>4. \A j \in DOMAIN v7' : v7'[j] \in v6' /\ v7'[j].second < v1'
                              /\ ~Auth!Holds(v7[j])'
    BY <1>0, <1>1, <1>16, <1>17 DEF Auth!HeldAreFresh
  <2>. QED BY <2>1, <2>2, <2>3, <2>4 DEF Auth!HeldAreFresh
<1>19. Auth!VersionsCount'
  <2>1. CASE v9' BY <2>1 DEF Auth!VersionsCount
  <2>2. CASE ~v9'
    <3>1. ~v9 /\ ~(v3[s].since < v8) BY <1>1, <2>2
    <3>2. v3[s].version = v8 /\ v3[s].since = v8
      BY <1>0, <1>1, <3>1 DEF Auth!VersionsCount, Auth!TypeOK
    <3>. QED BY <1>0, <1>1, <1>7, <1>10, <1>13, <3>1, <3>2 DEF Auth!VersionsCount
  <2>. QED BY <2>1, <2>2
<1>. QED BY <1>12, <1>14, <1>15, <1>18, <1>19 DEF Auth!SessionsInv

\* Requests read, refuse and wait without writing the account.
LEMMA RequestKeeps ==
    ASSUME Auth!SessionsInv,
           UNCHANGED <<v2, v3, v6, v7, v8, v9>>,
           v1' \in 0 .. MaxSeconds, v1 <= v1',
           v5' \in {"idle", "change", "reset"},
           v4' \in [B -> [stage : {"idle", "rotate", "pull"},
                          token : Auth!Token \cup {Auth!NoToken}]]
    PROVE  Auth!SessionsInv'
<1>0. Auth!TypeOK /\ Auth!HeldAreFresh /\ Auth!VersionsCount
      /\ Auth!OneEntryPerSession /\ Auth!RefreshedOnce
  BY DEF Auth!SessionsInv
<1>1. Auth!TypeOK' BY <1>0 DEF Auth!TypeOK
<1>2. Auth!VersionsCount' /\ Auth!OneEntryPerSession' /\ Auth!RefreshedOnce'
  BY <1>0 DEF Auth!VersionsCount, Auth!OneEntryPerSession, Auth!RefreshedOnce
<1>3. Auth!HeldAreFresh'
  <2>1. \A t \in v6 : t.second \in Nat BY <1>0 DEF Auth!TypeOK, Auth!Token
  <2>2. v1 \in Nat /\ v1' \in Nat BY <1>0, SessionsAssumed DEF Auth!TypeOK, Auth!SessionsAssumption
  <2>3. \A t : Auth!Holds(t)' <=> Auth!Holds(t) BY DEF Auth!Holds
  <2>4. \A s \in A : v3'[s].since <= v8' BY <1>0 DEF Auth!HeldAreFresh
  <2>5. \A t \in v6' : t.second <= v1' /\ v3'[t.session].stage = "in"
    BY <1>0, <2>1, <2>2 DEF Auth!HeldAreFresh
  <2>6. \A i \in DOMAIN v2'.sessions : v2'.sessions[i] \in v6' BY <1>0 DEF Auth!HeldAreFresh
  <2>7. \A j \in DOMAIN v7' : v7'[j] \in v6' /\ v7'[j].second < v1' /\ ~Auth!Holds(v7[j])'
    BY <1>0, <2>1, <2>2, <2>3 DEF Auth!HeldAreFresh
  <2>. QED BY <2>4, <2>5, <2>6, <2>7 DEF Auth!HeldAreFresh
<1>. QED BY <1>1, <1>2, <1>3 DEF Auth!SessionsInv

\* The account loses sessions, and gains versions with revocations.
LEMMA WriteKeeps ==
    ASSUME Auth!SessionsInv,
           UNCHANGED <<v1, v3, v6, v7, v9>>,
           v2' \in [version : Nat, sessions : Seq(Auth!Token), usable : BOOLEAN,
                    code : BOOLEAN],
           v5' \in {"idle", "change", "reset"},
           v4' \in [B -> [stage : {"idle", "rotate", "pull"},
                          token : Auth!Token \cup {Auth!NoToken}]],
           \/ /\ v2'.version = v2.version /\ v8' = v8
              /\ Thinned(v2'.sessions, v2.sessions)
           \/ /\ v2'.version = v2.version + 1 /\ v8' = v8 + 1 /\ v8 < MaxRevocations
              /\ v2'.sessions = <<>>
    PROVE  Auth!SessionsInv'
<1>0. Auth!TypeOK /\ Auth!HeldAreFresh /\ Auth!VersionsCount
      /\ Auth!OneEntryPerSession /\ Auth!RefreshedOnce
  BY DEF Auth!SessionsInv
<1>. DEFINE q == v2.sessions
            t == v2'.sessions
<1>1. v8 \in Nat /\ v8' \in 0 .. MaxRevocations /\ v8 <= v8' /\ v2.version \in Nat
  BY <1>0, SessionsAssumed DEF Auth!TypeOK, Auth!SessionsAssumption
<1>2. /\ \A i \in DOMAIN t : t[i] \in v6
      /\ \A x : Auth!Holds(x)' => Auth!Holds(x)
      /\ \A i, j \in DOMAIN t : t[i].session = t[j].session => i = j
  <2>1. CASE t = <<>> BY <2>1 DEF Auth!Holds
  <2>2. CASE Thinned(t, q)
    <3>1. PICK f \in [DOMAIN t -> DOMAIN q] :
              /\ \A i, j \in DOMAIN t : f[i] = f[j] => i = j
              /\ \A i \in DOMAIN t : t[i] = q[f[i]]
      BY <2>2 DEF Thinned
    <3>2. /\ \A i \in DOMAIN q : q[i] \in v6
          /\ \A i, j \in DOMAIN q : q[i].session = q[j].session => i = j
      BY <1>0 DEF Auth!HeldAreFresh, Auth!OneEntryPerSession
    <3>3. \A x : Auth!Holds(x)' => Auth!Holds(x) BY <3>1 DEF Auth!Holds
    <3>. HIDE DEF q, t
    <3>. QED BY <3>1, <3>2, <3>3
  <2>. QED BY <2>1, <2>2
<1>3. Auth!TypeOK' BY <1>0, <1>1 DEF Auth!TypeOK
<1>4. Auth!VersionsCount'
  <2>1. \A s \in A : v3[s].version \in Nat /\ v3[s].since \in Nat BY <1>0 DEF Auth!TypeOK
  <2>. QED BY <1>0, <1>1, <2>1 DEF Auth!VersionsCount
<1>5. Auth!OneEntryPerSession' /\ Auth!RefreshedOnce'
  BY <1>0, <1>2 DEF Auth!OneEntryPerSession, Auth!RefreshedOnce
<1>6. Auth!HeldAreFresh'
  <2>1. \A s \in A : v3[s].since \in Nat BY <1>0 DEF Auth!TypeOK
  <2>2. \A s \in A : v3'[s].since <= v8' BY <1>0, <1>1, <2>1 DEF Auth!HeldAreFresh
  <2>3. \A x \in v6' : x.second <= v1' /\ v3'[x.session].stage = "in" BY <1>0 DEF Auth!HeldAreFresh
  <2>4. \A j \in DOMAIN v7' : v7'[j] \in v6' /\ v7'[j].second < v1' /\ ~Auth!Holds(v7[j])'
    BY <1>0, <1>2 DEF Auth!HeldAreFresh
  <2>. QED BY <1>2, <2>2, <2>3, <2>4 DEF Auth!HeldAreFresh
<1>. QED BY <1>3, <1>4, <1>5, <1>6 DEF Auth!SessionsInv

\* The new token is of this second, and no token of this second was exchanged.
LEMMA RotateTokenKeeps ==
    ASSUME Auth!SessionsInv, NEW r \in B, Auth!RotateToken(r)
    PROVE  Auth!SessionsInv'
<1>0. Auth!TypeOK /\ Auth!HeldAreFresh /\ Auth!VersionsCount
      /\ Auth!OneEntryPerSession /\ Auth!RefreshedOnce
  BY DEF Auth!SessionsInv
<1>. DEFINE token == v4[r].token
            new == Auth!NewToken(token)
            old == v2.sessions
            q == [i \in DOMAIN old |-> IF old[i].session = token.session THEN new ELSE old[i]]
<1>1. /\ Auth!Holds(token) /\ new # token
      /\ v2' = [v2 EXCEPT !.sessions = q]
      /\ v6' = v6 \cup {new}
      /\ v7' = Append(v7, token)
      /\ v4' = [v4 EXCEPT ![r] = [stage |-> "idle", token |-> Auth!NoToken]]
      /\ UNCHANGED <<v1, v3, v5, v8, v9>>
  BY DEF Auth!RotateToken, Auth!Modifies, Auth!Rotates
<1>2. new = [token EXCEPT !.second = v1] BY DEF Auth!NewToken
<1>3. old \in Seq(Auth!Token) /\ (\A i \in DOMAIN old : old[i] \in v6)
      /\ (\A i, j \in DOMAIN old : old[i].session = old[j].session => i = j)
  BY <1>0 DEF Auth!TypeOK, Auth!HeldAreFresh, Auth!OneEntryPerSession
<1>4. PICK k \in DOMAIN old : old[k] = token BY <1>1 DEF Auth!Holds
<1>5. token \in v6 /\ token \in Auth!Token BY <1>3, <1>4
<1>. HIDE DEF token
<1>6. /\ token.session \in A /\ token.second \in Nat /\ token.second <= v1 /\ v1 \in Nat
      /\ v3[token.session].stage = "in"
  BY <1>0, <1>5, SessionsAssumed DEF Auth!Token, Auth!TypeOK, Auth!HeldAreFresh,
   Auth!SessionsAssumption
<1>7. /\ new \in Auth!Token /\ new.session = token.session /\ new.second = v1
      /\ new.version = token.version /\ new.since = token.since
  BY <1>2, <1>5, <1>6 DEF Auth!Token
<1>8. token.second < v1
  <2>1. token.second = v1 => [token EXCEPT !.second = v1] = token BY <1>5 DEF Auth!Token
  <2>. QED BY <1>1, <1>2, <1>6, <2>1
<1>. HIDE DEF new
<1>9. q \in Seq(Auth!Token) /\ DOMAIN q = DOMAIN old BY <1>3, <1>7
<1>10. \A i \in DOMAIN q : /\ q[i].session = old[i].session
                           /\ q[i] = new \/ (q[i] = old[i] /\ q[i].session # token.session)
  BY <1>7
<1>. HIDE DEF q
<1>11. /\ v2' \in [version : Nat, sessions : Seq(Auth!Token), usable : BOOLEAN, code : BOOLEAN]
       /\ v2'.version = v2.version /\ v2'.sessions = q
  BY <1>0, <1>1, <1>9 DEF Auth!TypeOK
<1>12. v7 \in Seq(Auth!Token) BY <1>0 DEF Auth!TypeOK
<1>13. /\ v7' \in Seq(Auth!Token) /\ Len(v7') = Len(v7) + 1
       /\ \A j \in DOMAIN v7' : v7'[j] = IF j <= Len(v7) THEN v7[j] ELSE token
  BY <1>1, <1>5, <1>12, AppendProperties
<1>14. v4' \in [B -> [stage : {"idle", "rotate", "pull"},
                      token : Auth!Token \cup {Auth!NoToken}]]
  BY <1>0, <1>1 DEF Auth!TypeOK
<1>15. Auth!TypeOK' BY <1>0, <1>1, <1>7, <1>11, <1>13, <1>14 DEF Auth!TypeOK
<1>16. Auth!OneEntryPerSession' BY <1>3, <1>9, <1>10, <1>11 DEF Auth!OneEntryPerSession
<1>17. \A j \in DOMAIN v7 : v7[j] \in v6 /\ v7[j].second < v1 /\ ~Auth!Holds(v7[j])
  BY <1>0 DEF Auth!HeldAreFresh
<1>18. \A j \in DOMAIN v7 : v7[j] # token BY <1>1, <1>17 DEF token
<1>19. Auth!RefreshedOnce'
  <2>1. \A j \in DOMAIN v7' : \/ j \in DOMAIN v7 /\ v7'[j] = v7[j]
                              \/ j = Len(v7) + 1 /\ v7'[j] = token
    BY <1>12, <1>13
  <2>. QED BY <1>0, <1>18, <2>1 DEF Auth!RefreshedOnce
<1>20. \A t : Auth!Holds(t)' => t = new \/ (Auth!Holds(t) /\ t.session # token.session)
  BY <1>9, <1>10, <1>11 DEF Auth!Holds
<1>21. Auth!HeldAreFresh'
  <2>1. \A s \in A : v3'[s].since <= v8' BY <1>0, <1>1 DEF Auth!HeldAreFresh
  <2>2. \A t \in v6' : t.second <= v1' /\ v3'[t.session].stage = "in"
    BY <1>0, <1>1, <1>6, <1>7 DEF Auth!HeldAreFresh
  <2>3. \A i \in DOMAIN v2'.sessions : v2'.sessions[i] \in v6' BY <1>1, <1>3, <1>9, <1>10, <1>11
  <2>4. \A j \in DOMAIN v7' : v7'[j] \in v6 /\ v7'[j].second < v1
                              /\ (v7'[j] = token \/ ~Auth!Holds(v7'[j]))
    BY <1>5, <1>8, <1>12, <1>13, <1>17
  <2>5. \A t : t.second < v1 /\ (t = token \/ ~Auth!Holds(t)) => ~Auth!Holds(t)'
    BY <1>6, <1>7, <1>20
  <2>6. \A j \in DOMAIN v7' : \A t : t = v7'[j] => t \in v6' /\ t.second < v1' /\ ~Auth!Holds(t)'
    BY <1>1, <2>4, <2>5
  <2>. QED BY <2>1, <2>2, <2>3, <2>6 DEF Auth!HeldAreFresh, Auth!Holds
<1>22. Auth!VersionsCount' BY <1>0, <1>1, <1>5, <1>7, <1>11 DEF Auth!VersionsCount
<1>. QED BY <1>15, <1>16, <1>19, <1>21, <1>22 DEF Auth!SessionsInv

LEMMA SessionsKept ==
    ASSUME Auth!SessionsInv, Auth!Next
    PROVE  Auth!SessionsInv'
<1>0. Auth!TypeOK BY DEF Auth!SessionsInv
<1>. DEFINE Stages == [B -> [stage : {"idle", "rotate", "pull"},
                             token : Auth!Token \cup {Auth!NoToken}]]
            Holders == [version : Nat, sessions : Seq(Auth!Token), usable : BOOLEAN,
                         code : BOOLEAN]
<1>1. /\ v1 \in 0 .. MaxSeconds /\ v1 <= v1 /\ v5 \in {"idle", "change", "reset"}
      /\ v4 \in Stages /\ v2 \in Holders /\ v6 \subseteq Auth!Token
  BY <1>0, SessionsAssumed DEF Auth!TypeOK, Auth!SessionsAssumption
<1>2. Thinned(v2.sessions, v2.sessions)
  <2>. DEFINE id == [i \in DOMAIN v2.sessions |-> i]
  <2>1. id \in [DOMAIN v2.sessions -> DOMAIN v2.sessions]
        /\ \A i \in DOMAIN v2.sessions : id[i] = i
    OBVIOUS
  <2>. HIDE DEF id
  <2>. QED BY <2>1 DEF Thinned
<1>3. ASSUME NEW r \in B, Auth!ReadAccount(r) \/ Auth!RotateRefused(r)
      PROVE  Auth!SessionsInv'
  <2>1. UNCHANGED <<v1, v2, v3, v5, v6, v7, v8, v9>>
    BY <1>3 DEF Auth!ReadAccount, Auth!RotateRefused
  <2>2. v4' \in Stages
    <3>1. CASE Auth!ReadAccount(r)
      <4>1. PICK t \in v6 : v4' = [v4 EXCEPT ![r] =
                [token |-> t, stage |-> IF Auth!Holds(t) THEN "rotate" ELSE "pull"]]
        BY <3>1 DEF Auth!ReadAccount
      <4>. QED BY <1>1, <4>1
    <3>2. CASE Auth!RotateRefused(r) BY <1>1, <3>2 DEF Auth!RotateRefused
    <3>. QED BY <1>3, <3>1, <3>2
  <2>. QED BY <1>1, <2>1, <2>2, RequestKeeps
<1>4. ASSUME NEW r \in B, Auth!PullSession(r)
      PROVE  Auth!SessionsInv'
  <2>1. /\ v2' = [v2 EXCEPT !.sessions = Auth!Without(v2.sessions, v4[r].token.session)]
        /\ v4' = [v4 EXCEPT ![r] = [stage |-> "idle", token |-> Auth!NoToken]]
        /\ UNCHANGED <<v1, v3, v5, v6, v7, v8, v9>>
    BY <1>4 DEF Auth!PullSession
  <2>2. v2.sessions \in Seq(Auth!Token) BY <1>1
  <2>3. /\ Auth!Without(v2.sessions, v4[r].token.session) \in Seq(Auth!Token)
        /\ Thinned(Auth!Without(v2.sessions, v4[r].token.session), v2.sessions)
    BY <2>2, WithoutIsThinned
  <2>4. v2' \in Holders /\ v2'.version = v2.version /\ Thinned(v2'.sessions, v2.sessions)
    BY <1>1, <2>1, <2>3
  <2>5. v4' \in Stages BY <1>1, <2>1
  <2>. QED BY <1>1, <2>1, <2>4, <2>5, WriteKeeps
<1>5. ASSUME Auth!LogoutAllDevices \/ Auth!UpdateRole \/ Auth!WritePassword
             \/ Auth!WriteReset
      PROVE  Auth!SessionsInv'
  <2>1. /\ UNCHANGED <<v1, v3, v4, v6, v7, v9>>
        /\ v5' \in {v5, "idle"} /\ v8 < MaxRevocations /\ v8' = v8 + 1
        /\ \/ v2' = [v2 EXCEPT !.version = @ + 1, !.sessions = <<>>]
           \/ v2' = [v2 EXCEPT !.version = @ + 1, !.sessions = <<>>, !.code = FALSE]
    BY <1>5 DEF Auth!LogoutAllDevices, Auth!UpdateRole, Auth!WritePassword, Auth!WriteReset,
     Auth!Revoke
  <2>2. v2' \in Holders /\ v2'.version = v2.version + 1 /\ v2'.sessions = <<>>
    <3>1. v2.version + 1 \in Nat /\ <<>> \in Seq(Auth!Token) BY <1>1
    <3>2. CASE v2' = [v2 EXCEPT !.version = @ + 1, !.sessions = <<>>]
      <4>1. v2' = [v2 EXCEPT !.version = v2.version + 1, !.sessions = <<>>] BY <1>1, <3>2
      <4>. QED BY <1>1, <3>1, <4>1
    <3>3. CASE v2' = [v2 EXCEPT !.version = @ + 1, !.sessions = <<>>, !.code = FALSE]
      <4>1. v2' = [v2 EXCEPT !.version = v2.version + 1, !.sessions = <<>>, !.code = FALSE]
        BY <1>1, <3>3
      <4>. QED BY <1>1, <3>1, <4>1
    <3>. QED BY <2>1, <3>2, <3>3
  <2>. QED BY <1>1, <2>1, <2>2, WriteKeeps
<1>6. ASSUME Auth!ForgotPassword \/ Auth!Suspend
      PROVE  Auth!SessionsInv'
  <2>1. /\ UNCHANGED <<v1, v3, v4, v5, v6, v7, v8, v9>>
        /\ \/ v2' = [v2 EXCEPT !.code = TRUE]
           \/ v2' = [v2 EXCEPT !.usable = ~@]
    BY <1>6 DEF Auth!ForgotPassword, Auth!Suspend
  <2>2. v2' \in Holders /\ v2'.version = v2.version /\ v2'.sessions = v2.sessions BY <1>1, <2>1
  <2>. QED BY <1>1, <1>2, <2>1, <2>2, WriteKeeps
<1>7. ASSUME Auth!BeginChange \/ Auth!BeginReset \/ Auth!Tick
      PROVE  Auth!SessionsInv'
  <2>1. /\ UNCHANGED <<v2, v3, v4, v6, v7, v8, v9>>
        /\ v5' \in {v5, "change", "reset"}
        /\ v1' = v1 \/ (v1 < MaxSeconds /\ v1' = v1 + 1)
    BY <1>7 DEF Auth!BeginChange, Auth!BeginReset, Auth!Tick
  <2>2. v1' \in 0 .. MaxSeconds /\ v1 <= v1'
    BY <1>1, <2>1, SessionsAssumed DEF Auth!SessionsAssumption
  <2>. QED BY <1>1, <2>1, <2>2, RequestKeeps
<1>. QED
  BY <1>3, <1>4, <1>5, <1>6, <1>7, SignInKeeps, PushSessionKeeps, RotateTokenKeeps DEF Auth!Next

(* The sessions of an account are what SessionsInv says: in particular one *)
(* entry for a session, whatever requests overlap, and a version that      *)
(* counts the revocations as long as no sign-in was late.                  *)
THEOREM SessionsCorrect == Spec => [](focus = "sessions" => Auth!SessionsInv)
<1>. DEFINE Inv == focus = "sessions" => Auth!SessionsInv
<1>1. Init => Inv BY SessionsStarts
<1>2. Inv /\ [Next]_vars => Inv'
  <2>. SUFFICES ASSUME Inv, [Next]_vars, focus' = "sessions"
                PROVE  Auth!SessionsInv'
    OBVIOUS
  <2>1. focus = "sessions" BY DEF Next, vars
  <2>2. Auth!Next \/ UNCHANGED SessionsVars BY <2>1, SessionsStep
  <2>3. CASE Auth!Next BY <2>1, <2>3, SessionsKept
  <2>4. CASE UNCHANGED SessionsVars
    <3>1. v1' \in 0 .. MaxSeconds /\ v1 <= v1' /\ v5' \in {"idle", "change", "reset"}
          /\ v4' \in [B -> [stage : {"idle", "rotate", "pull"},
                            token : Auth!Token \cup {Auth!NoToken}]]
      BY <2>1, <2>4, SessionsAssumed DEF Auth!SessionsInv, Auth!TypeOK, SessionsVars,
       Auth!SessionsAssumption
    <3>. QED BY <2>1, <2>4, <3>1, RequestKeeps DEF SessionsVars
  <2>. QED BY <2>2, <2>3, <2>4
<1>. QED BY <1>1, <1>2, PTL DEF Spec

(* No token that goes back to a sign-in before a revocation is accepted,   *)
(* and a refresh token is exchanged at most once.                          *)
THEOREM RevocationsHold == Spec => []RevokedStaysRevoked
<1>1. (focus = "sessions" => Auth!SessionsInv) => RevokedStaysRevoked
  <2>. SUFFICES ASSUME focus = "sessions", Auth!SessionsInv
                PROVE  Auth!RevokedStaysRevoked /\ Auth!RefreshedOnce
    BY DEF RevokedStaysRevoked
  <2>1. Auth!RefreshedOnce BY DEF Auth!SessionsInv
  <2>2. Auth!RevokedStaysRevoked
    <3>. SUFFICES ASSUME NEW t \in v6, t.since < v8, Auth!Accepted(t), ~v9
                  PROVE  FALSE
      BY DEF Auth!RevokedStaysRevoked, Auth!SessionsInv, Auth!TypeOK
    <3>1. t.version = t.since /\ t.version = v8
      BY DEF Auth!SessionsInv, Auth!VersionsCount, Auth!Accepted
    <3>2. v8 \in Nat BY SessionsAssumed DEF Auth!SessionsInv, Auth!TypeOK, Auth!SessionsAssumption
    <3>. QED BY <3>1, <3>2
  <2>. QED BY <2>1, <2>2
<1>. QED BY <1>1, SessionsCorrect, PTL

(* MemberAccounts: account is v1, counter v2, numbered v3, creation v4,    *)
(* verifying v5, reminding v6, reminded v7, mailed v8, codes v9 and        *)
(* removals v10.                                                           *)

AccountsVars == <<v1, v2, v3, v4, v5, v6, v7, v8, v9, v10>>

LEMMA AccountsStep ==
    ASSUME focus = "accounts", [Next]_vars
    PROVE  focus' = "accounts" /\ (Enrol!Next \/ UNCHANGED AccountsVars)
BY DEF Next, vars, AccountsVars

AccountCreations ==
    [B -> [stage : {"new", "count", "insert", "code", "mail", "log", "done"},
           kind : Enrol!Kinds \cup {"none"}, email : A, id : Nat]]

LEMMA AccountsStarts ==
    ASSUME focus = "accounts", Init
    PROVE  Enrol!AccountsInv
<1>1. Enrol!Init BY DEF Init
<1>2. A # {} /\ MaxCodes \in Nat /\ MaxRemovals \in Nat
  BY MemberAccountsAssumed DEF Enrol!AccountsAssumption
<1>3. (CHOOSE e \in A : TRUE) \in A BY <1>2
<1>4. v4 \in AccountCreations /\ \A c \in B : v4[c].stage = "new"
  BY <1>1, <1>3 DEF Enrol!Init, AccountCreations
<1>5. v1 \in [A -> Enrol!Account] BY <1>1, <1>2 DEF Enrol!Init, Enrol!Account, Enrol!NoAccount
<1>6. /\ v2 = 0 /\ v3 = << >> /\ v5 = {} /\ v6 = {} /\ v7 = {} /\ v8 = {} /\ v9 = 0 /\ v10 = 0
  BY <1>1, Zenon DEF Enrol!Init
<1>7. Enrol!TypeOK BY <1>2, <1>4, <1>5, <1>6 DEF Enrol!TypeOK, AccountCreations
<1>8. Enrol!NumbersAreTaken /\ Enrol!MembershipIdsUnique
  BY <1>4, <1>6 DEF Enrol!NumbersAreTaken, Enrol!Takes, Enrol!MembershipIdsUnique
<1>. QED BY <1>7, <1>8 DEF Enrol!AccountsInv

\* Whoever takes no number and inserts none.
LEMMA NumbersStay ==
    ASSUME Enrol!NumbersAreTaken, Enrol!MembershipIdsUnique,
           UNCHANGED <<v2, v3>>,
           \A c \in B : v4'[c].stage = "insert" => v4'[c] = v4[c]
    PROVE  Enrol!NumbersAreTaken' /\ Enrol!MembershipIdsUnique'
BY DEF Enrol!NumbersAreTaken, Enrol!Takes, Enrol!MembershipIdsUnique

\* A request goes on to a stage that inserts nothing.
LEMMA GoesTo ==
    ASSUME Enrol!TypeOK, NEW c \in B,
           NEW s \in {"new", "count", "code", "mail", "log", "done"},
           Enrol!GoTo(c, s)
    PROVE  /\ v4' \in AccountCreations
           /\ \A d \in B : v4'[d].stage = "insert" => v4'[d] = v4[d]
<1>1. v4 \in AccountCreations BY DEF Enrol!TypeOK, AccountCreations
<1>2. v4' = [v4 EXCEPT ![c] = [v4[c] EXCEPT !.stage = s]] BY <1>1 DEF Enrol!GoTo, AccountCreations
<1>3. [v4[c] EXCEPT !.stage = s] \in [stage : {"new", "count", "insert", "code", "mail", "log", "done"},
           kind : Enrol!Kinds \cup {"none"}, email : A, id : Nat]
      /\ [v4[c] EXCEPT !.stage = s].stage = s
  BY <1>1 DEF AccountCreations
<1>. QED BY <1>1, <1>2, <1>3 DEF AccountCreations

LEMMA CreationBegins ==
    ASSUME Enrol!AccountsInv, NEW c \in B, NEW e \in A,
           Enrol!SignUp(c, e)
           \/ \E kind \in Enrol!Kinds \ {"signUp"} : Enrol!CreateMember(c, e, kind)
    PROVE  Enrol!AccountsInv'
<1>0. Enrol!TypeOK /\ Enrol!NumbersAreTaken /\ Enrol!MembershipIdsUnique BY DEF Enrol!AccountsInv
<1>1. v4 \in AccountCreations BY <1>0 DEF Enrol!TypeOK, AccountCreations
<1>2. UNCHANGED <<v1, v2, v3, v5, v6, v7, v8, v9, v10>> BY DEF Enrol!SignUp, Enrol!CreateMember
<1>3. PICK k \in Enrol!Kinds, s \in {"count", "done"} :
          v4' = [v4 EXCEPT ![c] = [@ EXCEPT !.stage = s, !.kind = k, !.email = e]]
  BY DEF Enrol!SignUp, Enrol!CreateMember, Enrol!Kinds
<1>4. v4' \in AccountCreations /\ \A d \in B : v4'[d].stage = "insert" => v4'[d] = v4[d]
  BY <1>1, <1>3 DEF AccountCreations
<1>5. Enrol!TypeOK' BY <1>0, <1>2, <1>4 DEF Enrol!TypeOK, AccountCreations
<1>6. Enrol!NumbersAreTaken' /\ Enrol!MembershipIdsUnique' BY <1>0, <1>2, <1>4, NumbersStay
<1>. QED BY <1>5, <1>6 DEF Enrol!AccountsInv

LEMMA TakeNumberKeeps ==
    ASSUME Enrol!AccountsInv, NEW c \in B, Enrol!TakeNumber(c)
    PROVE  Enrol!AccountsInv'
<1>0. Enrol!TypeOK /\ Enrol!NumbersAreTaken /\ Enrol!MembershipIdsUnique BY DEF Enrol!AccountsInv
<1>1. v4 \in AccountCreations /\ v2 \in Nat /\ v3 \in Seq(Nat)
  BY <1>0 DEF Enrol!TypeOK, AccountCreations
<1>2. /\ UNCHANGED <<v1, v3, v5, v6, v7, v8, v9, v10>>
      /\ v2' = v2 + 1
      /\ v4' = [v4 EXCEPT ![c] = [@ EXCEPT !.stage = "insert", !.id = v2 + 1]]
  BY <1>1 DEF Enrol!TakeNumber, Enrol!NextNumber, AccountCreations
<1>3. /\ v4' \in AccountCreations /\ v4'[c].stage = "insert" /\ v4'[c].id = v2 + 1
      /\ \A d \in B : d # c => v4'[d] = v4[d]
  <2>1. v4' = [v4 EXCEPT ![c] = [v4[c] EXCEPT !.stage = "insert", !.id = v2 + 1]]
    BY <1>1, <1>2 DEF AccountCreations
  <2>. DEFINE new == [v4[c] EXCEPT !.stage = "insert", !.id = v2 + 1]
              Records == [stage : {"new", "count", "insert", "code", "mail", "log", "done"},
                          kind : Enrol!Kinds \cup {"none"}, email : A, id : Nat]
  <2>a. v4[c] \in Records /\ v2 + 1 \in Nat BY <1>1 DEF AccountCreations
  <2>b. \A n \in Nat : \A r \in Records :
            LET x == [r EXCEPT !.stage = "insert", !.id = n]
            IN  x \in Records /\ x.stage = "insert" /\ x.id = n
    OBVIOUS
  <2>2. new \in Records /\ new.stage = "insert" /\ new.id = v2 + 1 BY <2>a, <2>b
  <2>. HIDE DEF new
  <2>. QED BY <1>1, <2>1, <2>2 DEF AccountCreations, new
<1>4. Enrol!TypeOK' BY <1>0, <1>1, <1>2, <1>3 DEF Enrol!TypeOK, AccountCreations
<1>5. \A i \in DOMAIN v3 : v3[i] \in Nat /\ v3[i] <= v2 BY <1>0, <1>1 DEF Enrol!NumbersAreTaken
<1>6. \A d \in B : v4[d].id \in Nat /\ (v4[d].stage = "insert" => v4[d].id <= v2)
  BY <1>0, <1>1 DEF Enrol!NumbersAreTaken, Enrol!Takes, AccountCreations
<1>7. Enrol!NumbersAreTaken'
  <2>1. \A i \in DOMAIN v3' : v3'[i] <= v2' BY <1>1, <1>2, <1>5
  <2>2. ASSUME NEW d \in B, v4'[d].stage = "insert"
        PROVE  /\ v4'[d].id <= v2'
               /\ \A i \in DOMAIN v3' : v3'[i] # v4'[d].id
               /\ \A b \in B : v4'[b].stage = "insert" /\ v4'[b].id = v4'[d].id => b = d
    <3>1. CASE d = c BY <1>1, <1>2, <1>3, <1>5, <1>6, <3>1
    <3>2. CASE d # c
      BY <1>0, <1>1, <1>2, <1>3, <1>5, <1>6, <2>2, <3>2 DEF Enrol!NumbersAreTaken, Enrol!Takes
    <3>. QED BY <3>1, <3>2
  <2>. QED BY <2>1, <2>2 DEF Enrol!NumbersAreTaken, Enrol!Takes
<1>8. Enrol!MembershipIdsUnique' BY <1>0, <1>2 DEF Enrol!MembershipIdsUnique
<1>. QED BY <1>4, <1>7, <1>8 DEF Enrol!AccountsInv

LEMMA InsertAccountKeeps ==
    ASSUME Enrol!AccountsInv, NEW c \in B, Enrol!InsertAccount(c)
    PROVE  Enrol!AccountsInv'
<1>0. Enrol!TypeOK /\ Enrol!NumbersAreTaken /\ Enrol!MembershipIdsUnique BY DEF Enrol!AccountsInv
<1>1. v4 \in AccountCreations /\ v2 \in Nat /\ v3 \in Seq(Nat) /\ v1 \in [A -> Enrol!Account]
  BY <1>0 DEF Enrol!TypeOK, AccountCreations
<1>2. /\ v4[c].stage = "insert"
      /\ v1' = [v1 EXCEPT ![v4[c].email] = Enrol!NewAccount(c)]
      /\ v3' = Append(v3, v4[c].id)
      /\ UNCHANGED <<v2, v5, v6, v7, v8, v9, v10>>
      /\ \E s \in {"code", "mail"} : Enrol!GoTo(c, s)
  BY DEF Enrol!InsertAccount
<1>3. /\ v4' \in AccountCreations
      /\ \A d \in B : v4'[d].stage = "insert" => v4'[d] = v4[d]
  BY <1>0, <1>2, GoesTo
<1>4. v4'[c].stage # "insert" BY <1>1, <1>2 DEF Enrol!GoTo, AccountCreations
<1>5. v4[c].id \in Nat /\ v4[c].email \in A /\ v4[c].kind \in Enrol!Kinds \cup {"none"}
  BY <1>1 DEF AccountCreations
<1>6. Enrol!NewAccount(c) \in Enrol!Account
  <2>1. MaxCodes \in Nat BY MemberAccountsAssumed DEF Enrol!AccountsAssumption
  <2>2. PICK b \in BOOLEAN : b = (v4[c].kind = "byAdmin") OBVIOUS
  <2>3. Enrol!NewAccount(c)
           = [Enrol!NoAccount EXCEPT !.id = v4[c].id, !.kind = v4[c].kind,
                                              !.emailVerified = b]
    BY <2>2 DEF Enrol!NewAccount
  <2>4. Enrol!NewAccount(c)
           = [id |-> v4[c].id, kind |-> v4[c].kind, code |-> 0, emailVerified |-> b,
              opened |-> FALSE, changed |-> FALSE]
    BY <2>3 DEF Enrol!NoAccount
  <2>. QED BY <1>5, <2>1, <2>4 DEF Enrol!Account
<1>7. v1' \in [A -> Enrol!Account] BY <1>1, <1>2, <1>5, <1>6
<1>8. /\ v3' \in Seq(Nat) /\ Len(v3') = Len(v3) + 1
      /\ \A i \in DOMAIN v3' : v3'[i] = IF i <= Len(v3) THEN v3[i] ELSE v4[c].id
  BY <1>1, <1>2, <1>5, AppendProperties
<1>9. Enrol!TypeOK' BY <1>0, <1>2, <1>3, <1>7, <1>8 DEF Enrol!TypeOK, AccountCreations
<1>10. /\ v4[c].id <= v2
       /\ \A i \in DOMAIN v3 : v3[i] # v4[c].id /\ v3[i] <= v2
       /\ \A d \in B : v4[d].stage = "insert" /\ v4[d].id = v4[c].id => d = c
  BY <1>0, <1>2 DEF Enrol!NumbersAreTaken, Enrol!Takes
<1>11. \A i \in DOMAIN v3' : \/ i \in DOMAIN v3 /\ v3'[i] = v3[i]
                             \/ i = Len(v3) + 1 /\ v3'[i] = v4[c].id
  BY <1>1, <1>8
<1>12. Enrol!MembershipIdsUnique' BY <1>0, <1>10, <1>11 DEF Enrol!MembershipIdsUnique
<1>13. Enrol!NumbersAreTaken'
  <2>1. \A i \in DOMAIN v3' : v3'[i] <= v2' BY <1>2, <1>10, <1>11
  <2>2. \A d \in B : v4'[d].stage = "insert" => d # c /\ v4'[d] = v4[d] BY <1>3, <1>4
  <2>. QED BY <1>0, <1>2, <1>10, <1>11, <2>1, <2>2 DEF Enrol!NumbersAreTaken, Enrol!Takes
<1>. QED BY <1>9, <1>12, <1>13 DEF Enrol!AccountsInv

\* An account changes without its number, or is removed.
LEMMA AccountChanges ==
    ASSUME Enrol!AccountsInv, UNCHANGED <<v2, v3>>,
           \/ v4' = v4
           \/ \E c \in B : \E s \in {"new", "count", "code", "mail", "log", "done"} :
                  Enrol!GoTo(c, s),
           v1' \in [A -> Enrol!Account],
           v5' \subseteq (A \X Nat), v6' \subseteq A, v7' \subseteq A, v8' \subseteq A,
           v9' \in 0 .. MaxCodes, v10' \in 0 .. MaxRemovals
    PROVE  Enrol!AccountsInv'
<1>0. Enrol!TypeOK /\ Enrol!NumbersAreTaken /\ Enrol!MembershipIdsUnique BY DEF Enrol!AccountsInv
<1>1. v4' \in AccountCreations /\ \A d \in B : v4'[d].stage = "insert" => v4'[d] = v4[d]
  BY <1>0, GoesTo DEF Enrol!TypeOK, AccountCreations
<1>2. Enrol!TypeOK' BY <1>0, <1>1 DEF Enrol!TypeOK, AccountCreations
<1>3. Enrol!NumbersAreTaken' /\ Enrol!MembershipIdsUnique' BY <1>0, <1>1, NumbersStay
<1>. QED BY <1>2, <1>3 DEF Enrol!AccountsInv

LEMMA AccountsKept ==
    ASSUME Enrol!AccountsInv, Enrol!Next
    PROVE  Enrol!AccountsInv'
<1>0. Enrol!TypeOK BY DEF Enrol!AccountsInv
<1>. DEFINE Accounts == [A -> Enrol!Account]
<1>1. /\ v1 \in Accounts /\ v2 \in Nat /\ v5 \subseteq (A \X Nat) /\ v6 \subseteq A
      /\ v7 \subseteq A /\ v8 \subseteq A /\ v9 \in 0 .. MaxCodes /\ v10 \in 0 .. MaxRemovals
      /\ \A c \in B : v4[c].email \in A
      /\ MaxCodes \in Nat /\ MaxRemovals \in Nat
  BY <1>0, MemberAccountsAssumed DEF Enrol!TypeOK, Enrol!AccountsAssumption
<1>2. \A e \in A : \A n \in 0 .. MaxCodes :
          [v1 EXCEPT ![e].code = n] \in Accounts
  BY <1>1 DEF Enrol!Account
<1>3. ASSUME NEW c \in B, Enrol!EmailExists(c) \/ Enrol!StoreCode(c)
             \/ Enrol!MailCredentials(c) \/ Enrol!LogCreation(c)
             \/ Enrol!CreationBreaksOff(c)
      PROVE  Enrol!AccountsInv'
  <2>1. /\ UNCHANGED <<v2, v3, v5, v6, v7, v10>>
        /\ \E s \in {"new", "count", "code", "mail", "log", "done"} : Enrol!GoTo(c, s)
    BY <1>3 DEF Enrol!EmailExists, Enrol!StoreCode, Enrol!MailCredentials, Enrol!LogCreation,
     Enrol!CreationBreaksOff
  <2>2. v8' \subseteq A
    BY <1>1, <1>3 DEF Enrol!EmailExists, Enrol!StoreCode, Enrol!MailCredentials, Enrol!LogCreation,
     Enrol!CreationBreaksOff
  <2>3. v9' \in 0 .. MaxCodes /\ v1' \in Accounts
    <3>1. CASE Enrol!StoreCode(c)
      <4>1. v9' \in 0 .. MaxCodes /\ v9' = v9 + 1 BY <1>1, <3>1 DEF Enrol!StoreCode
      <4>2. v1' = v1 \/ v1' = [v1 EXCEPT ![v4[c].email].code = v9 + 1] BY <3>1 DEF Enrol!StoreCode
      <4>. QED BY <1>1, <1>2, <4>1, <4>2
    <3>2. CASE UNCHANGED <<v1, v9>> BY <1>1, <3>2
    <3>. QED
      BY <1>3, <3>1, <3>2 DEF Enrol!EmailExists, Enrol!MailCredentials, Enrol!LogCreation,
       Enrol!CreationBreaksOff
  <2>. QED BY <1>1, <2>1, <2>2, <2>3, AccountChanges
<1>4. ASSUME NEW e \in A, Enrol!ResendVerifyCode(e) \/ Enrol!CodeExpires(e)
             \/ Enrol!TrackEmailOpen(e) \/ Enrol!ChangeInitialPassword(e)
             \/ Enrol!Remove(e)
      PROVE  Enrol!AccountsInv'
  <2>1. UNCHANGED <<v2, v3, v4, v5, v6, v7, v8>>
    BY <1>4 DEF Enrol!ResendVerifyCode, Enrol!CodeExpires, Enrol!TrackEmailOpen,
     Enrol!ChangeInitialPassword, Enrol!Remove
  <2>2. v9' \in 0 .. MaxCodes /\ v10' \in 0 .. MaxRemovals
    BY <1>1, <1>4 DEF Enrol!ResendVerifyCode, Enrol!CodeExpires, Enrol!TrackEmailOpen,
     Enrol!ChangeInitialPassword, Enrol!Remove
  <2>3. Enrol!NoAccount \in Enrol!Account BY <1>1 DEF Enrol!NoAccount, Enrol!Account
  <2>4. v1' \in Accounts
    <3>1. CASE Enrol!ResendVerifyCode(e) BY <1>1, <1>2, <2>2, <3>1 DEF Enrol!ResendVerifyCode
    <3>2. CASE Enrol!CodeExpires(e) BY <1>1, <1>2, <3>2 DEF Enrol!CodeExpires
    <3>3. CASE Enrol!TrackEmailOpen(e) BY <1>1, <3>3 DEF Enrol!TrackEmailOpen, Enrol!Account
    <3>4. CASE Enrol!ChangeInitialPassword(e)
      BY <1>1, <3>4 DEF Enrol!ChangeInitialPassword, Enrol!Account
    <3>5. CASE Enrol!Remove(e) BY <1>1, <2>3, <3>5 DEF Enrol!Remove
    <3>. QED BY <1>4, <3>1, <3>2, <3>3, <3>4, <3>5
  <2>. QED BY <1>1, <2>1, <2>2, <2>4, AccountChanges
<1>5. ASSUME NEW e \in A, \/ Enrol!FindByCode(e) \/ Enrol!RemindMember(e)
                          \/ Enrol!SendPasswordChangeReminders
      PROVE  Enrol!AccountsInv'
  <2>1. UNCHANGED <<v1, v2, v3, v4, v8, v9, v10>>
    BY <1>5 DEF Enrol!FindByCode, Enrol!RemindMember, Enrol!SendPasswordChangeReminders
  <2>2. v1[e].id \in Nat BY <1>1 DEF Enrol!Account
  <2>3. v5' \subseteq (A \X Nat) /\ v6' \subseteq A /\ v7' \subseteq A
    BY <1>1, <1>5, <2>2 DEF Enrol!FindByCode, Enrol!RemindMember, Enrol!SendPasswordChangeReminders,
     Enrol!PendingMembers
  <2>. QED BY <1>1, <2>1, <2>3, AccountChanges
<1>6. ASSUME NEW e \in A, NEW id \in 1 .. v2, Enrol!VerifyEmail(e, id)
      PROVE  Enrol!AccountsInv'
  <2>1. UNCHANGED <<v2, v3, v4, v6, v7, v8, v9, v10>> /\ v5' \subseteq v5
    BY <1>6 DEF Enrol!VerifyEmail
  <2>2. v1' = v1 \/ v1' = [v1 EXCEPT ![e].emailVerified = TRUE, ![e].code = 0]
    BY <1>6 DEF Enrol!VerifyEmail
  <2>a. v1[e] \in Enrol!Account BY <1>1
  <2>b. 0 \in 0 .. MaxCodes BY <1>1
  <2>c. \A x \in Enrol!Account :
            [x EXCEPT !.emailVerified = TRUE, !.code = 0] \in Enrol!Account
    BY <2>b DEF Enrol!Account
  <2>3. [v1[e] EXCEPT !.emailVerified = TRUE, !.code = 0] \in Enrol!Account BY <2>a, <2>c
  <2>4. [v1 EXCEPT ![e].emailVerified = TRUE, ![e].code = 0]
           = [v1 EXCEPT ![e] = [v1[e] EXCEPT !.emailVerified = TRUE, !.code = 0]]
    BY <1>1 DEF Enrol!Account
  <2>5. v1' \in Accounts BY <1>1, <2>2, <2>3, <2>4
  <2>. QED BY <1>1, <2>1, <2>5, AccountChanges
<1>7. CASE Enrol!SendPasswordChangeReminders
  <2>1. PICK e \in A : TRUE BY MemberAccountsAssumed DEF Enrol!AccountsAssumption
  <2>. QED BY <1>5, <1>7, <2>1
<1>8. ASSUME NEW c \in B, NEW e \in A,
             Enrol!SignUp(c, e)
             \/ \E kind \in Enrol!Kinds \ {"signUp"} : Enrol!CreateMember(c, e, kind)
      PROVE  Enrol!AccountsInv'
  BY <1>8, CreationBegins
<1>. QED BY <1>3, <1>4, <1>5, <1>6, <1>7, <1>8, TakeNumberKeeps, InsertAccountKeeps DEF Enrol!Next

(* Numbers are taken from the counter by one creation each, and inserted   *)
(* by nobody else.                                                         *)
THEOREM AccountsCorrect == Spec => [](focus = "accounts" => Enrol!AccountsInv)
<1>. DEFINE Inv == focus = "accounts" => Enrol!AccountsInv
<1>1. Init => Inv BY AccountsStarts
<1>2. Inv /\ [Next]_vars => Inv'
  <2>. SUFFICES ASSUME Inv, [Next]_vars, focus' = "accounts"
                PROVE  Enrol!AccountsInv'
    OBVIOUS
  <2>1. focus = "accounts" BY DEF Next, vars
  <2>2. Enrol!Next \/ UNCHANGED AccountsVars BY <2>1, AccountsStep
  <2>3. CASE Enrol!Next BY <2>1, <2>3, AccountsKept
  <2>4. CASE UNCHANGED AccountsVars
    BY <2>1, <2>4 DEF AccountsVars, Enrol!AccountsInv, Enrol!TypeOK, Enrol!NumbersAreTaken,
     Enrol!Takes, Enrol!MembershipIdsUnique
  <2>. QED BY <2>2, <2>3, <2>4
<1>. QED BY <1>1, <1>2, PTL DEF Spec

(* No membership number is given to two accounts.                          *)
THEOREM NumbersAreUnique == Spec => []MembershipIdsUnique
<1>1. (focus = "accounts" => Enrol!AccountsInv) => MembershipIdsUnique
  BY DEF MembershipIdsUnique, Enrol!AccountsInv
<1>. QED BY <1>1, AccountsCorrect, PTL

(* MemberStanding: member is v1, transition v2, completion v3, ban v4,     *)
(* verification v5, settings v6, saving v7, requests v8, completions v9,   *)
(* promotions v10, disturbed v11 and faults v12.                           *)

StandingVars == <<v1, v2, v3, v4, v5, v6, v7, v8, v9, v10, v11, v12>>

LEMMA StandingStep ==
    ASSUME focus = "standing", [Next]_vars
    PROVE  focus' = "standing" /\ (Roles!Next \/ UNCHANGED StandingVars)
BY DEF Next, vars, StandingVars

Standings == [role : Roles!Roles, form : Nat, banned : BOOLEAN, active : BOOLEAN,
              verified : BOOLEAN, told : BOOLEAN, welcomed : BOOLEAN, preference : BOOLEAN]
Transitions == [id : 0..MaxRequests, form : 0..MaxRequests + 1,
                status : {"none", "pending", "completed", "failed"}]
Completion == [stage : {"idle", "populate", "promote", "delete"},
               id : 0..MaxRequests, form : 0..MaxRequests + 1, role : Roles!Roles]

LEMMA StandingStarts ==
    ASSUME focus = "standing", Init
    PROVE  Roles!StandingInv
<1>1. Roles!Init /\ MaxFaults \in Nat /\ MaxRequests \in Nat /\ MaxCompletions \in Nat
  BY MemberStandingAssumed DEF Init, Roles!StandingAssumption
<1>2. v1 \in Standings BY <1>1 DEF Roles!Init, Standings, Roles!Roles
<1>3. v2 \in Transitions /\ v2.id = 0 BY <1>1 DEF Roles!Init, Transitions, Roles!NoTransition
<1>4. v3 \in [A -> Completion] /\ \A a \in A : v3[a].stage = "idle"
  BY <1>1 DEF Roles!Init, Completion, Roles!IdleCompletion, Roles!Roles
<1>a. /\ v4 = "idle" /\ v5 = "idle" /\ v6 = TRUE
      /\ v7 = [d \in Roles!Clients |-> "idle"]
      /\ v8 = 0 /\ v9 = 0 /\ v10 = 0 /\ v11 = FALSE /\ v12 = 0
  BY <1>1, Zenon DEF Roles!Init
<1>b. v4 \in {"idle", "logBan", "logUnban"} /\ v5 \in {"idle", "log"}
      /\ v7 \in [Roles!Clients -> {"idle", "on", "off"}]
  BY <1>a
<1>c. v6 \in BOOLEAN /\ v11 \in BOOLEAN BY <1>a, Zenon
<1>d. v8 \in 0..MaxRequests /\ v9 \in 0..MaxCompletions /\ v10 \in Nat /\ v12 \in 0..MaxFaults
  BY <1>1, <1>a
<1>5. Roles!TypeOK
  BY <1>2, <1>3, <1>4, <1>b, <1>c, <1>d DEF Roles!TypeOK, Standings, Transitions, Completion
<1>6. Roles!OneCompletion /\ Roles!CompletesTheRequest
  BY <1>4 DEF Roles!OneCompletion, Roles!CompletesTheRequest, Roles!Completing
<1>7. Roles!PromotionsAreAskedFor
  BY <1>1, <1>3 DEF Roles!Init, Roles!PromotionsAreAskedFor, Roles!Promotes
<1>. QED BY <1>5, <1>6, <1>7 DEF Roles!StandingInv

\* Moderation and settings: the transitions are left alone.
LEMMA TransitionsStay ==
    ASSUME Roles!StandingInv, UNCHANGED <<v2, v3, v8, v9, v10, v11, v12>>,
           v1' \in Standings,
           v4' \in {"idle", "logBan", "logUnban"}, v5' \in {"idle", "log"},
           v6' \in BOOLEAN, v7' \in [Roles!Clients -> {"idle", "on", "off"}]
    PROVE  Roles!StandingInv'
BY DEF Roles!StandingInv, Roles!TypeOK, Standings, Roles!OneCompletion, Roles!CompletesTheRequest,
 Roles!Completing, Roles!PromotionsAreAskedFor, Roles!Promotes

\* The member's document with other values: what each write of it gives.
LEMMA MembersStay ==
    ASSUME NEW m \in Standings
    PROVE  /\ \A b, d \in BOOLEAN : [m EXCEPT !.banned = b, !.active = d, !.told = FALSE] \in Standings
           /\ \A b \in BOOLEAN : [m EXCEPT !.told = b] \in Standings
           /\ \A b \in BOOLEAN : [m EXCEPT !.active = b] \in Standings
           /\ \A b \in BOOLEAN : [m EXCEPT !.verified = b] \in Standings
           /\ \A b \in BOOLEAN : [m EXCEPT !.welcomed = b] \in Standings
           /\ \A b \in BOOLEAN : [m EXCEPT !.preference = b] \in Standings
           /\ \A r \in Roles!Roles, f \in Nat : [m EXCEPT !.role = r, !.form = f] \in Standings
BY DEF Standings

LEMMA ModerationKeeps ==
    ASSUME Roles!StandingInv,
           \/ \E banned \in BOOLEAN : Roles!WriteBan(banned)
           \/ Roles!LogBan \/ Roles!DeactivateMember
           \/ \E verified \in BOOLEAN : Roles!WriteVerification(verified)
           \/ Roles!LogVerification
           \/ \E d \in Roles!Clients :
                \/ \E value \in {"on", "off"} : Roles!UpsertSettings(d, value)
                \/ Roles!CopySettings(d)
    PROVE  Roles!StandingInv'
<1>0. /\ v1 \in Standings /\ v4 \in {"idle", "logBan", "logUnban"} /\ v5 \in {"idle", "log"}
      /\ v6 \in BOOLEAN /\ v7 \in [Roles!Clients -> {"idle", "on", "off"}]
  BY DEF Roles!StandingInv, Roles!TypeOK, Standings
<1>1. ASSUME NEW banned \in BOOLEAN, Roles!WriteBan(banned)
      PROVE  Roles!StandingInv'
  <2>1. /\ UNCHANGED <<v2, v3, v5, v6, v7, v8, v9, v10, v11, v12>>
        /\ v1' = [v1 EXCEPT !.banned = banned, !.active = ~banned, !.told = FALSE]
        /\ v4' \in {"logBan", "logUnban"}
    BY <1>1 DEF Roles!WriteBan, Roles!Transitions
  <2>2. v1' \in Standings BY <1>0, <2>1, MembersStay
  <2>. QED BY <1>0, <2>1, <2>2, TransitionsStay
<1>2. CASE Roles!LogBan
  <2>1. /\ UNCHANGED <<v2, v3, v5, v6, v7, v8, v9, v10, v11, v12>>
        /\ v1' = [v1 EXCEPT !.told = @ \/ ("moderation" \in Roles!LogTypes /\ v4 = "logBan")]
        /\ v4' = "idle"
    BY <1>2 DEF Roles!LogBan, Roles!Transitions
  <2>2. PICK b \in BOOLEAN :
            b = (v1.told \/ ("moderation" \in Roles!LogTypes /\ v4 = "logBan"))
    BY Zenon
  <2>3. v1' = [v1 EXCEPT !.told = b] BY <2>1, <2>2, Zenon
  <2>4. v1' \in Standings BY <1>0, <2>2, <2>3, MembersStay
  <2>. QED BY <1>0, <2>1, <2>4, TransitionsStay
<1>3. CASE Roles!DeactivateMember
  <2>1. /\ UNCHANGED <<v2, v3, v4, v5, v6, v7, v8, v9, v10, v11, v12>>
        /\ v1' = [v1 EXCEPT !.active = ~@]
    BY <1>3 DEF Roles!DeactivateMember, Roles!Transitions
  <2>2. PICK b \in BOOLEAN : b = ~v1.active BY Zenon
  <2>3. v1' = [v1 EXCEPT !.active = b] BY <2>1, <2>2, Zenon
  <2>4. v1' \in Standings BY <1>0, <2>2, <2>3, MembersStay
  <2>. QED BY <1>0, <2>1, <2>4, TransitionsStay
<1>4. ASSUME NEW verified \in BOOLEAN, Roles!WriteVerification(verified)
      PROVE  Roles!StandingInv'
  <2>1. /\ UNCHANGED <<v2, v3, v4, v6, v7, v8, v9, v10, v11, v12>>
        /\ v1' = [v1 EXCEPT !.verified = verified] /\ v5' = "log"
    BY <1>4 DEF Roles!WriteVerification, Roles!Transitions
  <2>2. v1' \in Standings BY <1>0, <2>1, MembersStay
  <2>. QED BY <1>0, <2>1, <2>2, TransitionsStay
<1>5. CASE Roles!LogVerification
  <2>1. /\ UNCHANGED <<v2, v3, v4, v6, v7, v8, v9, v10, v11, v12>>
        /\ v1' = [v1 EXCEPT !.welcomed =
                    @ \/ ("verification" \in Roles!LogTypes /\ v1.verified)]
        /\ v5' = "idle"
    BY <1>5 DEF Roles!LogVerification, Roles!Transitions
  <2>2. PICK b \in BOOLEAN :
            b = (v1.welcomed \/ ("verification" \in Roles!LogTypes /\ v1.verified))
    BY Zenon
  <2>3. v1' = [v1 EXCEPT !.welcomed = b] BY <2>1, <2>2, Zenon
  <2>4. v1' \in Standings BY <1>0, <2>2, <2>3, MembersStay
  <2>. QED BY <1>0, <2>1, <2>4, TransitionsStay
<1>6. ASSUME NEW d \in Roles!Clients, NEW value \in {"on", "off"},
             Roles!UpsertSettings(d, value)
      PROVE  Roles!StandingInv'
  <2>1. /\ UNCHANGED <<v1, v2, v3, v4, v5, v8, v9, v10, v11, v12>>
        /\ v6' = (value = "on") /\ v7' = [v7 EXCEPT ![d] = value]
    BY <1>6 DEF Roles!UpsertSettings, Roles!Transitions
  <2>2. v6' \in BOOLEAN /\ v7' \in [Roles!Clients -> {"idle", "on", "off"}] BY <1>0, <2>1
  <2>. QED BY <1>0, <2>1, <2>2, TransitionsStay
<1>7. ASSUME NEW d \in Roles!Clients, Roles!CopySettings(d)
      PROVE  Roles!StandingInv'
  <2>1. /\ UNCHANGED <<v2, v3, v4, v5, v6, v8, v9, v10, v11, v12>>
        /\ v1' = [v1 EXCEPT !.preference = (v7[d] = "on")]
        /\ v7' = [v7 EXCEPT ![d] = "idle"]
    BY <1>7 DEF Roles!CopySettings, Roles!Transitions
  <2>2. PICK b \in BOOLEAN : b = (v7[d] = "on") BY Zenon
  <2>3. v1' = [v1 EXCEPT !.preference = b] BY <2>1, <2>2, Zenon
  <2>4. v1' \in Standings BY <1>0, <2>2, <2>3, MembersStay
  <2>5. v7' \in [Roles!Clients -> {"idle", "on", "off"}] BY <1>0, <2>1
  <2>. QED BY <1>0, <2>1, <2>4, <2>5, TransitionsStay
<1>. QED BY <1>1, <1>2, <1>3, <1>4, <1>5, <1>6, <1>7

\* The document of the transition alone is written.
LEMMA FormsChange ==
    ASSUME Roles!StandingInv, UNCHANGED <<v1, v3, v4, v5, v6, v7, v8, v9, v10, v11, v12>>,
           v2' \in Transitions, v2'.id = v2.id
    PROVE  Roles!StandingInv'
BY DEF Roles!StandingInv, Roles!TypeOK, Transitions, Roles!OneCompletion, Roles!CompletesTheRequest,
 Roles!Completing, Roles!PromotionsAreAskedFor, Roles!Promotes

LEMMA CompletionsKeep ==
    ASSUME Roles!StandingInv, NEW a \in A,
           \/ \E id \in 1..MaxRequests : Roles!CompleteTransition(a, id)
           \/ Roles!PopulateUser(a) \/ Roles!Promote(a)
           \/ Roles!DeleteTransition(a) \/ Roles!CompletionBreaksOff(a)
    PROVE  Roles!StandingInv'
<1>0. /\ Roles!TypeOK
      /\ v11 \/ (Roles!OneCompletion /\ Roles!CompletesTheRequest
                 /\ Roles!PromotionsAreAskedFor)
  BY DEF Roles!StandingInv
<1>1. /\ v1 \in Standings /\ v2 \in Transitions /\ v3 \in [A -> Completion]
      /\ v8 \in 0..MaxRequests /\ v9 \in 0..MaxCompletions /\ v10 \in Nat
      /\ v11 \in BOOLEAN /\ v12 \in 0..MaxFaults
      /\ MaxRequests \in Nat /\ MaxCompletions \in Nat /\ MaxFaults \in Nat
  BY <1>0, MemberStandingAssumed DEF Roles!TypeOK, Standings, Transitions, Completion,
   Roles!StandingAssumption
<1>a. \A r \in Roles!Roles, x \in Completion :
        LET y == [x EXCEPT !.stage = "promote", !.role = r]
        IN  y \in Completion /\ y.stage = "promote" /\ y.id = x.id
  BY DEF Completion
<1>b. \A x \in Completion :
        LET y == [x EXCEPT !.stage = "delete"]
        IN  y \in Completion /\ y.stage = "delete" /\ y.id = x.id
  BY DEF Completion
<1>2. ASSUME NEW id \in 1..MaxRequests, Roles!CompleteTransition(a, id)
      PROVE  Roles!StandingInv'
  <2>. DEFINE new == [stage |-> "populate", id |-> id, form |-> v2.form, role |-> "Student"]
  <2>1. /\ v3[a].stage = "idle" /\ v9 < MaxCompletions /\ v9' = v9 + 1
        /\ v2.id = id /\ v2' = [v2 EXCEPT !.status = "completed"]
        /\ v3' = [v3 EXCEPT ![a] = new]
        /\ v11' = (v11 \/ \E b \in A : v3[b].stage # "idle")
        /\ UNCHANGED <<v1, v4, v5, v6, v7, v8, v10, v12>>
    BY <1>2 DEF Roles!CompleteTransition, Roles!Found, Roles!Standing
  <2>2. v2' \in Transitions /\ v2'.id = id /\ id # 0 BY <1>1, <2>1 DEF Transitions
  <2>3. new \in Completion /\ new.stage = "populate" /\ new.id = id
    <3>1. id \in 0..MaxRequests /\ v2.form \in 0..MaxRequests + 1 /\ "Student" \in Roles!Roles
      BY <1>1 DEF Transitions, Roles!Roles
    <3>. QED BY <3>1 DEF Completion
  <2>. HIDE DEF new
  <2>4. /\ v3' \in [A -> Completion] /\ v3'[a].stage = "populate" /\ v3'[a].id = id
        /\ \A b \in A \ {a} : v3'[b] = v3[b]
    BY <1>1, <2>1, <2>3
  <2>5. v9' \in 0..MaxCompletions /\ v11' \in BOOLEAN BY <1>1, <2>1
  <2>6. Roles!TypeOK' BY <1>0, <2>1, <2>2, <2>4, <2>5 DEF Roles!TypeOK, Transitions, Completion
  <2>7. ASSUME ~v11'
        PROVE  /\ Roles!OneCompletion' /\ Roles!CompletesTheRequest'
               /\ Roles!PromotionsAreAskedFor'
    <3>1. ~v11 /\ \A b \in A : v3[b].stage = "idle" BY <2>1, <2>7
    <3>2. \A b \in A : v3'[b].stage # "idle" => b = a BY <2>4, <3>1
    <3>3. Roles!OneCompletion' /\ Roles!CompletesTheRequest'
      BY <2>2, <2>4, <3>2 DEF Roles!OneCompletion, Roles!CompletesTheRequest, Roles!Completing
    <3>4. Roles!Promotes BY <2>1, <2>2, <3>1 DEF Roles!Promotes
    <3>5. v10 < v8 /\ v10 <= v8 BY <1>0, <3>1, <3>4 DEF Roles!PromotionsAreAskedFor
    <3>. QED BY <2>1, <3>3, <3>5 DEF Roles!PromotionsAreAskedFor
  <2>. QED BY <2>6, <2>7 DEF Roles!StandingInv
<1>3. CASE Roles!PopulateUser(a)
  <2>1. /\ v3[a].stage = "populate"
        /\ v3' = [v3 EXCEPT ![a].stage = "promote", ![a].role = v1.role]
        /\ UNCHANGED <<v1, v2, v4, v5, v6, v7, v8, v9, v10, v11, v12>>
    BY <1>3 DEF Roles!PopulateUser, Roles!Standing
  <2>2. v1.role \in Roles!Roles /\ v3[a] \in Completion BY <1>1 DEF Standings
  <2>3. v3' = [v3 EXCEPT ![a] = [v3[a] EXCEPT !.stage = "promote", !.role = v1.role]]
    BY <1>1, <2>1 DEF Completion
  <2>4. /\ v3' \in [A -> Completion] /\ v3'[a].stage = "promote" /\ v3'[a].id = v3[a].id
        /\ \A b \in A \ {a} : v3'[b] = v3[b]
    BY <1>1, <1>a, <2>2, <2>3
  <2>5. Roles!TypeOK' BY <1>0, <2>1, <2>4 DEF Roles!TypeOK, Completion
  <2>6. Roles!OneCompletion => Roles!OneCompletion'
    BY <2>1, <2>4 DEF Roles!OneCompletion, Roles!Completing
  <2>7. Roles!CompletesTheRequest => Roles!CompletesTheRequest'
    BY <2>1, <2>4 DEF Roles!CompletesTheRequest, Roles!Completing
  <2>8. Roles!PromotionsAreAskedFor => Roles!PromotionsAreAskedFor'
    BY <2>1, <2>4 DEF Roles!PromotionsAreAskedFor, Roles!Promotes
  <2>. QED BY <1>0, <2>1, <2>5, <2>6, <2>7, <2>8 DEF Roles!StandingInv
<1>4. CASE Roles!Promote(a)
  <2>1. /\ v3[a].stage = "promote"
        /\ v1' = [v1 EXCEPT !.role = Roles!Promoted(v3[a].role), !.form = v3[a].form]
        /\ v10' = IF v1'.role # v1.role THEN v10 + 1 ELSE v10
        /\ v3' = [v3 EXCEPT ![a].stage = "delete"]
        /\ UNCHANGED <<v2, v4, v5, v6, v7, v8, v9, v11, v12>>
    BY <1>4 DEF Roles!Promote, Roles!Standing
  <2>2. v3[a] \in Completion /\ v3[a].form \in Nat
        /\ Roles!Promoted(v3[a].role) \in Roles!Roles
    BY <1>1 DEF Completion, Roles!Promoted, Roles!Roles
  <2>3. v1' \in Standings BY <1>1, <2>1, <2>2, MembersStay
  <2>4. v3' = [v3 EXCEPT ![a] = [v3[a] EXCEPT !.stage = "delete"]] BY <1>1, <2>1 DEF Completion
  <2>5. /\ v3' \in [A -> Completion] /\ v3'[a].stage = "delete" /\ v3'[a].id = v3[a].id
        /\ \A b \in A \ {a} : v3'[b] = v3[b]
    BY <1>1, <1>b, <2>2, <2>4
  <2>6. v10' \in Nat /\ v10' <= v10 + 1 BY <1>1, <2>1
  <2>7. Roles!TypeOK' BY <1>0, <2>1, <2>3, <2>5, <2>6 DEF Roles!TypeOK, Completion, Standings
  <2>8. ASSUME Roles!OneCompletion, Roles!CompletesTheRequest,
               Roles!PromotionsAreAskedFor
        PROVE  /\ Roles!OneCompletion' /\ Roles!CompletesTheRequest'
               /\ Roles!PromotionsAreAskedFor'
    <3>1. Roles!OneCompletion' /\ Roles!CompletesTheRequest'
      BY <2>1, <2>5, <2>8 DEF Roles!OneCompletion, Roles!CompletesTheRequest, Roles!Completing
    <3>2. Roles!Promotes
      BY <2>1, <2>8 DEF Roles!Promotes, Roles!OneCompletion, Roles!CompletesTheRequest,
       Roles!Completing
    <3>3. ~Roles!Promotes' BY <2>5 DEF Roles!Promotes
    <3>4. v10' <= v8' BY <1>1, <2>1, <2>6, <2>8, <3>2 DEF Roles!PromotionsAreAskedFor
    <3>. QED BY <3>1, <3>3, <3>4 DEF Roles!PromotionsAreAskedFor
  <2>. QED BY <1>0, <2>1, <2>7, <2>8 DEF Roles!StandingInv
<1>5. CASE Roles!DeleteTransition(a)
  <2>1. /\ v3[a].stage = "delete"
        /\ v2' = IF v2.id = v3[a].id THEN Roles!NoTransition ELSE v2
        /\ v3' = [v3 EXCEPT ![a] = Roles!IdleCompletion]
        /\ UNCHANGED <<v1, v4, v5, v6, v7, v8, v9, v10, v11, v12>>
    BY <1>5 DEF Roles!DeleteTransition, Roles!Standing
  <2>2. Roles!NoTransition \in Transitions /\ Roles!NoTransition.id = 0
    BY <1>1 DEF Roles!NoTransition, Transitions
  <2>3. Roles!IdleCompletion \in Completion /\ Roles!IdleCompletion.stage = "idle"
    BY <1>1 DEF Roles!IdleCompletion, Completion, Roles!Roles
  <2>4. /\ v2' \in Transitions /\ v3' \in [A -> Completion] /\ v3'[a].stage = "idle"
        /\ \A b \in A \ {a} : v3'[b] = v3[b]
    BY <1>1, <2>1, <2>2, <2>3
  <2>5. Roles!TypeOK' BY <1>0, <2>1, <2>4 DEF Roles!TypeOK, Transitions, Completion
  <2>6. ASSUME Roles!OneCompletion, Roles!CompletesTheRequest,
               Roles!PromotionsAreAskedFor
        PROVE  /\ Roles!OneCompletion' /\ Roles!CompletesTheRequest'
               /\ Roles!PromotionsAreAskedFor'
    <3>1. \A b \in A : v3'[b].stage = "idle"
      BY <2>1, <2>4, <2>6 DEF Roles!OneCompletion, Roles!Completing
    <3>2. v2'.id = 0 BY <2>1, <2>2, <2>6 DEF Roles!CompletesTheRequest, Roles!Completing
    <3>. QED
      BY <2>1, <2>6, <3>1, <3>2 DEF Roles!OneCompletion, Roles!Completing,
       Roles!CompletesTheRequest, Roles!PromotionsAreAskedFor, Roles!Promotes
  <2>. QED BY <1>0, <2>1, <2>5, <2>6 DEF Roles!StandingInv
<1>6. CASE Roles!CompletionBreaksOff(a)
  <2>1. /\ v12 < MaxFaults /\ v12' = v12 + 1 /\ v11' = TRUE
        /\ v3' = [v3 EXCEPT ![a] = Roles!IdleCompletion]
        /\ UNCHANGED <<v1, v2, v4, v5, v6, v7, v8, v9, v10>>
    BY <1>6 DEF Roles!CompletionBreaksOff, Roles!Standing
  <2>2. v12' \in 0..MaxFaults /\ v3' \in [A -> Completion]
    BY <1>1, <2>1 DEF Roles!IdleCompletion, Completion, Roles!Roles
  <2>. QED BY <1>0, <2>1, <2>2 DEF Roles!TypeOK, Completion, Roles!StandingInv
<1>. QED BY <1>2, <1>3, <1>4, <1>5, <1>6

LEMMA StandingKept ==
    ASSUME Roles!StandingInv, Roles!Next
    PROVE  Roles!StandingInv'
<1>0. Roles!TypeOK BY DEF Roles!StandingInv
<1>1. v2 \in Transitions /\ v8 \in 0..MaxRequests /\ MaxRequests \in Nat /\ v10 \in Nat
  BY <1>0, MemberStandingAssumed DEF Roles!TypeOK, Transitions, Roles!StandingAssumption
<1>2. CASE Roles!CreateTransition
  <2>1. /\ v8 < MaxRequests /\ v2.id = 0 /\ v8' = v8 + 1
        /\ v2' = [id |-> v8 + 1, form |-> 0, status |-> "pending"]
        /\ UNCHANGED <<v1, v3, v4, v5, v6, v7, v9, v10, v11, v12>>
    BY <1>2 DEF Roles!CreateTransition, Roles!Standing
  <2>2. v8' \in 0..MaxRequests /\ v2' \in Transitions BY <1>1, <2>1 DEF Transitions
  <2>3. Roles!TypeOK' BY <1>0, <2>1, <2>2 DEF Roles!TypeOK, Transitions
  <2>4. ASSUME Roles!CompletesTheRequest, Roles!PromotionsAreAskedFor
        PROVE  Roles!CompletesTheRequest' /\ Roles!PromotionsAreAskedFor'
    <3>1. \A b \in A : v3[b].stage = "idle"
      BY <2>1, <2>4 DEF Roles!CompletesTheRequest, Roles!Completing
    <3>2. v10' < v8' BY <1>1, <2>1, <2>4 DEF Roles!PromotionsAreAskedFor
    <3>3. v10' <= v8' BY <1>1, <2>1, <2>4 DEF Roles!PromotionsAreAskedFor
    <3>. QED
      BY <2>1, <3>1, <3>2, <3>3 DEF Roles!CompletesTheRequest, Roles!Completing,
       Roles!PromotionsAreAskedFor
  <2>5. Roles!OneCompletion => Roles!OneCompletion'
    BY <2>1 DEF Roles!OneCompletion, Roles!Completing
  <2>. QED BY <2>1, <2>3, <2>4, <2>5 DEF Roles!StandingInv
<1>3. CASE Roles!EditTransition \/ \E a \in A : Roles!FailTransition(a)
  <2>1. /\ v2' = [v2 EXCEPT !.form = 1] \/ v2' = [v2 EXCEPT !.status = "failed"]
        /\ UNCHANGED <<v1, v3, v4, v5, v6, v7, v8, v9, v10, v11, v12>>
    BY <1>3 DEF Roles!EditTransition, Roles!FailTransition, Roles!Standing
  <2>2. v2' \in Transitions /\ v2'.id = v2.id BY <1>1, <2>1 DEF Transitions
  <2>. QED BY <2>1, <2>2, FormsChange
<1>. QED BY <1>2, <1>3, CompletionsKeep, ModerationKeeps DEF Roles!Next

(* Unless completions overlapped or broke off, one at a time works on the  *)
(* request that is there, and a request promotes once.                     *)
THEOREM StandingCorrect == Spec => [](focus = "standing" => Roles!StandingInv)
<1>. DEFINE Inv == focus = "standing" => Roles!StandingInv
<1>1. Init => Inv BY StandingStarts
<1>2. Inv /\ [Next]_vars => Inv'
  <2>. SUFFICES ASSUME Inv, [Next]_vars, focus' = "standing"
                PROVE  Roles!StandingInv'
    OBVIOUS
  <2>1. focus = "standing" BY DEF Next, vars
  <2>2. Roles!Next \/ UNCHANGED StandingVars BY <2>1, StandingStep
  <2>3. CASE Roles!Next BY <2>1, <2>3, StandingKept
  <2>4. CASE UNCHANGED StandingVars
    BY <2>1, <2>4, TransitionsStay DEF StandingVars, Roles!StandingInv, Roles!TypeOK, Standings
  <2>. QED BY <2>2, <2>3, <2>4
<1>. QED BY <1>1, <1>2, PTL DEF Spec

(* Nobody is promoted more often than he asked, unless completions         *)
(* overlapped or one broke off.                                            *)
THEOREM MembersArePromotedOnce == Spec => []PromotedOnce
<1>1. (focus = "standing" => Roles!StandingInv) => PromotedOnce
  <2>. SUFFICES ASSUME focus = "standing", Roles!StandingInv, v10 > v8
                PROVE  v11
    BY DEF PromotedOnce, Roles!PromotedOnce
  <2>1. v10 \in Nat /\ v8 \in Int BY DEF Roles!StandingInv, Roles!TypeOK
  <2>. QED BY <2>1 DEF Roles!StandingInv, Roles!PromotionsAreAskedFor
<1>. QED BY <1>1, StandingCorrect, PTL

LEMMA BillingStep ==
    ASSUME focus = "billing", [Next]_vars
    PROVE  focus' = "billing" /\ (Bills!Next \/ UNCHANGED BillingVars)
BY DEF Next, vars, BillingVars

(* What a renewal has read is on the course that the stored date follows,  *)
(* unless a date set by hand crossed it, and reminders reckon from the     *)
(* note that is stored, unless they overlapped.                            *)
THEOREM BillingCorrect == Spec => [](focus = "billing" => Bills!BillingInv)
<1>. DEFINE Inv == focus = "billing" => Bills!BillingInv
<1>1. Init => Inv BY BillingStarts DEF Init
<1>2. Inv /\ [Next]_vars => Inv'
  <2>. SUFFICES ASSUME focus = "billing", Bills!BillingInv, [Next]_vars
                PROVE  Bills!BillingInv'
    BY DEF Next, vars
  <2>. QED BY BillingStep, BillingGoesOn
<1>. QED BY <1>1, <1>2, PTL DEF Spec

(* From the date last set by hand the renewal date goes on by the calendar *)
(* for every renewal, by fewer cycles only where renewals overlapped; and  *)
(* no day has two reminders unless runs overlapped or broke off.           *)
THEOREM RenewalsAdvanceAlways == Spec => []RenewalsAdvance
<1>1. (focus = "billing" => Bills!BillingInv) => RenewalsAdvance
  BY DEF RenewalsAdvance, Bills!BillingInv
<1>. QED BY <1>1, BillingCorrect, PTL

LEMMA RemindersStep ==
    ASSUME focus = "reminders", [Next]_vars
    PROVE  focus' = "reminders" /\ (Remind!Next \/ UNCHANGED RemindersVars)
BY DEF Next, vars, RemindersVars

(* A reminder that is marked is delivered, unwanted, abandoned by a run    *)
(* that stopped, or in the hands of one run, whatever the runs of          *)
(* deliverDueEventReminders do to each other.                              *)
THEOREM RemindersCorrect == Spec => [](focus = "reminders" => Remind!RemindersInv)
<1>1. Init => (focus = "reminders" => Remind!RemindersInv) BY RemindersStart DEF Init
<1>2. (focus = "reminders" => Remind!RemindersInv) /\ [Next]_vars
        => (focus = "reminders" => Remind!RemindersInv)'
  <2>. SUFFICES ASSUME focus = "reminders" => Remind!RemindersInv, [Next]_vars,
                       focus' = "reminders"
                PROVE  Remind!RemindersInv'
    OBVIOUS
  <2>1. focus = "reminders" BY DEF Next, vars
  <2>. QED BY <2>1, RemindersStep, RemindersKept
<1>. QED BY <1>1, <1>2, PTL DEF Spec

LEMMA EmailsStep ==
    ASSUME focus = "emails", [Next]_vars
    PROVE  focus' = "emails" /\ (Daily!Next \/ UNCHANGED EmailVars)
BY DEF Next, vars, EmailVars

(* A day's e-mails are sent, missed or in the hands of a run, and a single *)
(* worker owes nobody an e-mail that it has sent already.                  *)
THEOREM EmailsCorrect == Spec => [](focus = "emails" => Daily!EmailsInv)
<1>1. Init => (focus = "emails" => EmailCore) BY EmailsStart DEF Init
<1>2. (focus = "emails" => EmailCore) /\ [Next]_vars => (focus = "emails" => EmailCore)'
  <2>. SUFFICES ASSUME focus = "emails" => EmailCore, [Next]_vars, focus' = "emails"
                PROVE  EmailCore'
    OBVIOUS
  <2>1. focus = "emails" BY DEF Next, vars
  <2>. QED BY <2>1, EmailsStep, EmailsKept
<1>3. EmailCore => Daily!EmailsInv BY EmailsFollow DEF EmailCore, Single, Daily!EmailsInv
<1>4. (focus = "emails" => EmailCore) => (focus = "emails" => Daily!EmailsInv) BY <1>3
<1>. QED BY <1>1, <1>2, <1>4, PTL DEF Spec

(* A reminder of an event goes out again only where a channel took it and  *)
(* the run was told otherwise or nothing, and what is marked was delivered *)
(* or is accounted for; with one worker no daily e-mail goes out twice,    *)
(* and who was due on a day that is over was e-mailed unless that failed.  *)
THEOREM RemindersRepeatOnlyInDoubt == Spec => []RemindedOnce
<1>1. (focus = "reminders" => Remind!RemindersInv)
        /\ (focus = "emails" => Daily!EmailsInv) => RemindedOnce
  BY Zenon DEF RemindedOnce, Remind!RemindersInv, Daily!EmailsInv, Daily!MailedOnce
<1>. QED BY <1>1, RemindersCorrect, EmailsCorrect, PTL

(* Inbox: item is v1, held v2, finding v3, shown v4, made v5 and touches v6. *)

LEMMA NewerThanNewer ==
    ASSUME NEW i \in Inbox!Items, NEW j \in Inbox!Items, NEW l \in Inbox!Items,
           Inbox!UpTo(i, j), Inbox!UpTo(j, l)
    PROVE  Inbox!UpTo(i, l)
<1>. MaxMade \in Nat /\ MaxTouches \in Nat BY InboxAssumed DEF Inbox!InboxAssumption
<1>. /\ i.made \in Nat /\ i.touched \in Nat /\ j.made \in Nat /\ j.touched \in Nat
     /\ l.made \in Nat /\ l.touched \in Nat
  BY DEF Inbox!Items
<1>. QED BY DEF Inbox!UpTo, Inbox!Newer

LEMMA TouchedIsNewer ==
    ASSUME NEW i, NEW j, i.touched \in Nat, j.touched = i.touched + 1, j.made = i.made
    PROVE  Inbox!UpTo(i, j)
BY DEF Inbox!UpTo, Inbox!Newer

LEMMA InboxTypes ==
    ASSUME Inbox!InboxInv
    PROVE  /\ MaxMade \in Nat /\ MaxTouches \in Nat
           /\ v1 \in [Keys -> Inbox!Items] /\ v2 \in [Inbox!Holders -> [Keys -> Inbox!Items]]
           /\ v3 \in [A -> SUBSET Keys] /\ v4 \in [B -> [Keys -> Inbox!Items]]
           /\ v5 \in 0 .. MaxMade /\ v6 \in 0 .. MaxTouches
           /\ Inbox!NoCopy \in Inbox!Items
           /\ Inbox!Nothing \in [Keys -> Inbox!Items]
           /\ \A k \in Keys : v1[k].made \in Nat /\ v1[k].touched \in Nat
                              /\ v1[k].made <= v5 /\ v1[k].touched <= v6
           /\ \A c \in A : <<"sender", c>> \in Inbox!Holders
           /\ \A s \in B : <<"screen", s>> \in Inbox!Holders
<1>1. /\ MaxMade \in Nat /\ MaxTouches \in Nat
      /\ v1 \in [Keys -> Inbox!Items] /\ v2 \in [Inbox!Holders -> [Keys -> Inbox!Items]]
      /\ v3 \in [A -> SUBSET Keys] /\ v4 \in [B -> [Keys -> Inbox!Items]]
      /\ v5 \in 0 .. MaxMade /\ v6 \in 0 .. MaxTouches
  BY InboxAssumed DEF Inbox!InboxAssumption, Inbox!InboxInv, Inbox!TypeOK
<1>2. Inbox!NoCopy \in Inbox!Items BY <1>1 DEF Inbox!NoCopy, Inbox!New, Inbox!Items
<1>3. Inbox!Nothing \in [Keys -> Inbox!Items] BY <1>2 DEF Inbox!Nothing
<1>4. ASSUME NEW k \in Keys
      PROVE  v1[k].made \in Nat /\ v1[k].touched \in Nat /\ v1[k].made <= v5 /\ v1[k].touched <= v6
  BY <1>1 DEF Inbox!InboxInv, Inbox!Counted, Inbox!Items
<1>. QED BY <1>1, <1>2, <1>3, <1>4 DEF Inbox!Holders

\* What a step does: items go forward, what is on its way is let go or is the
\* item as it is now, and a device shows what it did or what was on its way.
ItemsGoForward ==
    /\ v1' \in [Keys -> Inbox!Items] /\ Inbox!Counted'
    /\ \A k \in Keys : Inbox!UpTo(v1[k], v1'[k])

CopiesAreTaken ==
    /\ v2' \in [Inbox!Holders -> [Keys -> Inbox!Items]]
    /\ \A h \in Inbox!Holders, k \in Keys : v2'[h][k] \in {v2[h][k], Inbox!NoCopy, v1'[k]}

CopiesAreShown ==
    /\ v4' \in [B -> [Keys -> Inbox!Items]]
    /\ \A s \in B, k \in Keys :
         \/ v4'[s][k] = v4[s][k]
         \/ \E h \in Inbox!Holders : v2[h][k] # Inbox!NoCopy /\ v4'[s][k] = v2[h][k]

InboxStepsOn ==
    /\ ItemsGoForward /\ CopiesAreTaken /\ CopiesAreShown
    /\ v3' \in [A -> SUBSET Keys] /\ v5' \in 0 .. MaxMade /\ v6' \in 0 .. MaxTouches

LEMMA UpsertGoesForward ==
    ASSUME Inbox!InboxInv, NEW c \in A, NEW k \in Keys, Inbox!Upsert(c, k)
    PROVE  /\ ItemsGoForward /\ CopiesAreShown
           /\ v5' \in 0 .. MaxMade /\ v6' \in 0 .. MaxTouches
<1>1. /\ v1' = [v1 EXCEPT ![k] = Inbox!SetOnInsert(v1[k])]
      /\ v5' = v5 + 1 /\ v5 < MaxMade /\ v4' = v4 /\ v6' = v6
  BY InboxTypes DEF Inbox!Upsert
<1>2. /\ Inbox!SetOnInsert(v1[k]) \in Inbox!Items
      /\ Inbox!SetOnInsert(v1[k]).made <= v5 + 1 /\ Inbox!SetOnInsert(v1[k]).touched <= v6
      /\ Inbox!SetOnInsert(v1[k]).there => Inbox!SetOnInsert(v1[k]).made > 0
      /\ Inbox!UpTo(v1[k], Inbox!SetOnInsert(v1[k]))
  <2>1. CASE v1[k].there
    BY <1>1, <2>1, InboxTypes DEF Inbox!SetOnInsert, Inbox!UpTo, Inbox!InboxInv, Inbox!Counted
  <2>2. CASE ~v1[k].there
    <3>1. Inbox!SetOnInsert(v1[k]) = Inbox!New(v1[k].made + 1) BY <2>2 DEF Inbox!SetOnInsert
    <3>. QED BY <1>1, <3>1, InboxTypes DEF Inbox!New, Inbox!Items, Inbox!UpTo, Inbox!Newer
  <2>. QED BY <2>1, <2>2
<1>3. v1' \in [Keys -> Inbox!Items] BY <1>1, <1>2, InboxTypes
<1>4. Inbox!Counted'
  BY <1>1, <1>2, InboxTypes DEF Inbox!Counted, Inbox!InboxInv
<1>5. \A l \in Keys : Inbox!UpTo(v1[l], v1'[l])
  BY <1>1, <1>2, InboxTypes DEF Inbox!UpTo
<1>. QED BY <1>1, <1>3, <1>4, <1>5, InboxTypes DEF ItemsGoForward, CopiesAreShown

\* A change of some items counts one up in each of them.
LEMMA TouchGoesForward ==
    ASSUME Inbox!InboxInv, Inbox!Touch, v1' \in [Keys -> [made : 0 .. MaxMade, touched : Nat,
             there : BOOLEAN, read : BOOLEAN, deleted : BOOLEAN]],
           \A k \in Keys : \/ v1'[k] = v1[k]
                           \/ /\ v1'[k].made = v1[k].made /\ v1'[k].touched = v1[k].touched + 1
                              /\ v1'[k].there => v1[k].there
    PROVE  /\ ItemsGoForward /\ CopiesAreShown /\ v3' \in [A -> SUBSET Keys]
           /\ v5' \in 0 .. MaxMade /\ v6' \in 0 .. MaxTouches
<1>1. v6' = v6 + 1 /\ v6 < MaxTouches /\ v3' = v3 /\ v4' = v4 /\ v5' = v5
  BY InboxTypes DEF Inbox!Touch
<1>2. ASSUME NEW k \in Keys
      PROVE  /\ v1'[k] \in Inbox!Items /\ v1'[k].made <= v5' /\ v1'[k].touched <= v6'
             /\ v1'[k].there => v1'[k].made > 0
             /\ Inbox!UpTo(v1[k], v1'[k])
  <2>1. /\ v1[k] \in Inbox!Items /\ v1[k].made <= v5 /\ v1[k].touched <= v6
        /\ v1[k].made \in Nat /\ v1[k].touched \in Nat
        /\ v1[k].there => v1[k].made > 0
    BY InboxTypes DEF Inbox!InboxInv, Inbox!Counted
  <2>2. CASE v1'[k] = v1[k] BY <1>1, <2>1, <2>2, InboxTypes DEF Inbox!UpTo
  <2>3. CASE /\ v1'[k].made = v1[k].made /\ v1'[k].touched = v1[k].touched + 1
             /\ v1'[k].there => v1[k].there
    <3>1. v1'[k].touched <= MaxTouches /\ v1'[k].touched \in Nat BY <1>1, <2>1, <2>3, InboxTypes
    <3>2. v1'[k] \in Inbox!Items BY <3>1, InboxTypes DEF Inbox!Items
    <3>3. v1[k].touched \in Nat /\ v1'[k].touched = v1[k].touched + 1 /\ v1'[k].made = v1[k].made
      BY <2>1, <2>3, Zenon
    <3>4. Inbox!UpTo(v1[k], v1'[k])
      <4>. DEFINE now == v1'[k]
      <4>1. now.touched = v1[k].touched + 1 /\ now.made = v1[k].made BY <3>3
      <4>. HIDE DEF now
      <4>2. Inbox!UpTo(v1[k], now) BY <3>3, <4>1, TouchedIsNewer
      <4>. QED BY <4>2 DEF now
    <3>. QED BY <1>1, <2>1, <2>3, <3>2, <3>4, InboxTypes
  <2>. QED BY <2>2, <2>3
<1>3. v1' \in [Keys -> Inbox!Items] BY <1>2
<1>4. Inbox!Counted' BY <1>2 DEF Inbox!Counted
<1>. QED BY <1>1, <1>2, <1>3, <1>4, InboxTypes DEF ItemsGoForward, CopiesAreShown

LEMMA StillGoesForward ==
    ASSUME Inbox!InboxInv, UNCHANGED <<v1, v5, v6>>
    PROVE  ItemsGoForward /\ v5' \in 0 .. MaxMade /\ v6' \in 0 .. MaxTouches
BY InboxTypes DEF ItemsGoForward, Inbox!UpTo, Inbox!InboxInv, Inbox!Counted

LEMMA CopiesOfOneHolder ==
    ASSUME Inbox!InboxInv, NEW h \in Inbox!Holders, NEW copies \in [Keys -> Inbox!Items],
           v2' = [v2 EXCEPT ![h] = copies],
           \A k \in Keys : copies[k] \in {Inbox!NoCopy, v1'[k]}
    PROVE  CopiesAreTaken
<1>1. ASSUME NEW g \in Inbox!Holders, NEW k \in Keys
      PROVE  v2'[g][k] \in {v2[g][k], Inbox!NoCopy, v1'[k]}
  <2>1. CASE g = h BY <2>1, InboxTypes
  <2>2. CASE g # h BY <2>2, InboxTypes
  <2>. QED BY <2>1, <2>2
<1>. QED BY <1>1, InboxTypes DEF CopiesAreTaken

LEMMA ShownIsOnItsWay ==
    ASSUME Inbox!InboxInv, NEW s \in B, NEW h \in Inbox!Holders, Inbox!Shows(s, v2[h])
    PROVE  CopiesAreShown
<1>. DEFINE now == [k \in Keys |-> IF v2[h][k] = Inbox!NoCopy THEN v4[s][k] ELSE v2[h][k]]
<1>1. v4' = [v4 EXCEPT ![s] = now] BY DEF Inbox!Shows
<1>2. now \in [Keys -> Inbox!Items] BY InboxTypes
<1>3. v4' \in [B -> [Keys -> Inbox!Items]] BY <1>1, <1>2, InboxTypes
<1>4. ASSUME NEW r \in B, NEW k \in Keys
      PROVE  \/ v4'[r][k] = v4[r][k]
             \/ \E g \in Inbox!Holders : v2[g][k] # Inbox!NoCopy /\ v4'[r][k] = v2[g][k]
  <2>1. CASE r = s
    <3>1. v4'[r][k] = now[k] BY <1>1, <2>1, InboxTypes
    <3>. QED BY <2>1, <3>1
  <2>2. CASE r # s BY <1>1, <2>2, InboxTypes
  <2>. QED BY <2>1, <2>2
<1>. QED BY <1>3, <1>4 DEF CopiesAreShown

LEMMA OneItemTouched ==
    ASSUME Inbox!InboxInv, Inbox!Touch, NEW k \in Keys,
           NEW there \in BOOLEAN, NEW read \in BOOLEAN, NEW deleted \in BOOLEAN,
           there => v1[k].there,
           v1' = [v1 EXCEPT ![k] = Inbox!Touched(v1[k], there, read, deleted)]
    PROVE  /\ ItemsGoForward /\ CopiesAreShown /\ v3' \in [A -> SUBSET Keys]
           /\ v5' \in 0 .. MaxMade /\ v6' \in 0 .. MaxTouches
<1>1. v1[k].made \in 0 .. MaxMade /\ v1[k].touched + 1 \in Nat
  BY InboxTypes DEF Inbox!Items
<1>2. \A l \in Keys : v1[l] \in [made : 0 .. MaxMade, touched : Nat,
             there : BOOLEAN, read : BOOLEAN, deleted : BOOLEAN]
  BY InboxTypes DEF Inbox!Items
<1>3. v1' \in [Keys -> [made : 0 .. MaxMade, touched : Nat,
             there : BOOLEAN, read : BOOLEAN, deleted : BOOLEAN]]
  BY <1>1, <1>2, InboxTypes DEF Inbox!Touched
<1>. QED BY <1>3, TouchGoesForward, InboxTypes DEF Inbox!Touched

LEMMA InboxStepTaken ==
    ASSUME Inbox!InboxInv, Inbox!Next
    PROVE  InboxStepsOn
<1>. USE DEF InboxStepsOn
<1>0. \A i \in Inbox!Items : i = [made |-> i.made, touched |-> i.touched, there |-> i.there,
                                  read |-> i.read, deleted |-> i.deleted]
                             /\ i.there \in BOOLEAN /\ i.read \in BOOLEAN /\ i.deleted \in BOOLEAN
  BY DEF Inbox!Items
<1>1. ASSUME NEW c \in A, NEW k \in Keys, Inbox!Create(c, k)
      PROVE  InboxStepsOn
  <2>1. Inbox!Upsert(c, k) /\ v3' = v3
        /\ v2' = [v2 EXCEPT ![<<"sender", c>>] = [Inbox!Nothing EXCEPT ![k] = v1'[k]]]
    BY <1>1 DEF Inbox!Create
  <2>2. v1' \in [Keys -> Inbox!Items] BY <2>1, UpsertGoesForward DEF ItemsGoForward
  <2>3. /\ [Inbox!Nothing EXCEPT ![k] = v1'[k]] \in [Keys -> Inbox!Items]
        /\ \A l \in Keys : [Inbox!Nothing EXCEPT ![k] = v1'[k]][l] \in {Inbox!NoCopy, v1'[l]}
    BY <2>2, InboxTypes DEF Inbox!Nothing
  <2>4. CopiesAreTaken BY <2>1, <2>3, InboxTypes, CopiesOfOneHolder
  <2>. QED BY <2>1, <2>4, UpsertGoesForward, InboxTypes
<1>2. ASSUME NEW c \in A, NEW k \in Keys, Inbox!CreateForUsers(c, k)
      PROVE  InboxStepsOn
  <2>1. Inbox!Upsert(c, k) /\ v2' = v2 /\ v3' = [v3 EXCEPT ![c] = {k}]
    BY <1>2 DEF Inbox!CreateForUsers
  <2>2. CopiesAreTaken BY <2>1, InboxTypes DEF CopiesAreTaken
  <2>3. v3' \in [A -> SUBSET Keys] BY <2>1, InboxTypes
  <2>. QED BY <2>1, <2>2, <2>3, UpsertGoesForward
<1>3. ASSUME NEW c \in A, NEW k \in Keys, Inbox!FindCreated(c, k)
      PROVE  InboxStepsOn
  <2>1. /\ v2' = [v2 EXCEPT ![<<"sender", c>>] = [Inbox!Nothing EXCEPT ![k] = v1[k]]]
        /\ v3' = [v3 EXCEPT ![c] = {}] /\ UNCHANGED <<v1, v4, v5, v6>>
    BY <1>3 DEF Inbox!FindCreated, Inbox!Idle
  <2>2. /\ [Inbox!Nothing EXCEPT ![k] = v1[k]] \in [Keys -> Inbox!Items]
        /\ \A l \in Keys : [Inbox!Nothing EXCEPT ![k] = v1[k]][l] \in {Inbox!NoCopy, v1'[l]}
    BY <2>1, InboxTypes DEF Inbox!Nothing
  <2>3. CopiesAreTaken BY <2>1, <2>2, InboxTypes, CopiesOfOneHolder
  <2>4. CopiesAreShown BY <2>1, InboxTypes DEF CopiesAreShown
  <2>5. v3' \in [A -> SUBSET Keys] BY <2>1, InboxTypes
  <2>. QED BY <2>1, <2>3, <2>4, <2>5, StillGoesForward
<1>4. ASSUME NEW c \in A, NEW s \in B, Inbox!Emit(c, s)
      PROVE  InboxStepsOn
  <2>1. Inbox!Shows(s, v2[<<"sender", c>>]) /\ UNCHANGED <<v1, v2, v3, v5, v6>>
    BY <1>4 DEF Inbox!Emit
  <2>2. CopiesAreShown BY <2>1, InboxTypes, ShownIsOnItsWay
  <2>3. CopiesAreTaken BY <2>1, InboxTypes DEF CopiesAreTaken
  <2>. QED BY <2>1, <2>2, <2>3, StillGoesForward, InboxTypes
<1>5. ASSUME NEW c \in A, Inbox!CreateEnds(c)
      PROVE  InboxStepsOn
  <2>1. /\ v2' = [v2 EXCEPT ![<<"sender", c>>] = Inbox!Nothing]
        /\ v3' = [v3 EXCEPT ![c] = {}] /\ UNCHANGED <<v1, v4, v5, v6>>
    BY <1>5 DEF Inbox!CreateEnds, Inbox!Idle
  <2>2. \A l \in Keys : Inbox!Nothing[l] \in {Inbox!NoCopy, v1'[l]} BY DEF Inbox!Nothing
  <2>3. CopiesAreTaken BY <2>1, <2>2, InboxTypes, CopiesOfOneHolder
  <2>4. CopiesAreShown BY <2>1, InboxTypes DEF CopiesAreShown
  <2>5. v3' \in [A -> SUBSET Keys] BY <2>1, InboxTypes
  <2>. QED BY <2>1, <2>3, <2>4, <2>5, StillGoesForward
<1>6. ASSUME NEW k \in Keys, Inbox!Expires(k)
      PROVE  InboxStepsOn
  <2>1. /\ v1' = [v1 EXCEPT ![k] = Inbox!Touched(v1[k], FALSE, v1[k].read, v1[k].deleted)]
        /\ Inbox!Touch /\ v2' = v2
    BY <1>6 DEF Inbox!Expires
  <2>2. CopiesAreTaken BY <2>1, InboxTypes DEF CopiesAreTaken
  <2>3. v1[k].read \in BOOLEAN /\ v1[k].deleted \in BOOLEAN BY <1>0, InboxTypes
  <2>. QED BY <2>1, <2>2, <2>3, OneItemTouched
<1>7. ASSUME NEW s \in B, Inbox!FindAll(s)
      PROVE  InboxStepsOn
  <2>1. v2' = [v2 EXCEPT ![<<"screen", s>>] = v1] /\ UNCHANGED <<v1, v3, v4, v5, v6>>
    BY <1>7 DEF Inbox!FindAll
  <2>2. CopiesAreTaken BY <2>1, InboxTypes, CopiesOfOneHolder
  <2>3. CopiesAreShown BY <2>1, InboxTypes DEF CopiesAreShown
  <2>. QED BY <2>1, <2>2, <2>3, StillGoesForward, InboxTypes
<1>8. ASSUME NEW s \in B, NEW k \in Keys, ItemsGoForward, Inbox!Changes(s, k)
      PROVE  CopiesAreTaken
  <2>1. v2' = [v2 EXCEPT ![<<"screen", s>>] = [Inbox!Nothing EXCEPT ![k] = v1'[k]]]
    BY <1>8 DEF Inbox!Changes
  <2>2. /\ [Inbox!Nothing EXCEPT ![k] = v1'[k]] \in [Keys -> Inbox!Items]
        /\ \A l \in Keys : [Inbox!Nothing EXCEPT ![k] = v1'[k]][l] \in {Inbox!NoCopy, v1'[l]}
    BY <1>8, InboxTypes DEF Inbox!Nothing, ItemsGoForward
  <2>. QED BY <2>1, <2>2, InboxTypes, CopiesOfOneHolder
<1>9. ASSUME NEW s \in B, NEW k \in Keys, Inbox!MarkAsRead(s, k)
      PROVE  InboxStepsOn
  <2>0. Inbox!Changes(s, k) BY <1>9 DEF Inbox!MarkAsRead
  <2>1. v1' = [v1 EXCEPT ![k] = Inbox!Touched(v1[k], v1[k].there, TRUE, v1[k].deleted)]
    BY <1>9 DEF Inbox!MarkAsRead, Inbox!Read
  <2>3. Inbox!Touch BY <2>0 DEF Inbox!Changes
  <2>2. v1[k].there \in BOOLEAN /\ v1[k].deleted \in BOOLEAN BY <1>0, InboxTypes
  <2>. QED BY <2>0, <2>1, <2>2, <2>3, <1>8, OneItemTouched
<1>10. ASSUME NEW s \in B, NEW k \in Keys, Inbox!DeleteNotification(s, k)
       PROVE  InboxStepsOn
  <2>0. Inbox!Changes(s, k) BY <1>10 DEF Inbox!DeleteNotification
  <2>1. v1' = [v1 EXCEPT ![k] = Inbox!Touched(v1[k], v1[k].there, v1[k].read, TRUE)]
    BY <1>10 DEF Inbox!DeleteNotification
  <2>3. Inbox!Touch BY <2>0 DEF Inbox!Changes
  <2>2. v1[k].there \in BOOLEAN /\ v1[k].read \in BOOLEAN BY <1>0, InboxTypes
  <2>. QED BY <2>0, <2>1, <2>2, <2>3, <1>8, OneItemTouched
<1>11. ASSUME NEW s \in B, NEW k \in Keys, Inbox!RestoreNotification(s, k)
       PROVE  InboxStepsOn
  <2>0. Inbox!Changes(s, k) BY <1>11 DEF Inbox!RestoreNotification
  <2>1. v1' = [v1 EXCEPT ![k] = Inbox!Touched(v1[k], v1[k].there, v1[k].read, FALSE)]
    BY <1>11 DEF Inbox!RestoreNotification
  <2>3. Inbox!Touch BY <2>0 DEF Inbox!Changes
  <2>2. v1[k].there \in BOOLEAN /\ v1[k].read \in BOOLEAN BY <1>0, InboxTypes
  <2>. QED BY <2>0, <2>1, <2>2, <2>3, <1>8, OneItemTouched
<1>12. CASE Inbox!MarkAllAsRead
  <2>1. /\ Inbox!Touch /\ v2' = v2
        /\ v1' = [k \in Keys |-> IF k \in Inbox!Unread THEN Inbox!Read(v1[k]) ELSE v1[k]]
    BY <1>12 DEF Inbox!MarkAllAsRead
  <2>. DEFINE Marked == [made : 0 .. MaxMade, touched : Nat,
                         there : BOOLEAN, read : BOOLEAN, deleted : BOOLEAN]
  <2>2. ASSUME NEW i \in Inbox!Items
        PROVE  /\ i \in Marked /\ Inbox!Read(i) \in Marked
               /\ Inbox!Read(i).made = i.made /\ Inbox!Read(i).touched = i.touched + 1
               /\ Inbox!Read(i).there = i.there
    <3>1. MaxMade \in Nat /\ MaxTouches \in Nat BY InboxTypes
    <3>3. i.made \in 0 .. MaxMade /\ i.touched \in Nat
          /\ i.there \in BOOLEAN /\ i.read \in BOOLEAN /\ i.deleted \in BOOLEAN
      BY <3>1 DEF Inbox!Items
    <3>4. Inbox!Read(i) = [made |-> i.made, touched |-> i.touched + 1, there |-> i.there,
                           read |-> TRUE, deleted |-> i.deleted]
      BY DEF Inbox!Read, Inbox!Touched
    <3>5. i \in Marked BY <3>1 DEF Inbox!Items
    <3>. QED BY <3>3, <3>4, <3>5
  <2>3. ASSUME NEW k \in Keys
        PROVE  /\ v1'[k] \in Marked
               /\ \/ v1'[k] = v1[k]
                  \/ /\ v1'[k].made = v1[k].made /\ v1'[k].touched = v1[k].touched + 1
                     /\ v1'[k].there => v1[k].there
    <3>1. v1[k] \in Inbox!Items BY InboxTypes
    <3>2. v1'[k] = v1[k] \/ v1'[k] = Inbox!Read(v1[k]) BY <2>1
    <3>. HIDE DEF Marked
    <3>3. CASE v1'[k] = v1[k] BY <2>2, <3>1, <3>3
    <3>4. CASE v1'[k] = Inbox!Read(v1[k]) BY <2>2, <3>1, <3>4, Zenon
    <3>. QED BY <3>2, <3>3, <3>4
  <2>4. v1' \in [Keys -> Marked]
    <3>. HIDE DEF Marked
    <3>. QED BY <2>1, <2>3
  <2>5. CopiesAreTaken BY <2>1, InboxTypes DEF CopiesAreTaken
  <2>. QED BY <2>1, <2>3, <2>4, <2>5, TouchGoesForward
<1>13. ASSUME NEW s \in B, Inbox!Answered(s)
       PROVE  InboxStepsOn
  <2>1. /\ Inbox!Shows(s, v2[<<"screen", s>>]) \/ v4' = v4
        /\ v2' = [v2 EXCEPT ![<<"screen", s>>] = Inbox!Nothing] /\ UNCHANGED <<v1, v3, v5, v6>>
    BY <1>13 DEF Inbox!Answered
  <2>2. CopiesAreShown
    <3>1. v4' = v4 => CopiesAreShown BY InboxTypes DEF CopiesAreShown
    <3>. QED BY <2>1, <3>1, InboxTypes, ShownIsOnItsWay
  <2>3. \A l \in Keys : Inbox!Nothing[l] \in {Inbox!NoCopy, v1'[l]} BY DEF Inbox!Nothing
  <2>4. CopiesAreTaken BY <2>1, <2>3, InboxTypes, CopiesOfOneHolder
  <2>. QED BY <2>1, <2>2, <2>4, StillGoesForward, InboxTypes
<1>. QED
  BY <1>1, <1>2, <1>3, <1>4, <1>5, <1>6, <1>7, <1>9, <1>10, <1>11, <1>12, <1>13 DEF Inbox!Next

LEMMA InboxKept ==
    ASSUME Inbox!InboxInv, InboxStepsOn
    PROVE  Inbox!InboxInv' /\ Inbox!NothingGoesBack
<1>1. /\ v1' \in [Keys -> Inbox!Items] /\ v2' \in [Inbox!Holders -> [Keys -> Inbox!Items]]
      /\ v3' \in [A -> SUBSET Keys] /\ v4' \in [B -> [Keys -> Inbox!Items]]
      /\ v5' \in 0 .. MaxMade /\ v6' \in 0 .. MaxTouches /\ Inbox!Counted'
      /\ \A k \in Keys : Inbox!UpTo(v1[k], v1'[k])
  BY DEF InboxStepsOn, ItemsGoForward, CopiesAreTaken, CopiesAreShown
<1>2. Inbox!TypeOK' BY <1>1 DEF Inbox!TypeOK
<1>3. \A k \in Keys : /\ \A h \in Inbox!Holders :
                           v2[h][k] = Inbox!NoCopy \/ Inbox!UpTo(v2[h][k], v1[k])
                      /\ \A s \in B : Inbox!UpTo(v4[s][k], v1[k])
  BY DEF Inbox!InboxInv, Inbox!CopiesFollow
<1>4. \A h \in Inbox!Holders, k \in Keys : v2'[h][k] \in {v2[h][k], Inbox!NoCopy, v1'[k]}
  BY DEF InboxStepsOn, CopiesAreTaken
<1>5. \A s \in B, k \in Keys :
         \/ v4'[s][k] = v4[s][k]
         \/ \E h \in Inbox!Holders : v2[h][k] # Inbox!NoCopy /\ v4'[s][k] = v2[h][k]
  BY DEF InboxStepsOn, CopiesAreShown
<1>6. ASSUME NEW h \in Inbox!Holders, NEW k \in Keys
      PROVE  v2'[h][k] = Inbox!NoCopy \/ Inbox!UpTo(v2'[h][k], v1'[k])
  <2>1. v2[h][k] # Inbox!NoCopy => Inbox!UpTo(v2[h][k], v1'[k])
    BY <1>1, <1>3, InboxTypes, NewerThanNewer
  <2>2. Inbox!UpTo(v1'[k], v1'[k]) BY DEF Inbox!UpTo
  <2>. QED BY <1>4, <2>1, <2>2
<1>7. ASSUME NEW s \in B, NEW k \in Keys
      PROVE  Inbox!UpTo(v4'[s][k], v1'[k])
  <2>1. Inbox!UpTo(v4'[s][k], v1[k]) BY <1>3, <1>5
  <2>. QED BY <1>1, <2>1, InboxTypes, NewerThanNewer
<1>8. Inbox!CopiesFollow' BY <1>6, <1>7 DEF Inbox!CopiesFollow, Inbox!Holders, Inbox!NoCopy
<1>9. Inbox!NothingGoesBack
  <2>1. ASSUME NEW s \in B, NEW k \in Keys \ Inbox!Overtaken, v4'[s][k] # v4[s][k]
        PROVE  Inbox!Newer(v4'[s][k], v4[s][k])
    <3>1. PICK h \in Inbox!Holders : v2[h][k] # Inbox!NoCopy /\ v4'[s][k] = v2[h][k]
      BY <1>5, <2>1
    <3>2. v2[h][k] = v1[k] BY <2>1, <3>1 DEF Inbox!Overtaken
    <3>. QED BY <1>3, <2>1, <3>1, <3>2 DEF Inbox!UpTo
  <2>. QED BY <2>1 DEF Inbox!NothingGoesBack
<1>. QED BY <1>1, <1>2, <1>8, <1>9 DEF Inbox!InboxInv

LEMMA InboxStays ==
    ASSUME Inbox!InboxInv, UNCHANGED <<v1, v2, v3, v4, v5, v6>>
    PROVE  Inbox!InboxInv' /\ Inbox!NothingGoesBack
BY DEF Inbox!InboxInv, Inbox!TypeOK, Inbox!Counted, Inbox!CopiesFollow, Inbox!NothingGoesBack

LEMMA InboxStep ==
    ASSUME focus = "inbox", [Next]_vars, Inbox!InboxInv
    PROVE  Inbox!InboxInv' /\ Inbox!NothingGoesBack
<1>1. Inbox!Next \/ UNCHANGED <<v1, v2, v3, v4, v5, v6>> BY DEF Next, vars
<1>. QED BY <1>1, InboxStepTaken, InboxKept, InboxStays

LEMMA InboxStart == ASSUME Inbox!Init PROVE Inbox!InboxInv
<1>1. MaxMade \in Nat /\ MaxTouches \in Nat BY InboxAssumed DEF Inbox!InboxAssumption
<1>2. Inbox!NoItem \in Inbox!Items /\ Inbox!NoCopy \in Inbox!Items
  BY <1>1 DEF Inbox!NoItem, Inbox!NoCopy, Inbox!New, Inbox!Items
<1>3. Inbox!TypeOK BY <1>1, <1>2 DEF Inbox!Init, Inbox!TypeOK, Inbox!Nothing, Inbox!Idle
<1>4. Inbox!Counted BY <1>1 DEF Inbox!Init, Inbox!Counted, Inbox!NoItem
<1>5. Inbox!CopiesFollow
  BY DEF Inbox!Init, Inbox!CopiesFollow, Inbox!UpTo, Inbox!Nothing
<1>. QED BY <1>3, <1>4, <1>5 DEF Inbox!InboxInv

(* The inbox keeps to its types, its items only go forward, and no copy is *)
(* ahead of its item, whatever is retried, asked, lost or answered late.   *)
THEOREM InboxCorrect == Spec => [](focus = "inbox" => Inbox!InboxInv)
<1>1. Init => (focus = "inbox" => Inbox!InboxInv) BY InboxStart DEF Init
<1>2. (focus = "inbox" => Inbox!InboxInv) /\ [Next]_vars => (focus = "inbox" => Inbox!InboxInv)'
  <2>. SUFFICES ASSUME focus = "inbox", Inbox!InboxInv, [Next]_vars
                PROVE  Inbox!InboxInv'
    BY DEF Next, vars
  <2>. QED BY InboxStep
<1>. QED BY <1>1, <1>2, PTL DEF Spec

(* No device goes back to an earlier state of an item that it has shown,   *)
(* unless the item changed while a copy of it was on its way.              *)
THEOREM DevicesDoNotGoBack == Spec => ReadStaysRead
<1>1. (focus = "inbox" => Inbox!InboxInv) /\ [Next]_vars
        => (focus = "inbox" => Inbox!NothingGoesBack)
  BY InboxStep
<1>. QED BY <1>1, InboxCorrect, PTL DEF Spec, ReadStaysRead

(* PushTokens: entry is v1, installed v2, stage v3, owner v4, tokens v5,   *)
(* live v6, muted v7, refused v8 and faults v9.                            *)

PushVars == <<v1, v2, v3, v4, v5, v6, v7, v8, v9>>

LEMMA PushStep ==
    ASSUME focus = "push", [Next]_vars
    PROVE  focus' = "push" /\ (Push!Next \/ UNCHANGED PushVars)
BY DEF Next, vars, PushVars

Entry == [token : B \cup {none}, active : BOOLEAN]

LEMMA PushStarts ==
    ASSUME focus = "push", Init
    PROVE  Push!PushInv
<1>1. Push!Init /\ MaxFaults \in Nat BY PushTokensAssumed DEF Init, Push!PushTokenAssumption
<1>2. Push!TypeOK BY <1>1 DEF Push!Init, Push!TypeOK, Push!Absent, Push!Stages
<1>3. \A o \in Push!Owners : v1[o].token = none /\ ~v1[o].active BY <1>1 DEF Push!Init, Push!Absent
<1>4. v6 = {} /\ \A c \in Calls : v3[c] = "idle" BY <1>1 DEF Push!Init
<1>. QED BY <1>2, <1>3, <1>4 DEF Push!PushInv, Push!OneEntryPerToken, Push!CallsKnowTheirTokens

\* What silencing does to the entries: it keeps their tokens.
LEMMA SilencedEntries ==
    ASSUME v1 \in [Push!Owners -> Entry], NEW T
    PROVE  /\ Push!Silenced(T) \in [Push!Owners -> Entry]
           /\ \A o \in Push!Owners :
                /\ Push!Silenced(T)[o].token = v1[o].token
                /\ Push!Silenced(T)[o].active <=> v1[o].active /\ v1[o].token \notin T
<1>1. ASSUME NEW o \in Push!Owners
      PROVE  LET e == [v1[o] EXCEPT !.active = @ /\ v1[o].token \notin T]
             IN  e \in Entry /\ e.token = v1[o].token
                 /\ (e.active <=> v1[o].active /\ v1[o].token \notin T)
  <2>1. v1[o] \in Entry BY <1>1
  <2>2. PICK b \in BOOLEAN : b = (v1[o].active /\ v1[o].token \notin T) BY Zenon
  <2>3. \A e \in Entry : \A x \in BOOLEAN :
           LET y == [e EXCEPT !.active = x] IN y \in Entry /\ y.token = e.token /\ y.active = x
    BY DEF Entry
  <2>4. LET y == [v1[o] EXCEPT !.active = b]
        IN  y \in Entry /\ y.token = v1[o].token /\ y.active = b
    BY <2>1, <2>3
  <2>. QED BY <2>2, <2>4, Zenon
<1>. QED BY <1>1, Zenon DEF Push!Silenced

\* A call turns to something else; the other calls do not.
LEMMA Turns ==
    ASSUME Push!TypeOK, NEW c \in Calls, NEW s \in Push!Stages,
           NEW o \in Push!Owners \cup {none}, NEW T \in SUBSET B,
           Push!Turn(c, s, o, T)
    PROVE  /\ v3' \in [Calls -> Push!Stages]
           /\ v4' \in [Calls -> Push!Owners \cup {none}]
           /\ v5' \in [Calls -> SUBSET B]
           /\ v3'[c] = s /\ v4'[c] = o /\ v5'[c] = T
           /\ \A d \in Calls \ {c} : v3'[d] = v3[d] /\ v4'[d] = v4[d] /\ v5'[d] = v5[d]
BY DEF Push!TypeOK, Push!Turn

\* The phones change alone, or a call reads, sends or dies: no entry changes.
LEMMA EntriesStay ==
    ASSUME Push!PushInv, NEW c \in Calls, NEW s \in Push!Stages,
           NEW o \in Push!Owners \cup {none}, NEW T \in SUBSET B,
           Push!Turn(c, s, o, T),
           s # "upsert", s = "silence" => o \in Push!Owners /\ \E t \in B : T = {t},
           UNCHANGED <<v1, v2, v6, v8>>,
           v7 \subseteq v7', v7' \subseteq B, v9' \in 0 .. MaxFaults,
           s = "deactivate" => T \subseteq v7',
           v3[c] = "upsert" => v5[c] \subseteq v7'
    PROVE  Push!PushInv'
<1>0. /\ Push!TypeOK /\ Push!OneEntryPerToken /\ Push!CallsKnowTheirTokens
      /\ \A q \in Push!Owners : v1[q].active => v1[q].token # none
      /\ \A q \in v6 : v1[q].active \/ v1[q].token \in v7 \/ Push!ComesBack(q)
  BY DEF Push!PushInv
<1>1. /\ v3' \in [Calls -> Push!Stages]
      /\ v4' \in [Calls -> Push!Owners \cup {none}]
      /\ v5' \in [Calls -> SUBSET B]
      /\ v3'[c] = s /\ v4'[c] = o /\ v5'[c] = T
      /\ \A d \in Calls \ {c} : v3'[d] = v3[d] /\ v4'[d] = v4[d] /\ v5'[d] = v5[d]
  BY <1>0, Turns
<1>2. Push!TypeOK' BY <1>0, <1>1 DEF Push!TypeOK
<1>3. Push!OneEntryPerToken' /\ \A q \in Push!Owners : v1'[q].active => v1'[q].token # none
  BY <1>0 DEF Push!OneEntryPerToken
<1>4. Push!CallsKnowTheirTokens'
  <2>. SUFFICES ASSUME NEW d \in Calls
                PROVE  /\ v3'[d] \in {"silence", "upsert"} =>
                            v4'[d] \in Push!Owners /\ \E t \in B : v5'[d] = {t}
                       /\ v3'[d] = "deactivate" => v5'[d] \subseteq v7'
    BY DEF Push!CallsKnowTheirTokens
  <2>1. CASE d = c BY <1>1, <2>1
  <2>2. CASE d # c
    <3>1. v3'[d] = v3[d] /\ v4'[d] = v4[d] /\ v5'[d] = v5[d] BY <1>1, <2>2
    <3>. QED BY <1>0, <3>1 DEF Push!CallsKnowTheirTokens
  <2>. QED BY <2>1, <2>2
<1>5. ASSUME NEW q \in v6'
      PROVE  v1'[q].active \/ v1'[q].token \in v7' \/ Push!ComesBack(q)'
  <2>1. CASE v1[q].active \/ v1[q].token \in v7 BY <2>1
  <2>2. CASE Push!ComesBack(q)
    <3>1. PICK d \in Calls : v3[d] = "upsert" /\ v4[d] = q /\ v5[d] = {v1[q].token}
      BY <2>2 DEF Push!ComesBack
    <3>2. CASE d = c BY <3>1, <3>2
    <3>3. CASE d # c BY <1>1, <3>1, <3>3 DEF Push!ComesBack
    <3>. QED BY <3>2, <3>3
  <2>. QED BY <1>0, <1>5, <2>1, <2>2
<1>. QED BY <1>2, <1>3, <1>4, <1>5 DEF Push!PushInv

LEMMA PhonesChange ==
    ASSUME Push!PushInv, UNCHANGED <<v1, v3, v4, v5, v6, v7, v8, v9>>,
           v2' \in [Devices -> B \cup {none}]
    PROVE  Push!PushInv'
BY DEF Push!PushInv, Push!TypeOK, Push!OneEntryPerToken, Push!CallsKnowTheirTokens, Push!ComesBack

LEMMA SilenceTokenKeeps ==
    ASSUME Push!PushInv, NEW c \in Calls, Push!SilenceToken(c)
    PROVE  Push!PushInv'
<1>0. /\ Push!TypeOK /\ Push!OneEntryPerToken /\ Push!CallsKnowTheirTokens
      /\ \A q \in Push!Owners : v1[q].active => v1[q].token # none
      /\ \A q \in v6 : v1[q].active \/ v1[q].token \in v7 \/ Push!ComesBack(q)
  BY DEF Push!PushInv
<1>1. /\ v3[c] = "silence" /\ v1' = Push!Silenced(v5[c])
      /\ v7' = v7 \cup Push!Contested(c)
      /\ Push!Turn(c, "upsert", v4[c], v5[c])
      /\ UNCHANGED <<v2, v6, v8, v9>>
  BY DEF Push!SilenceToken
<1>2. PICK t \in B : v4[c] \in Push!Owners /\ v5[c] = {t}
  BY <1>0, <1>1 DEF Push!CallsKnowTheirTokens
<1>3. v1 \in [Push!Owners -> Entry] /\ v6 \subseteq Push!Owners /\ v5[c] \in SUBSET B
      /\ v7 \subseteq B
  BY <1>0 DEF Push!TypeOK, Entry
<1>4. /\ v1' \in [Push!Owners -> Entry]
      /\ \A o \in Push!Owners :
           /\ v1'[o].token = v1[o].token
           /\ v1'[o].active <=> v1[o].active /\ v1[o].token # t
  BY <1>1, <1>2, <1>3, SilencedEntries
<1>5. /\ v3' \in [Calls -> Push!Stages]
      /\ v4' \in [Calls -> Push!Owners \cup {none}]
      /\ v5' \in [Calls -> SUBSET B]
      /\ v3'[c] = "upsert" /\ v4'[c] = v4[c] /\ v5'[c] = v5[c]
      /\ \A d \in Calls \ {c} : v3'[d] = v3[d] /\ v4'[d] = v4[d] /\ v5'[d] = v5[d]
  BY <1>0, <1>1, <1>2, <1>3, Turns DEF Push!Stages
<1>6. Push!Contested(c) \subseteq B BY <1>3 DEF Push!Contested
<1>7. Push!TypeOK' BY <1>0, <1>1, <1>3, <1>4, <1>5, <1>6 DEF Push!TypeOK, Entry
<1>8. Push!OneEntryPerToken' /\ \A q \in Push!Owners : v1'[q].active => v1'[q].token # none
  BY <1>0, <1>4 DEF Push!OneEntryPerToken
<1>9. Push!CallsKnowTheirTokens'
  <2>. SUFFICES ASSUME NEW d \in Calls
                PROVE  /\ v3'[d] \in {"silence", "upsert"} =>
                            v4'[d] \in Push!Owners /\ \E x \in B : v5'[d] = {x}
                       /\ v3'[d] = "deactivate" => v5'[d] \subseteq v7'
    BY DEF Push!CallsKnowTheirTokens
  <2>1. CASE d = c BY <1>2, <1>5, <2>1
  <2>2. CASE d # c
    <3>1. v3'[d] = v3[d] /\ v4'[d] = v4[d] /\ v5'[d] = v5[d] BY <1>5, <2>2
    <3>. QED BY <1>0, <1>1, <3>1 DEF Push!CallsKnowTheirTokens
  <2>. QED BY <2>1, <2>2
<1>10. ASSUME NEW q \in v6'
       PROVE  v1'[q].active \/ v1'[q].token \in v7' \/ Push!ComesBack(q)'
  <2>0. q \in v6 /\ q \in Push!Owners /\ v1'[q].token = v1[q].token BY <1>1, <1>3, <1>4, <1>10
  <2>1. CASE v1[q].token \in v7 BY <1>1, <2>0, <2>1
  <2>2. CASE Push!ComesBack(q)
    <3>1. PICK d \in Calls : v3[d] = "upsert" /\ v4[d] = q /\ v5[d] = {v1[q].token}
      BY <2>2 DEF Push!ComesBack
    <3>. QED BY <1>1, <1>5, <2>0, <3>1 DEF Push!ComesBack
  <2>3. CASE v1[q].active /\ v1[q].token # t BY <1>4, <2>0, <2>3
  <2>4. CASE v1[q].token = t /\ q = v4[c] BY <1>2, <1>5, <2>0, <2>4 DEF Push!ComesBack
  <2>5. CASE v1[q].token = t /\ q # v4[c]
    <3>1. t \in Push!Contested(c) BY <1>2, <2>0, <2>5 DEF Push!Contested, Push!Free
    <3>. QED BY <1>1, <2>0, <2>5, <3>1
  <2>. QED BY <1>0, <2>0, <2>1, <2>2, <2>3, <2>4, <2>5
<1>. QED BY <1>7, <1>8, <1>9, <1>10 DEF Push!PushInv

LEMMA UpsertTokenKeeps ==
    ASSUME Push!PushInv, NEW c \in Calls, Push!UpsertToken(c)
    PROVE  Push!PushInv'
<1>0. /\ Push!TypeOK /\ Push!OneEntryPerToken /\ Push!CallsKnowTheirTokens
      /\ \A q \in Push!Owners : v1[q].active => v1[q].token # none
      /\ \A q \in v6 : v1[q].active \/ v1[q].token \in v7 \/ Push!ComesBack(q)
  BY DEF Push!PushInv
<1>1. PICK t \in v5[c] :
        /\ v3[c] = "upsert"
        /\ \/ /\ Push!Free(t, v4[c])
              /\ v1' = [v1 EXCEPT ![v4[c]] = [token |-> t, active |-> TRUE]]
              /\ v6' = v6 \cup {v4[c]}
              /\ UNCHANGED v8
           \/ /\ ~Push!Free(t, v4[c])
              /\ v8' = v8 \cup {v4[c]}
              /\ UNCHANGED <<v1, v6>>
        /\ Push!Turn(c, "idle", none, {})
        /\ UNCHANGED <<v2, v7, v9>>
  BY DEF Push!UpsertToken, Push!Finish
<1>2. v4[c] \in Push!Owners /\ v5[c] = {t} /\ t \in B /\ t # none
  BY <1>0, <1>1, PushTokensAssumed DEF Push!CallsKnowTheirTokens, Push!PushTokenAssumption
<1>3. v1 \in [Push!Owners -> Entry] /\ v6 \subseteq Push!Owners
      /\ v8 \subseteq Push!Owners
  BY <1>0 DEF Push!TypeOK, Entry
<1>4. /\ v3' \in [Calls -> Push!Stages]
      /\ v4' \in [Calls -> Push!Owners \cup {none}]
      /\ v5' \in [Calls -> SUBSET B]
      /\ v3'[c] = "idle"
      /\ \A d \in Calls \ {c} : v3'[d] = v3[d] /\ v4'[d] = v4[d] /\ v5'[d] = v5[d]
  BY <1>0, <1>1, Turns DEF Push!Stages
<1>5. Push!CallsKnowTheirTokens'
  <2>. SUFFICES ASSUME NEW d \in Calls
                PROVE  /\ v3'[d] \in {"silence", "upsert"} =>
                            v4'[d] \in Push!Owners /\ \E x \in B : v5'[d] = {x}
                       /\ v3'[d] = "deactivate" => v5'[d] \subseteq v7'
    BY DEF Push!CallsKnowTheirTokens
  <2>1. CASE d = c BY <1>4, <2>1
  <2>2. CASE d # c
    <3>1. v3'[d] = v3[d] /\ v4'[d] = v4[d] /\ v5'[d] = v5[d] BY <1>4, <2>2
    <3>. QED BY <1>0, <1>1, <3>1 DEF Push!CallsKnowTheirTokens
  <2>. QED BY <2>1, <2>2
<1>6. CASE /\ Push!Free(t, v4[c])
           /\ v1' = [v1 EXCEPT ![v4[c]] = [token |-> t, active |-> TRUE]]
           /\ v6' = v6 \cup {v4[c]}
           /\ UNCHANGED v8
  <2>1. /\ v1' \in [Push!Owners -> Entry]
        /\ v1'[v4[c]].token = t /\ v1'[v4[c]].active
        /\ \A o \in Push!Owners : o # v4[c] => v1'[o] = v1[o] /\ v1[o].token # t
    BY <1>2, <1>3, <1>6 DEF Entry, Push!Free
  <2>2. Push!TypeOK' BY <1>0, <1>1, <1>2, <1>3, <1>4, <1>6, <2>1 DEF Push!TypeOK, Entry
  <2>3. Push!OneEntryPerToken' /\ \A q \in Push!Owners : v1'[q].active => v1'[q].token # none
    BY <1>0, <1>2, <2>1 DEF Push!OneEntryPerToken
  <2>4. ASSUME NEW q \in v6'
        PROVE  v1'[q].active \/ v1'[q].token \in v7' \/ Push!ComesBack(q)'
    <3>1. CASE q = v4[c] BY <2>1, <3>1
    <3>2. CASE q # v4[c]
      <4>1. q \in v6 /\ q \in Push!Owners /\ v1'[q] = v1[q] BY <1>3, <1>6, <2>1, <2>4, <3>2
      <4>2. Push!ComesBack(q) => Push!ComesBack(q)' BY <1>4, <3>2, <4>1 DEF Push!ComesBack
      <4>. QED BY <1>0, <1>1, <4>1, <4>2
    <3>. QED BY <3>1, <3>2
  <2>. QED BY <1>5, <2>2, <2>3, <2>4 DEF Push!PushInv
<1>7. CASE /\ ~Push!Free(t, v4[c])
           /\ v8' = v8 \cup {v4[c]}
           /\ UNCHANGED <<v1, v6>>
  <2>1. v1[v4[c]].token # t BY <1>0, <1>2, <1>7 DEF Push!Free, Push!OneEntryPerToken
  <2>2. Push!TypeOK' BY <1>0, <1>1, <1>2, <1>3, <1>4, <1>7 DEF Push!TypeOK
  <2>3. Push!OneEntryPerToken' /\ \A q \in Push!Owners : v1'[q].active => v1'[q].token # none
    BY <1>0, <1>7 DEF Push!OneEntryPerToken
  <2>4. ASSUME NEW q \in v6'
        PROVE  v1'[q].active \/ v1'[q].token \in v7' \/ Push!ComesBack(q)'
    <3>1. ASSUME Push!ComesBack(q) PROVE Push!ComesBack(q)'
      <4>1. PICK d \in Calls : v3[d] = "upsert" /\ v4[d] = q /\ v5[d] = {v1[q].token}
        BY <3>1 DEF Push!ComesBack
      <4>2. d # c BY <1>2, <2>1, <4>1
      <4>. QED BY <1>4, <1>7, <4>1, <4>2 DEF Push!ComesBack
    <3>. QED BY <1>0, <1>1, <1>7, <2>4, <3>1
  <2>. QED BY <1>5, <2>2, <2>3, <2>4 DEF Push!PushInv
<1>. QED BY <1>1, <1>6, <1>7

LEMMA DeactivateTokenKeeps ==
    ASSUME Push!PushInv, NEW c \in Calls, Push!DeactivateToken(c)
    PROVE  Push!PushInv'
<1>0. /\ Push!TypeOK /\ Push!OneEntryPerToken /\ Push!CallsKnowTheirTokens
      /\ \A q \in Push!Owners : v1[q].active => v1[q].token # none
      /\ \A q \in v6 : v1[q].active \/ v1[q].token \in v7 \/ Push!ComesBack(q)
  BY DEF Push!PushInv
<1>1. PICK t \in v5[c], s \in {"idle", "deactivate"}, T \in SUBSET v5[c] :
        /\ v3[c] = "deactivate" /\ v1' = Push!Silenced({t})
        /\ Push!Turn(c, s, none, T)
        /\ UNCHANGED <<v2, v6, v7, v8, v9>>
  <2>1. PICK t \in v5[c] :
          /\ v3[c] = "deactivate" /\ v1' = Push!Silenced({t})
          /\ IF v5[c] = {t} THEN Push!Turn(c, "idle", none, {})
             ELSE Push!Turn(c, "deactivate", none, v5[c] \ {t})
          /\ UNCHANGED <<v2, v6, v7, v8, v9>>
    BY DEF Push!DeactivateToken, Push!Finish, Push!historyVars
  <2>2. {} \in SUBSET v5[c] /\ v5[c] \ {t} \in SUBSET v5[c] OBVIOUS
  <2>. QED BY <2>1, <2>2, Zenon
<1>2. v5[c] \subseteq v7 /\ v5[c] \in SUBSET B /\ T \in SUBSET B
  BY <1>0, <1>1 DEF Push!CallsKnowTheirTokens, Push!TypeOK
<1>3. v1 \in [Push!Owners -> Entry] /\ v6 \subseteq Push!Owners BY <1>0 DEF Push!TypeOK, Entry
<1>4. /\ v1' \in [Push!Owners -> Entry]
      /\ \A o \in Push!Owners :
           /\ v1'[o].token = v1[o].token
           /\ v1'[o].active <=> v1[o].active /\ v1[o].token # t
  BY <1>1, <1>3, SilencedEntries
<1>5. /\ v3' \in [Calls -> Push!Stages]
      /\ v4' \in [Calls -> Push!Owners \cup {none}]
      /\ v5' \in [Calls -> SUBSET B]
      /\ v3'[c] = s /\ v5'[c] = T
      /\ \A d \in Calls \ {c} : v3'[d] = v3[d] /\ v4'[d] = v4[d] /\ v5'[d] = v5[d]
  BY <1>0, <1>1, <1>2, Turns DEF Push!Stages
<1>6. Push!TypeOK' BY <1>0, <1>1, <1>4, <1>5 DEF Push!TypeOK, Entry
<1>7. Push!OneEntryPerToken' /\ \A q \in Push!Owners : v1'[q].active => v1'[q].token # none
  BY <1>0, <1>4 DEF Push!OneEntryPerToken
<1>8. Push!CallsKnowTheirTokens'
  <2>. SUFFICES ASSUME NEW d \in Calls
                PROVE  /\ v3'[d] \in {"silence", "upsert"} =>
                            v4'[d] \in Push!Owners /\ \E x \in B : v5'[d] = {x}
                       /\ v3'[d] = "deactivate" => v5'[d] \subseteq v7'
    BY DEF Push!CallsKnowTheirTokens
  <2>1. CASE d = c BY <1>1, <1>2, <1>5, <2>1
  <2>2. CASE d # c
    <3>1. v3'[d] = v3[d] /\ v4'[d] = v4[d] /\ v5'[d] = v5[d] BY <1>5, <2>2
    <3>. QED BY <1>0, <1>1, <3>1 DEF Push!CallsKnowTheirTokens
  <2>. QED BY <2>1, <2>2
<1>9. ASSUME NEW q \in v6'
      PROVE  v1'[q].active \/ v1'[q].token \in v7' \/ Push!ComesBack(q)'
  <2>0. q \in v6 /\ q \in Push!Owners /\ v1'[q].token = v1[q].token /\ v7' = v7
    BY <1>1, <1>3, <1>4, <1>9
  <2>1. CASE v1[q].active BY <1>1, <1>2, <1>4, <2>0, <2>1
  <2>2. CASE Push!ComesBack(q)
    <3>1. PICK d \in Calls : v3[d] = "upsert" /\ v4[d] = q /\ v5[d] = {v1[q].token}
      BY <2>2 DEF Push!ComesBack
    <3>2. d # c BY <1>1, <3>1
    <3>. QED BY <1>5, <2>0, <3>1, <3>2 DEF Push!ComesBack
  <2>. QED BY <1>0, <2>0, <2>1, <2>2
<1>. QED BY <1>6, <1>7, <1>8, <1>9 DEF Push!PushInv

LEMMA RemoveTokenKeeps ==
    ASSUME Push!PushInv, NEW o \in Push!Owners, Push!RemoveToken(o)
    PROVE  Push!PushInv'
<1>0. /\ Push!TypeOK /\ Push!OneEntryPerToken /\ Push!CallsKnowTheirTokens
      /\ \A q \in Push!Owners : v1[q].active => v1[q].token # none
      /\ \A q \in v6 : v1[q].active \/ v1[q].token \in v7 \/ Push!ComesBack(q)
  BY DEF Push!PushInv
<1>1. /\ v1' = [v1 EXCEPT ![o] = Push!Absent] /\ v6' = v6 \ {o}
      /\ UNCHANGED <<v2, v3, v4, v5, v7, v8, v9>>
  BY DEF Push!RemoveToken, Push!callVars
<1>2. v1 \in [Push!Owners -> Entry] /\ v6 \subseteq Push!Owners BY <1>0 DEF Push!TypeOK, Entry
<1>3. /\ v1' \in [Push!Owners -> Entry]
      /\ v1'[o].token = none /\ ~v1'[o].active
      /\ \A q \in Push!Owners : q # o => v1'[q] = v1[q]
  BY <1>1, <1>2 DEF Entry, Push!Absent
<1>4. Push!TypeOK' BY <1>0, <1>1, <1>3 DEF Push!TypeOK, Entry
<1>5. Push!OneEntryPerToken' /\ \A q \in Push!Owners : v1'[q].active => v1'[q].token # none
  BY <1>0, <1>3 DEF Push!OneEntryPerToken
<1>6. Push!CallsKnowTheirTokens' BY <1>0, <1>1 DEF Push!CallsKnowTheirTokens
<1>7. ASSUME NEW q \in v6'
      PROVE  v1'[q].active \/ v1'[q].token \in v7' \/ Push!ComesBack(q)'
  <2>1. q \in v6 /\ v1'[q] = v1[q] BY <1>1, <1>2, <1>3, <1>7
  <2>2. Push!ComesBack(q) => Push!ComesBack(q)' BY <1>1, <2>1 DEF Push!ComesBack
  <2>. QED BY <1>0, <1>1, <2>1, <2>2
<1>. QED BY <1>4, <1>5, <1>6, <1>7 DEF Push!PushInv

LEMMA PushKept ==
    ASSUME Push!PushInv, Push!Next
    PROVE  Push!PushInv'
<1>0. Push!TypeOK /\ Push!CallsKnowTheirTokens
      /\ (\A q \in Push!Owners : v1[q].active => v1[q].token # none)
      /\ "silence" \in Push!Stages /\ "send" \in Push!Stages
      /\ "idle" \in Push!Stages /\ "deactivate" \in Push!Stages
  BY DEF Push!PushInv, Push!Stages
<1>1. /\ v1 \in [Push!Owners -> Entry] /\ v2 \in [Devices -> B \cup {none}]
      /\ v3 \in [Calls -> Push!Stages] /\ v5 \in [Calls -> SUBSET B]
      /\ v7 \subseteq B /\ v9 \in 0 .. MaxFaults
  BY <1>0 DEF Push!TypeOK, Entry
<1>2. ASSUME NEW p \in Devices, Push!Uninstall(p) \/ \E t \in B : Push!Install(p, t)
      PROVE  Push!PushInv'
  <2>1. /\ UNCHANGED <<v1, v3, v4, v5, v6, v7, v8, v9>>
        /\ v2' \in [Devices -> B \cup {none}]
    BY <1>1, <1>2 DEF Push!Uninstall, Push!Install, Push!callVars, Push!historyVars
  <2>. QED BY <2>1, PhonesChange
<1>3. ASSUME NEW c \in Calls, NEW o \in Push!Owners, Push!RegisterToken(c, o)
      PROVE  Push!PushInv'
  <2>1. /\ v3[c] = "idle" /\ v2[o[2]] # none
        /\ Push!Turn(c, "silence", o, {v2[o[2]]})
        /\ UNCHANGED <<v1, v2, v6, v7, v8, v9>>
    BY <1>3 DEF Push!RegisterToken, Push!historyVars
  <2>2. v2[o[2]] \in B BY <1>1, <2>1 DEF Push!Owners
  <2>3. o \in Push!Owners \cup {none} /\ {v2[o[2]]} \in SUBSET B BY <2>2
  <2>. QED BY <1>0, <1>1, <2>1, <2>2, <2>3, EntriesStay
<1>4. ASSUME NEW c \in Calls, NEW u \in A, Push!ReadTokens(c, u)
      PROVE  Push!PushInv'
  <2>. DEFINE active == {v1[o].token : o \in {<<u, p>> : p \in {q \in Devices : v1[<<u, q>>].active}}}
  <2>1. /\ v3[c] = "idle" /\ Push!Turn(c, "send", none, active)
        /\ UNCHANGED <<v1, v2, v6, v7, v8, v9>>
    BY <1>4 DEF Push!ReadTokens, Push!historyVars
  <2>2. active \in SUBSET B
    <3>1. ASSUME NEW q \in Devices, v1[<<u, q>>].active PROVE v1[<<u, q>>].token \in B
      <4>1. <<u, q>> \in Push!Owners BY DEF Push!Owners
      <4>. QED BY <1>0, <1>1, <3>1, <4>1 DEF Entry
    <3>. QED BY <3>1
  <2>. HIDE DEF active
  <2>3. none \in Push!Owners \cup {none} OBVIOUS
  <2>. QED BY <1>0, <1>1, <2>1, <2>2, <2>3, EntriesStay
<1>5. ASSUME NEW c \in Calls, Push!SendPush(c)
      PROVE  Push!PushInv'
  <2>. DEFINE gone == v5[c] \ {v2[p] : p \in Devices}
  <2>1. /\ v3[c] = "send" /\ v7' = v7 \cup gone
        /\ Push!Turn(c, "idle", none, {}) \/ Push!Turn(c, "deactivate", none, gone)
        /\ UNCHANGED <<v1, v2, v6, v8, v9>>
    BY <1>5 DEF Push!SendPush, Push!Finish
  <2>2. gone \in SUBSET B /\ {} \in SUBSET B /\ none \in Push!Owners \cup {none} BY <1>1
  <2>. HIDE DEF gone
  <2>3. CASE Push!Turn(c, "idle", none, {}) BY <1>0, <1>1, <2>1, <2>2, <2>3, EntriesStay
  <2>4. CASE Push!Turn(c, "deactivate", none, gone) BY <1>0, <1>1, <2>1, <2>2, <2>4, EntriesStay
  <2>. QED BY <2>1, <2>3, <2>4
<1>6. ASSUME NEW c \in Calls, Push!CallDies(c)
      PROVE  Push!PushInv'
  <2>1. /\ v9 < MaxFaults /\ v9' = v9 + 1
        /\ v7' = v7 \cup (IF v3[c] = "upsert" THEN v5[c] ELSE {})
        /\ Push!Turn(c, "idle", none, {})
        /\ UNCHANGED <<v1, v2, v6, v8>>
    BY <1>6 DEF Push!CallDies, Push!Finish
  <2>2. v9' \in 0 .. MaxFaults BY <1>1, <2>1, PushTokensAssumed DEF Push!PushTokenAssumption
  <2>3. /\ v7 \subseteq v7' /\ v7' \subseteq B
        /\ v3[c] = "upsert" => v5[c] \subseteq v7'
    BY <1>1, <2>1
  <2>4. {} \in SUBSET B /\ none \in Push!Owners \cup {none} OBVIOUS
  <2>. QED BY <1>0, <2>1, <2>2, <2>3, <2>4, EntriesStay
<1>. QED
  BY <1>2, <1>3, <1>4, <1>5, <1>6, SilenceTokenKeeps, UpsertTokenKeeps, DeactivateTokenKeeps,
   RemoveTokenKeeps DEF Push!Next

(* No two entries have a token, and what is silent has a cause or comes    *)
(* back with the registration under way.                                   *)
THEOREM TokensCorrect == Spec => [](focus = "push" => Push!PushInv)
<1>. DEFINE Inv == focus = "push" => Push!PushInv
<1>1. Init => Inv BY PushStarts
<1>2. Inv /\ [Next]_vars => Inv'
  <2>. SUFFICES ASSUME Inv, [Next]_vars, focus' = "push"
                PROVE  Push!PushInv'
    OBVIOUS
  <2>1. focus = "push" BY DEF Next, vars
  <2>2. Push!Next \/ UNCHANGED PushVars BY <2>1, PushStep
  <2>3. CASE Push!Next BY <2>1, <2>3, PushKept
  <2>4. CASE UNCHANGED PushVars BY <2>1, <2>4, PhonesChange DEF PushVars, Push!PushInv, Push!TypeOK
  <2>. QED BY <2>2, <2>3, <2>4
<1>. QED BY <1>1, <1>2, PTL DEF Spec

(* Pushes for two members never go to one phone, and a member who has      *)
(* registered is silent only with a cause.                                 *)
THEOREM PushesAreHeard == Spec => []PushesArrive
<1>1. (focus = "push" => Push!PushInv) => PushesArrive
  BY DEF PushesArrive, Push!PushInv, Push!OneListener, Push!SilentOnlyWithCause,
   Push!OneEntryPerToken, Push!ComesBack
<1>. QED BY <1>1, TokensCorrect, PTL

(* LifetimeImport: sheet is v1, account v2, offered v3, writing v4,        *)
(* imported v5, overlapped v6 and changes v7.                              *)

ImportVars == <<v1, v2, v3, v4, v5, v6, v7>>

LEMMA ImportStep ==
    ASSUME focus = "lifetime", [Next]_vars
    PROVE  focus' = "lifetime" /\ (Import!Next \/ UNCHANGED ImportVars)
BY DEF Next, vars, ImportVars

LEMMA ImportStarts ==
    ASSUME focus = "lifetime", Init
    PROVE  Import!ImportInv
<1>1. Import!Init /\ MaxChanges \in Nat
  BY LifetimeImportAssumed DEF Init, Import!LifetimeImportAssumption
<1>2. Import!TypeOK BY <1>1 DEF Import!Init, Import!TypeOK
<1>. QED
  BY <1>1, <1>2 DEF Import!Init, Import!ImportInv, Import!OneUpdatePerMember, Import!UpdatesAreNews,
   Import!ImportsAreNews

\* Nothing is confirmed and nobody changes: updates are dropped at most.
LEMMA UpdatesEnd ==
    ASSUME Import!ImportInv, UNCHANGED <<v1, v2, v5, v6, v7>>,
           v3' \in [A -> [Rows -> SUBSET Members]],
           v4' \in [A -> SUBSET Import!Update],
           \A a \in A : v4'[a] \subseteq v4[a]
    PROVE  Import!ImportInv'
<1>1. Import!TypeOK' BY DEF Import!ImportInv, Import!TypeOK
<1>2. Import!OneUpdatePerMember' BY DEF Import!ImportInv, Import!OneUpdatePerMember
<1>3. Import!UpdatesAreNews' /\ Import!ImportsAreNews'
  BY DEF Import!ImportInv, Import!UpdatesAreNews, Import!ImportsAreNews
<1>. QED BY <1>1, <1>2, <1>3 DEF Import!ImportInv

LEMMA CandidatesAreMembers ==
    ASSUME NEW r \in Rows
    PROVE  Import!Candidates(r) \subseteq Members
BY DEF Import!Candidates, Import!Pointed, Import!Strong, Import!Named, Import!There

LEMMA ConfirmKeeps ==
    ASSUME Import!ImportInv, NEW a \in A, NEW chosen,
           chosen \in Import!Choices(a),
           Import!ConfirmLifetimeMemberImport(a, chosen)
    PROVE  Import!ImportInv'
<1>. DEFINE rows == {r \in DOMAIN chosen : Import!Importable(r, chosen[r])}
            Made(r) == [row |-> r, member |-> chosen[r],
                        type |-> Import!LifetimeType(r, chosen[r]),
                        phone |-> v2[chosen[r]].phone = none /\ v1[r].phone # none]
            new == {Made(r) : r \in rows}
<1>0. /\ Import!TypeOK /\ Import!OneUpdatePerMember
      /\ Import!UpdatesAreNews /\ Import!ImportsAreNews
  BY DEF Import!ImportInv
<1>1. /\ v4[a] = {}
      /\ \A r, s \in DOMAIN chosen : chosen[r] = chosen[s] => r = s
      /\ v6' = v6 \cup {m \in {chosen[r] : r \in rows} : Import!Pending(m)}
      /\ v4' = [v4 EXCEPT ![a] = new]
      /\ v3' = [v3 EXCEPT ![a] = [r \in Rows |-> {}]]
      /\ UNCHANGED <<v1, v2, v5, v7>>
  BY DEF Import!ConfirmLifetimeMemberImport
<1>2. /\ v3 \in [A -> [Rows -> SUBSET Members]] /\ v6 \subseteq Members
      /\ v4 \in [A -> SUBSET Import!Update]
  BY <1>0 DEF Import!TypeOK
<1>3. \A r \in rows : r \in Rows /\ chosen[r] \in Members BY DEF Import!Choices
<1>4. ASSUME NEW r \in rows
      PROVE  /\ Made(r) \in Import!Update /\ Made(r).member = chosen[r]
             /\ ~v2[chosen[r]].lifetime
             /\ Made(r).phone => v2[chosen[r]].phone = none
  <2>1. PICK b \in BOOLEAN : b = (v2[chosen[r]].phone = none /\ v1[r].phone # none) BY Zenon
  <2>2. PICK t \in Import!Types : t = Import!LifetimeType(r, chosen[r])
    BY DEF Import!Types, Import!LifetimeType
  <2>3. \A q \in Rows, m \in Members, x \in Import!Types, p \in BOOLEAN :
          LET y == [row |-> q, member |-> m, type |-> x, phone |-> p]
          IN  y \in Import!Update /\ y.member = m /\ y.phone = p
    BY DEF Import!Update
  <2>4. LET y == [row |-> r, member |-> chosen[r], type |-> t, phone |-> b]
        IN  y \in Import!Update /\ y.member = chosen[r] /\ y.phone = b
    BY <1>3, <2>3, Zenon
  <2>5. Made(r) = [row |-> r, member |-> chosen[r], type |-> t, phone |-> b] BY <2>1, <2>2, Zenon
  <2>6. Made(r) \in Import!Update /\ Made(r).member = chosen[r] /\ Made(r).phone = b
    BY <2>4, <2>5, Zenon
  <2>7. ~v2[chosen[r]].lifetime BY DEF Import!Importable
  <2>. QED BY <2>1, <2>6, <2>7, Zenon
<1>5. \A w \in new : \E r \in rows : w = Made(r) BY Zenon
<1>6. \A r \in rows : Import!Pending(chosen[r]) => chosen[r] \in v6' BY <1>1
<1>7. /\ v4' \in [A -> SUBSET Import!Update]
      /\ v3' \in [A -> [Rows -> SUBSET Members]]
      /\ v6 \subseteq v6' /\ v6' \subseteq Members
      /\ v4'[a] = new /\ \A b \in A \ {a} : v4'[b] = v4[b]
  <2>1. new \subseteq Import!Update BY <1>4, <1>5, Zenon
  <2>2. {chosen[r] : r \in rows} \subseteq Members BY <1>3
  <2>. HIDE DEF new, rows
  <2>. QED BY <1>1, <1>2, <2>1, <2>2
<1>. HIDE DEF new, Made
<1>8. Import!TypeOK' /\ Import!ImportsAreNews'
  BY <1>0, <1>1, <1>7 DEF Import!TypeOK, Import!ImportsAreNews
<1>9. Import!UpdatesAreNews'
  <2>. SUFFICES ASSUME NEW b \in A, NEW u \in v4'[b], u.member \notin v6'
                PROVE  ~v2[u.member].lifetime /\ (u.phone => v2[u.member].phone = none)
    BY <1>1 DEF Import!UpdatesAreNews
  <2>1. CASE b = a BY <1>4, <1>5, <1>7, <2>1
  <2>2. CASE b # a BY <1>0, <1>7, <2>2 DEF Import!UpdatesAreNews
  <2>. QED BY <2>1, <2>2
<1>10. Import!OneUpdatePerMember'
  <2>1. ASSUME NEW u \in new, NEW b \in A \ {a}, NEW w \in v4[b], u.member = w.member
        PROVE  u.member \in v6'
    <3>1. PICK r \in rows : u.member = chosen[r] BY <1>4, <1>5, <2>1
    <3>2. Import!Pending(chosen[r]) BY <2>1, <3>1 DEF Import!Pending
    <3>. QED BY <1>6, <3>1, <3>2
  <2>2. ASSUME NEW u \in new, NEW w \in new, u.member = w.member
        PROVE  u = w
    <3>1. PICK r \in rows : u = Made(r) /\ u.member = chosen[r] BY <1>4, <1>5
    <3>2. PICK s \in rows : w = Made(s) /\ w.member = chosen[s] BY <1>4, <1>5
    <3>. QED BY <1>1, <2>2, <3>1, <3>2
  <2>. SUFFICES ASSUME NEW b \in A, NEW d \in A, NEW u \in v4'[b], NEW w \in v4'[d],
                       u.member = w.member, u.member \notin v6'
                PROVE  b = d /\ u = w
    BY DEF Import!OneUpdatePerMember
  <2>3. CASE b = a /\ d = a BY <1>7, <2>2, <2>3
  <2>4. CASE b = a /\ d # a BY <1>7, <2>1, <2>4
  <2>5. CASE b # a /\ d = a BY <1>7, <2>1, <2>5
  <2>6. CASE b # a /\ d # a BY <1>0, <1>7, <2>6 DEF Import!OneUpdatePerMember
  <2>. QED BY <2>3, <2>4, <2>5, <2>6
<1>. QED BY <1>8, <1>9, <1>10 DEF Import!ImportInv

LEMMA UpdateOneKeeps ==
    ASSUME Import!ImportInv, NEW a \in A, NEW u, Import!UpdateOne(a, u)
    PROVE  Import!ImportInv'
<1>0. /\ Import!TypeOK /\ Import!OneUpdatePerMember
      /\ Import!UpdatesAreNews /\ Import!ImportsAreNews
  BY DEF Import!ImportInv
<1>1. /\ u \in v4[a] /\ v4' = [v4 EXCEPT ![a] = @ \ {u}]
      /\ UNCHANGED <<v1, v3, v6, v7>>
  BY DEF Import!UpdateOne
<1>2. /\ v1 \in [Rows -> [email : Members \cup {none}, phone : Phones \cup {none},
                          name : Names \cup {none}, category : BOOLEAN]]
      /\ v2 \in [Members -> Import!Account]
      /\ v3 \in [A -> [Rows -> SUBSET Members]]
      /\ v4 \in [A -> SUBSET Import!Update]
  BY <1>0, LifetimeImportAssumed DEF Import!TypeOK, Import!LifetimeImportAssumption
<1>3. /\ v4' \in [A -> SUBSET Import!Update]
      /\ v4'[a] = v4[a] \ {u} /\ \A b \in A \ {a} : v4'[b] = v4[b]
  BY <1>1, <1>2
<1>4. /\ u \in Import!Update
      /\ u.row \in Rows /\ u.member \in Members /\ u.type \in Import!Types /\ u.phone \in BOOLEAN
  BY <1>1, <1>2 DEF Import!Update
<1>5. CASE ~v2[u.member].there
  <2>1. UNCHANGED <<v2, v5>> BY <1>5 DEF Import!UpdateOne
  <2>. QED BY <1>1, <1>2, <1>3, <2>1, UpdatesEnd
<1>6. CASE v2[u.member].there
  <2>. DEFINE d == v2[u.member]
              i == [row |-> u.row, member |-> u.member, type |-> u.type,
                    was |-> d.lifetime, phone |-> u.phone /\ d.phone # none]
              e == [d EXCEPT !.lifetime = TRUE, !.phone = IF u.phone THEN v1[u.row].phone ELSE @]
  <2>1. /\ v2' = [v2 EXCEPT ![u.member].lifetime = TRUE,
                             ![u.member].phone = IF u.phone THEN v1[u.row].phone ELSE @]
        /\ v5' = v5 \cup {i}
    BY <1>6 DEF Import!UpdateOne
  <2>2. d \in Import!Account BY <1>2, <1>4
  <2>3. v2' = [v2 EXCEPT ![u.member] = e] BY <1>2, <1>4, <2>1, <2>2 DEF Import!Account
  <2>4. e \in Import!Account
    <3>1. PICK p \in Phones \cup {none} : p = IF u.phone THEN v1[u.row].phone ELSE d.phone
      BY <1>2, <1>4, <2>2 DEF Import!Account
    <3>2. \A x \in Import!Account, q \in Phones \cup {none} :
              [x EXCEPT !.lifetime = TRUE, !.phone = q] \in Import!Account
      BY DEF Import!Account
    <3>3. e = [d EXCEPT !.lifetime = TRUE, !.phone = p] BY <2>2, <3>1 DEF Import!Account
    <3>. QED BY <2>2, <3>2, <3>3
  <2>. HIDE DEF e
  <2>5. v2' \in [Members -> Import!Account] /\ \A m \in Members : m # u.member => v2'[m] = v2[m]
    BY <1>2, <1>4, <2>3, <2>4
  <2>6. i \in Import!Import /\ i.member = u.member
        /\ (i.was <=> d.lifetime) /\ (i.phone <=> u.phone /\ d.phone # none)
    <3>1. PICK b \in BOOLEAN : b = (u.phone /\ d.phone # none) BY Zenon
    <3>2. d.lifetime \in BOOLEAN BY <2>2 DEF Import!Account
    <3>3. \A r \in Rows, m \in Members, x \in Import!Types, w \in BOOLEAN, q \in BOOLEAN :
            LET y == [row |-> r, member |-> m, type |-> x, was |-> w, phone |-> q]
            IN  y \in Import!Import /\ y.member = m /\ y.was = w /\ y.phone = q
      BY DEF Import!Import
    <3>4. LET y == [row |-> u.row, member |-> u.member, type |-> u.type,
                    was |-> d.lifetime, phone |-> b]
          IN  y \in Import!Import /\ y.member = u.member /\ y.was = d.lifetime /\ y.phone = b
      BY <1>4, <3>2, <3>3, Zenon
    <3>. QED BY <3>1, <3>4, Zenon
  <2>. HIDE DEF i
  <2>7. Import!TypeOK' BY <1>0, <1>1, <1>3, <2>1, <2>5, <2>6 DEF Import!TypeOK
  <2>8. Import!ImportsAreNews'
    <3>1. i.was \/ i.phone => u.member \in v6 BY <1>0, <1>1, <2>6 DEF Import!UpdatesAreNews
    <3>. QED BY <1>0, <1>1, <2>1, <2>6, <3>1 DEF Import!ImportsAreNews
  <2>9. Import!OneUpdatePerMember' BY <1>0, <1>1, <1>3 DEF Import!OneUpdatePerMember
  <2>10. Import!UpdatesAreNews'
    <3>. SUFFICES ASSUME NEW b \in A, NEW w \in v4'[b], w.member \notin v6
                  PROVE  ~v2'[w.member].lifetime /\ (w.phone => v2'[w.member].phone = none)
      BY <1>1 DEF Import!UpdatesAreNews
    <3>1. w \in v4[b] /\ w.member \in Members BY <1>2, <1>3 DEF Import!Update
    <3>2. w.member # u.member BY <1>0, <1>1, <1>3, <3>1 DEF Import!OneUpdatePerMember
    <3>. QED BY <1>0, <2>5, <3>1, <3>2 DEF Import!UpdatesAreNews
  <2>. QED BY <2>7, <2>8, <2>9, <2>10 DEF Import!ImportInv
<1>. QED BY <1>5, <1>6

LEMMA ChangeKeeps ==
    ASSUME Import!ImportInv, NEW m \in Members, NEW d \in Import!Account,
           Import!Change(m, d)
    PROVE  Import!ImportInv'
<1>0. /\ Import!TypeOK /\ Import!OneUpdatePerMember
      /\ Import!UpdatesAreNews /\ Import!ImportsAreNews
  BY DEF Import!ImportInv
<1>1. /\ v7 < MaxChanges /\ v7' = v7 + 1 /\ v2' = [v2 EXCEPT ![m] = d]
      /\ v6' = IF Import!Pending(m) THEN v6 \cup {m} ELSE v6
      /\ UNCHANGED <<v1, v3, v4, v5>>
  BY DEF Import!Change
<1>2. MaxChanges \in Nat /\ v7 \in 0 .. MaxChanges
      /\ v2 \in [Members -> Import!Account] /\ v6 \subseteq Members
      /\ v4 \in [A -> SUBSET Import!Update]
  BY <1>0, LifetimeImportAssumed DEF Import!TypeOK, Import!LifetimeImportAssumption
<1>3. /\ v7' \in 0 .. MaxChanges /\ v2' \in [Members -> Import!Account]
      /\ v6 \subseteq v6' /\ v6' \subseteq Members
      /\ \A q \in Members : q # m => v2'[q] = v2[q]
  BY <1>1, <1>2
<1>4. Import!TypeOK' BY <1>0, <1>1, <1>3 DEF Import!TypeOK
<1>5. Import!OneUpdatePerMember' /\ Import!ImportsAreNews'
  BY <1>0, <1>1, <1>3 DEF Import!OneUpdatePerMember, Import!ImportsAreNews
<1>6. Import!UpdatesAreNews'
  <2>. SUFFICES ASSUME NEW b \in A, NEW w \in v4[b], w.member \notin v6'
                PROVE  ~v2'[w.member].lifetime /\ (w.phone => v2'[w.member].phone = none)
    BY <1>1 DEF Import!UpdatesAreNews
  <2>1. w.member # m BY <1>1 DEF Import!Pending
  <2>2. w.member \in Members BY <1>2 DEF Import!Update
  <2>. QED BY <1>0, <1>3, <2>1, <2>2 DEF Import!UpdatesAreNews
<1>. QED BY <1>4, <1>5, <1>6 DEF Import!ImportInv

LEMMA ImportKept ==
    ASSUME Import!ImportInv, Import!Next
    PROVE  Import!ImportInv'
<1>0. /\ v2 \in [Members -> Import!Account]
      /\ v3 \in [A -> [Rows -> SUBSET Members]]
      /\ v4 \in [A -> SUBSET Import!Update]
  BY DEF Import!ImportInv, Import!TypeOK
<1>1. ASSUME NEW a \in A, Import!PreviewLifetimeMemberImport(a)
      PROVE  Import!ImportInv'
  <2>1. /\ v3' = [v3 EXCEPT ![a] = [r \in Rows |-> Import!Candidates(r)]]
        /\ UNCHANGED <<v1, v2, v4, v5, v6, v7>>
    BY <1>1 DEF Import!PreviewLifetimeMemberImport
  <2>2. [r \in Rows |-> Import!Candidates(r)] \in [Rows -> SUBSET Members] BY CandidatesAreMembers
  <2>. QED BY <1>0, <2>1, <2>2, UpdatesEnd
<1>2. ASSUME NEW a \in A, NEW u, Import!UpdateFails(a, u)
      PROVE  Import!ImportInv'
  BY <1>0, <1>2, UpdatesEnd DEF Import!UpdateFails
<1>3. ASSUME NEW m \in Members,
             \/ Import!UpdateMember(m) \/ Import!ActivateLifetime(m)
             \/ Import!Remove(m)
      PROVE  Import!ImportInv'
  <2>1. \A x \in Import!Account, n \in Names, p \in Phones \cup {none} :
          /\ [x EXCEPT !.name = n, !.phone = p] \in Import!Account
          /\ [x EXCEPT !.lifetime = TRUE] \in Import!Account
          /\ [x EXCEPT !.there = FALSE] \in Import!Account
    BY DEF Import!Account
  <2>2. v2[m] \in Import!Account /\ v2[m].name \in Names /\ none \in Phones \cup {none}
    BY <1>0 DEF Import!Account
  <2>3. PICK d \in Import!Account : Import!Change(m, d)
    BY <1>3, <2>1, <2>2 DEF Import!UpdateMember, Import!ActivateLifetime, Import!Remove
  <2>. QED BY <2>3, ChangeKeeps
<1>. QED BY <1>1, <1>2, <1>3, ConfirmKeeps, UpdateOneKeeps DEF Import!Next

(* Unless something overlaps, a member has one update under way, which     *)
(* gives what he does not have.                                            *)
THEOREM ImportsCorrect == Spec => [](focus = "lifetime" => Import!ImportInv)
<1>. DEFINE Inv == focus = "lifetime" => Import!ImportInv
<1>1. Init => Inv BY ImportStarts
<1>2. Inv /\ [Next]_vars => Inv'
  <2>. SUFFICES ASSUME Inv, [Next]_vars, focus' = "lifetime"
                PROVE  Import!ImportInv'
    OBVIOUS
  <2>1. focus = "lifetime" BY DEF Next, vars
  <2>2. Import!Next \/ UNCHANGED ImportVars BY <2>1, ImportStep
  <2>3. CASE Import!Next BY <2>1, <2>3, ImportKept
  <2>4. CASE UNCHANGED ImportVars
    BY <2>1, <2>4, UpdatesEnd DEF ImportVars, Import!ImportInv, Import!TypeOK
  <2>. QED BY <2>2, <2>3, <2>4
<1>. QED BY <1>1, <1>2, PTL DEF Spec

(* Nobody is given lifetime membership or a phone twice by an import.      *)
THEOREM ImportsAreNewsAlways == Spec => []ImportsAreNews
<1>1. (focus = "lifetime" => Import!ImportInv) => ImportsAreNews
  BY DEF ImportsAreNews, Import!ImportInv
<1>. QED BY <1>1, ImportsCorrect, PTL

LEMMA VolunteeringStep ==
    ASSUME focus = "volunteering", [Next]_vars
    PROVE  focus' = "volunteering" /\ (Jobs!Next \/ UNCHANGED VolunteeringVars)
BY DEF Next, vars, VolunteeringVars

(* A sign-up found a place, a mark points at its member, an application is *)
(* new, for as long as nothing overlaps.                                   *)
THEOREM VolunteeringCorrect == Spec => [](focus = "volunteering" => Jobs!VolunteeringInv)
<1>. DEFINE Inv == focus = "volunteering" => Jobs!VolunteeringInv
<1>1. Init => Inv BY VolunteeringStarts DEF Init
<1>2. Inv /\ [Next]_vars => Inv'
  <2>. SUFFICES ASSUME focus = "volunteering", Jobs!VolunteeringInv, [Next]_vars
                PROVE  Jobs!VolunteeringInv'
    BY DEF Next, vars
  <2>. QED BY VolunteeringStep, VolunteeringGoesOn
<1>. QED BY <1>1, <1>2, PTL DEF Spec

(* Discussion: reaction is v1, entry v2, attending v3, accounts v4,        *)
(* feedback v5, call v6, taps v7, crossed v8, attended v9 and calls v10.   *)

DiscussionVars == <<v1, v2, v3, v4, v5, v6, v7, v8, v9, v10>>

Taps == {"react", "unreact"}

LEMMA DiscussionStep ==
    ASSUME focus = "discussion", [Next]_vars
    PROVE  focus' = "discussion" /\ (Forum!Next \/ UNCHANGED DiscussionVars)
BY DEF Next, vars, DiscussionVars

LEMMA DiscussionTypes ==
    ASSUME Forum!TypeOK
    PROVE  /\ v1 \subseteq A /\ v5 \subseteq A /\ v2 \subseteq Forum!Entries
           /\ v3 \subseteq A /\ v4 \subseteq A /\ v6 \in [B -> Forum!Steps]
           /\ v7 \in [A -> 0 .. 1] /\ v8 \subseteq A /\ v9 \subseteq A /\ v10 \in 0 .. MaxCalls
           /\ MaxCalls \in Nat
BY DiscussionAssumed DEF Forum!TypeOK, Forum!DiscussionAssumption

LEMMA StepsName ==
    ASSUME NEW s \in Forum!Steps
    PROVE  /\ s.op \in {"idle", "react", "unreact", "rate", "delete", "update"}
           /\ s.op # "idle" => s.who \in A
           /\ s.op = "idle" <=> s = Forum!Idle
           /\ s.op \in {"delete", "update"} => s.entry \in Forum!Entries
BY DEF Forum!Steps, Forum!Idle

LEMMA TappingSet ==
    ASSUME NEW m, Forum!Tapping(m) = {}
    PROVE  \A c \in B : v6[c].op \in Taps => v6[c].who # m
BY DEF Forum!Tapping, Taps

\* The pages of attendees, whatever else holds.
LEMMA AttendeesFallShort ==
    ASSUME NEW P \in SUBSET A, NEW Q
    PROVE  Forum!Cardinality(P \cap Q) < Forum!Cardinality(P) <=> P \ Q # {}
<1>0. \A S : Forum!Cardinality(S) = Cardinality(S) BY Zenon DEF Forum!Cardinality, Cardinality
<1>1. IsFiniteSet(A)
  <2>1. Forum!IsFiniteSet(A) BY DiscussionAssumed, Zenon DEF Forum!DiscussionAssumption
  <2>. QED BY <2>1 DEF Forum!IsFiniteSet, IsFiniteSet
<1>2. IsFiniteSet(P) /\ P \cap Q \in SUBSET P BY <1>1, FS_Subset
<1>3. IsFiniteSet(P \cap Q) /\ Cardinality(P) \in Nat /\ Cardinality(P \cap Q) \in Nat
      /\ Cardinality(P \cap Q) <= Cardinality(P)
      /\ (Cardinality(P) = Cardinality(P \cap Q) => P = P \cap Q)
  BY <1>2, FS_Subset, FS_CardinalityType
<1>4. P \ Q = {} <=> P = P \cap Q OBVIOUS
<1>5. Cardinality(P \cap Q) < Cardinality(P) <=> P \ Q # {} BY <1>3, <1>4
<1>. QED BY <1>0, <1>5

LEMMA DiscussionHolds ==
    ASSUME Forum!TypeOK,
           \A m \in A \ v8 : (m \in v1) <=> (v7[m] = 1),
           v5 \subseteq v9
    PROVE  Forum!TapsAlternate
<1>1. v3 \in SUBSET A BY DiscussionTypes
<1>2. Forum!Cardinality(v3 \cap v4) < Forum!Cardinality(v3) <=> v3 \ v4 # {}
  BY <1>1, AttendeesFallShort
<1>. QED BY <1>2 DEF Forum!TapsAlternate, Forum!GetEventAttendees

LEMMA DiscussionStarts ==
    ASSUME focus = "discussion", Init
    PROVE  Forum!DiscussionInv
<1>1. Forum!Init /\ MaxCalls \in Nat BY DiscussionAssumed DEF Init, Forum!DiscussionAssumption
<1>2. \A c \in B : v6[c] = Forum!Idle /\ v6[c].op = "idle" BY <1>1 DEF Forum!Init, Forum!Idle
<1>3. Forum!TypeOK
  <2>1. v6 \in [B -> Forum!Steps] BY <1>1 DEF Forum!Init, Forum!Steps
  <2>. QED BY <1>1, <2>1 DEF Forum!Init, Forum!TypeOK
<1>4. (\A m \in A \ v8 : (m \in v1) <=> (v7[m] = 1)) /\ v5 \subseteq v9 BY <1>1 DEF Forum!Init
<1>5. Forum!TapsAlternate BY <1>3, <1>4, DiscussionHolds
<1>6. Forum!TapsFoundIt /\ Forum!RatersAttended BY <1>2 DEF Forum!TapsFoundIt, Forum!RatersAttended
<1>. QED BY <1>3, <1>5, <1>6 DEF Forum!DiscussionInv

LEMMA PrimedDiscussionHolds ==
    ASSUME Forum!TypeOK',
           \A m \in A \ v8' : (m \in v1') <=> (v7'[m] = 1),
           v5' \subseteq v9'
    PROVE  Forum!TapsAlternate'
<1>1. v3' \in SUBSET A BY DEF Forum!TypeOK
<1>2. Forum!Cardinality(v3' \cap v4') < Forum!Cardinality(v3') <=> v3' \ v4' # {}
  BY <1>1, AttendeesFallShort
<1>. QED BY <1>2 DEF Forum!TapsAlternate, Forum!GetEventAttendees

\* No tap begins or is answered; one of them may break off.
LEMMA TapsAreLeftAlone ==
    ASSUME Forum!DiscussionInv, Forum!TypeOK',
           UNCHANGED <<v1, v7, v8>>,
           \A c \in B : v6'[c] = v6[c] \/ v6'[c].op \notin {"react", "unreact"},
           v5' \subseteq v9', v9 \subseteq v9',
           \A c \in B : v6'[c] = v6[c] \/ (v6'[c].op = "rate" => v6'[c].who \in v9')
    PROVE  Forum!DiscussionInv'
<1>1. Forum!TapsAlternate' BY PrimedDiscussionHolds DEF Forum!DiscussionInv, Forum!TapsAlternate
<1>2. Forum!TapsFoundIt' BY DEF Forum!DiscussionInv, Forum!TapsFoundIt
<1>3. Forum!RatersAttended' BY DEF Forum!DiscussionInv, Forum!RatersAttended
<1>. QED BY <1>1, <1>2, <1>3 DEF Forum!DiscussionInv

LEMMA StepGoes ==
    ASSUME Forum!TypeOK, NEW c \in B, NEW s \in Forum!Steps, Forum!GoTo(c, s)
    PROVE  v6' \in [B -> Forum!Steps] /\ v6'[c] = s /\ \A d \in B : d # c => v6'[d] = v6[d]
BY DiscussionTypes DEF Forum!GoTo

LEMMA FindReactionKeeps ==
    ASSUME Forum!DiscussionInv, NEW c \in B, NEW m \in A, Forum!FindReaction(c, m)
    PROVE  Forum!DiscussionInv'
<1>. DEFINE s == [op |-> IF m \in v1 THEN "unreact" ELSE "react", who |-> m]
<1>0. /\ Forum!TypeOK /\ Forum!TapsFoundIt /\ Forum!RatersAttended
      /\ Forum!TapsAlternate
  BY DEF Forum!DiscussionInv
<1>1. /\ v6[c] = Forum!Idle /\ v10 < MaxCalls /\ v10' = v10 + 1 /\ Forum!GoTo(c, s)
      /\ v8' = IF Forum!Tapping(m) # {} THEN v8 \cup {m} ELSE v8
      /\ UNCHANGED <<v1, v2, v3, v4, v5, v7, v9>>
  BY DEF Forum!FindReaction, Forum!Arrive
<1>2. /\ s \in Forum!Steps /\ s.who = m /\ s.op \in {"react", "unreact"}
      /\ (s.op = "react" <=> m \notin v1)
  BY DEF Forum!Steps
<1>. HIDE DEF s
<1>3. v6' \in [B -> Forum!Steps] /\ v6'[c] = s /\ \A d \in B : d # c => v6'[d] = v6[d]
  BY <1>0, <1>1, <1>2, StepGoes
<1>4. v8 \subseteq v8' /\ v8' \subseteq A /\ (m \notin v8' => Forum!Tapping(m) = {})
  BY <1>0, <1>1, DiscussionTypes
<1>5. Forum!TypeOK' BY <1>0, <1>1, <1>3, <1>4, DiscussionTypes DEF Forum!TypeOK
<1>6. Forum!TapsAlternate' BY <1>0, <1>1, <1>4, <1>5, PrimedDiscussionHolds DEF Forum!TapsAlternate
<1>7. v6[c].op = "idle" BY <1>1 DEF Forum!Idle
<1>8. Forum!TapsFoundIt'
  <2>1. m \notin v8' => \A d \in B : v6[d].op \in Taps => v6[d].who # m BY <1>4, TappingSet
  <2>2. \A d \in B : d # c /\ v6'[d].op \in Taps /\ v6'[d].who \notin v8' =>
          /\ (v6'[d].op = "react") <=> (v6'[d].who \notin v1')
          /\ \A e \in B : v6'[e].op \in Taps /\ e # d => v6'[e].who # v6'[d].who
    BY <1>0, <1>1, <1>2, <1>3, <1>4, <2>1 DEF Forum!TapsFoundIt, Taps
  <2>3. v6'[c].who \notin v8' =>
          /\ (v6'[c].op = "react") <=> (v6'[c].who \notin v1')
          /\ \A e \in B : v6'[e].op \in Taps /\ e # c => v6'[e].who # v6'[c].who
    BY <1>1, <1>2, <1>3, <2>1
  <2>. QED BY <2>2, <2>3 DEF Forum!TapsFoundIt, Taps
<1>9. Forum!RatersAttended' BY <1>0, <1>1, <1>2, <1>3 DEF Forum!RatersAttended
<1>. QED BY <1>5, <1>6, <1>8, <1>9 DEF Forum!DiscussionInv

LEMMA ToggleReactionKeeps ==
    ASSUME Forum!DiscussionInv, NEW c \in B, Forum!ToggleReaction(c)
    PROVE  Forum!DiscussionInv'
<1>. DEFINE m == v6[c].who
<1>0. /\ Forum!TypeOK /\ Forum!TapsFoundIt /\ Forum!RatersAttended
      /\ Forum!TapsAlternate
  BY DEF Forum!DiscussionInv
<1>1. /\ Forum!GoTo(c, Forum!Idle) /\ v7' = [v7 EXCEPT ![m] = 1 - @]
      /\ UNCHANGED <<v2, v3, v4, v5, v8, v9, v10>>
      /\ v6[c].op \in {"react", "unreact"}
      /\ \/ v6[c].op = "unreact" /\ v1' = v1 \ {m}
         \/ v6[c].op = "react" /\ v1' = v1 \cup {m}
  BY DEF Forum!ToggleReaction, Forum!Answered, Forum!Doing
<1>2. m \in A
  <2>1. v6[c] \in Forum!Steps BY <1>0, DiscussionTypes
  <2>. QED BY <1>1, <2>1, StepsName
<1>3. v6' \in [B -> Forum!Steps] /\ v6'[c].op = "idle" /\ \A d \in B : d # c => v6'[d] = v6[d]
  <2>1. Forum!Idle \in Forum!Steps /\ Forum!Idle.op = "idle" BY DEF Forum!Steps, Forum!Idle
  <2>. QED BY <1>0, <1>1, <2>1, StepGoes
<1>4. /\ v7' \in [A -> 0 .. 1] /\ v7'[m] = 1 - v7[m] /\ v7[m] \in 0 .. 1
      /\ \A n \in A : n # m => v7'[n] = v7[n]
  <2>1. v7 \in [A -> 0 .. 1] BY <1>0, DiscussionTypes
  <2>. HIDE DEF m
  <2>. QED BY <1>1, <1>2, <2>1
<1>5. m \notin v8 => /\ (v6[c].op = "react") <=> (m \notin v1)
                     /\ \A d \in B : v6[d].op \in Taps /\ d # c => v6[d].who # m
  BY <1>0, <1>1 DEF Forum!TapsFoundIt, Taps
<1>. HIDE DEF m
<1>6. v1' \subseteq A /\ \A n \in A : n # m => (n \in v1' <=> n \in v1)
  BY <1>0, <1>1, <1>2, DiscussionTypes
<1>7. Forum!TypeOK' BY <1>0, <1>1, <1>3, <1>4, <1>6 DEF Forum!TypeOK
<1>8. Forum!TapsAlternate'
  <2>1. \A n \in A \ v8 : (n \in v1) <=> (v7[n] = 1) BY <1>0 DEF Forum!TapsAlternate
  <2>2. m \notin v8 => ((m \in v1') <=> (v7'[m] = 1))
    <3>. SUFFICES ASSUME m \notin v8
                  PROVE  (m \in v1') <=> (v7'[m] = 1)
      OBVIOUS
    <3>1. (m \in v1) <=> (v7[m] = 1) BY <1>2, <2>1
    <3>2. (m \in v1') <=> (m \notin v1) BY <1>1, <1>5
    <3>. QED BY <1>4, <3>1, <3>2
  <2>3. \A n \in A \ v8' : (n \in v1') <=> (v7'[n] = 1) BY <1>1, <1>4, <1>6, <2>1, <2>2
  <2>4. v5' \subseteq v9' BY <1>0, <1>1 DEF Forum!TapsAlternate
  <2>. QED BY <1>7, <2>3, <2>4, PrimedDiscussionHolds
<1>9. Forum!TapsFoundIt'
  <2>1. ASSUME NEW d \in B, v6'[d].op \in Taps, v6'[d].who \notin v8'
        PROVE  /\ (v6'[d].op = "react") <=> (v6'[d].who \notin v1')
               /\ \A e \in B : v6'[e].op \in Taps /\ e # d => v6'[e].who # v6'[d].who
    <3>1. d # c /\ v6'[d] = v6[d] /\ v6[d].who \notin v8 BY <1>1, <1>3, <2>1 DEF Taps
    <3>2. /\ (v6[d].op = "react") <=> (v6[d].who \notin v1)
          /\ \A e \in B : v6[e].op \in Taps /\ e # d => v6[e].who # v6[d].who
      BY <1>0, <2>1, <3>1 DEF Forum!TapsFoundIt, Taps
    <3>3. v6[d] \in Forum!Steps BY <1>0, DiscussionTypes
    <3>4. v6[d].who \in A BY <2>1, <3>1, <3>3, StepsName DEF Taps
    <3>5. v6[d].who # m BY <1>1, <3>1, <3>2 DEF Taps, m
    <3>6. \A e \in B : v6'[e].op \in Taps => e # c BY <1>3 DEF Taps
    <3>. QED BY <1>3, <1>6, <3>1, <3>2, <3>4, <3>5, <3>6
  <2>. QED BY <2>1 DEF Forum!TapsFoundIt, Taps
<1>10. Forum!RatersAttended' BY <1>0, <1>1, <1>3 DEF Forum!RatersAttended
<1>. QED BY <1>7, <1>8, <1>9, <1>10 DEF Forum!DiscussionInv

LEMMA DiscussionKept ==
    ASSUME Forum!DiscussionInv, Forum!Next
    PROVE  Forum!DiscussionInv'
<1>0. Forum!TypeOK /\ Forum!RatersAttended /\ v5 \subseteq v9
  BY DEF Forum!DiscussionInv, Forum!TapsAlternate
<1>1. /\ v1 \subseteq A /\ v5 \subseteq A /\ v2 \subseteq Forum!Entries
      /\ v3 \subseteq A /\ v4 \subseteq A /\ v6 \in [B -> Forum!Steps]
      /\ v7 \in [A -> 0 .. 1] /\ v8 \subseteq A /\ v9 \subseteq A /\ v10 \in 0 .. MaxCalls
      /\ MaxCalls \in Nat
  BY <1>0, DiscussionTypes
<1>2. Forum!Idle \in Forum!Steps /\ Forum!Idle.op = "idle" BY DEF Forum!Steps, Forum!Idle
<1>3. ASSUME NEW c \in B,
             \/ Forum!ReactionRefused(c) \/ Forum!DeleteComment(c)
             \/ Forum!DeletePersonalEvent(c) \/ Forum!UpdatePersonalEvent(c)
             \/ Forum!SubmitEventFeedback(c) \/ Forum!CallBreaksOff(c)
      PROVE  Forum!DiscussionInv'
  <2>1. /\ Forum!GoTo(c, Forum!Idle) /\ UNCHANGED <<v1, v3, v4, v7, v8, v9, v10>>
        /\ v2' \subseteq v2
    BY <1>3 DEF Forum!ReactionRefused, Forum!DeleteComment, Forum!DeletePersonalEvent,
     Forum!UpdatePersonalEvent, Forum!SubmitEventFeedback, Forum!CallBreaksOff, Forum!Write
  <2>2. v5' \subseteq v9
    <3>1. CASE Forum!SubmitEventFeedback(c)
      BY <1>0, <3>1 DEF Forum!SubmitEventFeedback, Forum!RatersAttended, Forum!Doing
    <3>2. CASE v5' = v5 BY <1>0, <3>2
    <3>. QED
      BY <1>3, <3>1, <3>2 DEF Forum!ReactionRefused, Forum!DeleteComment, Forum!DeletePersonalEvent,
       Forum!UpdatePersonalEvent, Forum!CallBreaksOff, Forum!Write
  <2>3. v6' \in [B -> Forum!Steps] /\ v6'[c].op = "idle"
        /\ \A d \in B : d # c => v6'[d] = v6[d]
    BY <1>0, <1>2, <2>1, StepGoes
  <2>4. Forum!TypeOK' BY <1>1, <2>1, <2>2, <2>3 DEF Forum!TypeOK
  <2>. QED BY <2>1, <2>2, <2>3, <2>4, TapsAreLeftAlone
<1>4. ASSUME NEW c \in B, NEW m \in A, Forum!CheckAttendance(c, m)
      PROVE  Forum!DiscussionInv'
  <2>. DEFINE s == [op |-> "rate", who |-> m]
  <2>1. /\ Forum!GoTo(c, s) /\ UNCHANGED <<v1, v2, v3, v4, v5, v7, v8>>
        /\ v9' = v9 \cup {m} /\ v10 < MaxCalls /\ v10' = v10 + 1
    BY <1>4 DEF Forum!CheckAttendance, Forum!Arrive
  <2>2. s \in Forum!Steps /\ s.op = "rate" /\ s.who = m BY DEF Forum!Steps
  <2>. HIDE DEF s
  <2>3. v6' \in [B -> Forum!Steps] /\ v6'[c] = s
        /\ \A d \in B : d # c => v6'[d] = v6[d]
    BY <1>0, <2>1, <2>2, StepGoes
  <2>4. Forum!TypeOK' BY <1>1, <2>1, <2>3 DEF Forum!TypeOK
  <2>. QED BY <1>0, <2>1, <2>2, <2>3, <2>4, TapsAreLeftAlone
<1>5. ASSUME NEW c \in B, NEW m \in A, NEW e \in v2,
             Forum!FindComment(c, m, e) \/ Forum!FindPersonalEvent(c, m, e)
      PROVE  Forum!DiscussionInv'
  <2>1. \E op \in {"delete", "update"} : Forum!FindEntry(c, m, e, op)
    BY <1>5 DEF Forum!FindComment, Forum!FindPersonalEvent
  <2>2. PICK op \in {"delete", "update"} : Forum!FindEntry(c, m, e, op) BY <2>1
  <2>. DEFINE s == [op |-> op, who |-> m, entry |-> e]
  <2>3. /\ Forum!GoTo(c, s) /\ UNCHANGED <<v1, v2, v3, v4, v5, v7, v8, v9>>
        /\ v10 < MaxCalls /\ v10' = v10 + 1
    BY <2>2 DEF Forum!FindEntry, Forum!Arrive
  <2>4. s \in Forum!Steps /\ s.op = op BY <1>1 DEF Forum!Steps
  <2>. HIDE DEF s
  <2>5. v6' \in [B -> Forum!Steps] /\ v6'[c] = s
        /\ \A d \in B : d # c => v6'[d] = v6[d]
    BY <1>0, <2>3, <2>4, StepGoes
  <2>6. Forum!TypeOK' BY <1>1, <2>3, <2>5 DEF Forum!TypeOK
  <2>. QED BY <1>0, <2>3, <2>4, <2>5, <2>6, TapsAreLeftAlone
<1>6. ASSUME NEW m \in A,
             \/ Forum!CreateComment(m) \/ Forum!CreatePersonalEvent(m)
             \/ Forum!Register(m) \/ Forum!RemoveAccount(m)
      PROVE  Forum!DiscussionInv'
  <2>1. UNCHANGED <<v1, v5, v6, v7, v8, v9>> /\ v10 < MaxCalls /\ v10' = v10 + 1
    BY <1>6 DEF Forum!CreateComment, Forum!CreatePersonalEvent, Forum!Register, Forum!RemoveAccount,
     Forum!Create
  <2>2. v2' \subseteq Forum!Entries
    <3>1. /\ [kind |-> "comment", owner |-> m] \in Forum!Entries
          /\ [kind |-> "personalEvent", owner |-> m] \in Forum!Entries
      BY DEF Forum!Entries, Forum!Kinds
    <3>2. \/ v2' = v2 \cup {[kind |-> "comment", owner |-> m]}
          \/ v2' = v2 \cup {[kind |-> "personalEvent", owner |-> m]} \/ v2' = v2
      BY <1>6 DEF Forum!CreateComment, Forum!CreatePersonalEvent, Forum!Register,
       Forum!RemoveAccount, Forum!Create
    <3>. QED BY <1>1, <3>1, <3>2
  <2>3. v3' \subseteq A /\ v4' \subseteq A
    BY <1>1, <1>6 DEF Forum!CreateComment, Forum!CreatePersonalEvent, Forum!Register,
     Forum!RemoveAccount, Forum!Create
  <2>4. Forum!TypeOK' BY <1>1, <2>1, <2>2, <2>3 DEF Forum!TypeOK
  <2>. QED BY <1>0, <2>1, <2>4, TapsAreLeftAlone
<1>. QED BY <1>1, <1>3, <1>4, <1>5, <1>6, FindReactionKeeps, ToggleReactionKeeps DEF Forum!Next

(* One tap of a member at a time finds the reaction as the last one left   *)
(* it, and whoever rates an event was among its registrations.             *)
THEOREM DiscussionCorrect == Spec => [](focus = "discussion" => Forum!DiscussionInv)
<1>. DEFINE Inv == focus = "discussion" => Forum!DiscussionInv
<1>1. Init => Inv BY DiscussionStarts
<1>2. Inv /\ [Next]_vars => Inv'
  <2>. SUFFICES ASSUME Inv, [Next]_vars, focus' = "discussion"
                PROVE  Forum!DiscussionInv'
    OBVIOUS
  <2>1. focus = "discussion" BY DEF Next, vars
  <2>2. Forum!Next \/ UNCHANGED DiscussionVars BY <2>1, DiscussionStep
  <2>3. CASE Forum!Next BY <2>1, <2>3, DiscussionKept
  <2>4. CASE UNCHANGED DiscussionVars
    <3>1. UNCHANGED <<v1, v2, v3, v4, v5, v6, v7, v8, v9, v10>> BY <2>4 DEF DiscussionVars
    <3>2. Forum!TypeOK' /\ v5 \subseteq v9
      BY <2>1, <3>1 DEF Forum!DiscussionInv, Forum!TypeOK, Forum!TapsAlternate
    <3>. QED BY <2>1, <3>1, <3>2, TapsAreLeftAlone
  <2>. QED BY <2>2, <2>3, <2>4
<1>. QED BY <1>1, <1>2, PTL DEF Spec

(* Shifts are not overbooked, marks fall on those they name, nobody has    *)
(* applied twice, reactions follow the taps, and the attendees shown are   *)
(* those registered whose accounts are there, unless calls overlapped.     *)
THEOREM TakingPart == Spec => []TakingPartIsTrue
<1>1. (focus = "volunteering" => Jobs!VolunteeringInv)
      /\ (focus = "discussion" => Forum!DiscussionInv) => TakingPartIsTrue
  BY DEF TakingPartIsTrue, Jobs!VolunteeringInv, Forum!DiscussionInv
<1>. QED BY <1>1, VolunteeringCorrect, DiscussionCorrect, PTL

LEMMA CaseworkStep ==
    ASSUME focus = "casework", [Next]_vars
    PROVE  focus' = "casework" /\ (Cases!Next \/ UNCHANGED CaseworkVars)
BY DEF Next, vars, CaseworkVars

(* A template that is there was used as often as it says, however many      *)
(* e-mails to members use it at a time.                                    *)
THEOREM CaseworkCorrect == Spec => [](focus = "casework" => Cases!CaseworkInv)
<1>. DEFINE Inv == focus = "casework" => Cases!CaseworkInv
<1>1. Init => Inv BY CaseworkStarts DEF Init
<1>2. Inv /\ [Next]_vars => Inv'
  <2>. SUFFICES ASSUME focus = "casework", Cases!CaseworkInv, [Next]_vars
                PROVE  Cases!CaseworkInv'
    BY DEF Next, vars
  <2>. QED BY CaseworkStep, CaseworkGoesOn
<1>. QED BY <1>1, <1>2, PTL DEF Spec

LEMMA ContentStep ==
    ASSUME focus = "content", [Next]_vars
    PROVE  focus' = "content" /\ (Content!Next \/ UNCHANGED ContentVars)
BY DEF Next, vars, ContentVars

(* An anonymous testimony shows nobody unless two updates of it overlapped, *)
(* a download is counted with the resource it is of, and who is on the list *)
(* of a training was told of it once.                                      *)
THEOREM ContentCorrect == Spec => [](focus = "content" => Content!ContentInv)
<1>. DEFINE Inv == focus = "content" => Content!ContentInv
<1>1. Init => Inv BY ContentStarts DEF Init
<1>2. Inv /\ [Next]_vars => Inv'
  <2>. SUFFICES ASSUME focus = "content", Content!ContentInv, [Next]_vars
                PROVE  Content!ContentInv'
    BY DEF Next, vars
  <2>. QED BY ContentStep, ContentGoesOn
<1>. QED BY <1>1, <1>2, PTL DEF Spec

LEMMA InvoicesStep ==
    ASSUME focus = "invoices", [Next]_vars
    PROVE  focus' = "invoices" /\ (Invoices!Next \/ UNCHANGED InvoicesVars)
BY DEF Next, vars, InvoicesVars

(* Numbers are unique unless a form was open while another invoice was     *)
(* made or one was typed; what an invoice says was paid is what was typed  *)
(* there last and recorded since, unless payments overlapped, whatever the *)
(* administrators write into its other fields.                             *)
THEOREM InvoicesCorrect == Spec => [](focus = "invoices" => Invoices!InvoicesInv)
<1>. DEFINE Inv == focus = "invoices" => Invoices!InvoicesInv
<1>1. Init => Inv BY InvoicesStart DEF Init
<1>2. Inv /\ [Next]_vars => Inv'
  <2>. SUFFICES ASSUME focus = "invoices", Invoices!InvoicesInv, [Next]_vars
                PROVE  Invoices!InvoicesInv'
    BY DEF Next, vars
  <2>. QED BY InvoicesStep, InvoicesGoOn
<1>. QED BY <1>1, <1>2, PTL DEF Spec

(* What separate requests count or sum comes out right: uses of a template, *)
(* downloads and completions; numbers of invoices and what was paid, but   *)
(* for what is typed and for payments that overlap.                        *)
THEOREM Counts == Spec => []CountsAreTrue
<1>1. (focus = "casework" => Cases!CaseworkInv) /\ (focus = "content" => Content!ContentInv)
      /\ (focus = "invoices" => Invoices!InvoicesInv) => CountsAreTrue
  BY DEF CountsAreTrue, Cases!CaseworkInv, Content!ContentInv, Invoices!InvoicesInv
<1>. QED BY <1>1, CaseworkCorrect, ContentCorrect, InvoicesCorrect, PTL

LEMMA BackupsStep ==
    ASSUME focus = "backups", [Next]_vars
    PROVE  focus' = "backups" /\ (Backups!Next \/ UNCHANGED BackupsVars)
BY DEF Next, vars, BackupsVars

(* Until memories are tangled, every process remembers the newest first,   *)
(* what is about to be deleted is old, and the newest are kept.            *)
THEOREM BackupsCorrect == Spec => [](focus = "backups" => Backups!BackupsInv)
<1>. DEFINE Inv == focus = "backups" => Backups!BackupsInv
<1>1. Init => Inv BY BackupsStart DEF Init
<1>2. Inv /\ [Next]_vars => Inv'
  <2>. SUFFICES ASSUME focus = "backups", Backups!BackupsInv, [Next]_vars
                PROVE  Backups!BackupsInv'
    BY DEF Next, vars
  <2>. QED BY BackupsStep, BackupsStay
<1>. QED BY <1>1, <1>2, PTL DEF Spec

(* Whatever a process remembers, the clean-up leaves the newest backups.   *)
THEOREM BackupsKeepNewest == Spec => []NewestAreKept
<1>1. (focus = "backups" => Backups!BackupsInv) => NewestAreKept
  BY DEF NewestAreKept, Backups!BackupsInv
<1>. QED BY <1>1, BackupsCorrect, PTL

LEMMA ListingsStep ==
    ASSUME focus = "listings", [Next]_vars
    PROVE  focus' = "listings" /\ [Lists!Next]_Lists!vars
BY DEF Next, vars, Lists!vars

(* What the pages that were read say of the ones to come.                  *)
THEOREM ReadingIsCorrect == Spec => [](focus = "listings" => Lists!ListingsInv)
<1>. DEFINE Inv == focus = "listings" => Lists!ListingsInv
<1>. Lists!ListingsAssumption BY ListingsAssumed
<1>1. Init => Inv
  <2>1. focus = "listings" /\ Init => v1 \in Lists!Kinds /\ Lists!Begin
    BY CatalogueIsTyped DEF Init, Lists!Init
  <2>. QED BY <2>1, ListingsStart
<1>2. Inv /\ [Next]_vars => Inv'
  <2>. SUFFICES ASSUME focus = "listings", Lists!ListingsInv, [Next]_vars
                PROVE  Lists!ListingsInv'
    BY DEF Next, vars
  <2>. QED BY ListingsStep, ListingsKept
<1>. QED BY <1>1, <1>2, PTL DEF Spec

(* Whoever reads a listing to the end has missed nothing and seen nothing  *)
(* twice, unless the collection changed meanwhile or the order does not    *)
(* tell documents apart; and the groups that are counted make the total,   *)
(* or are within it where the collection has others.                       *)
THEOREM PagesAreTrue == Spec => []PagesAreWhole
<1>1. (focus = "listings" => Lists!ListingsInv) => PagesAreWhole
  BY ListingsAssumed, ListingsMeet DEF PagesAreWhole
<1>. QED BY <1>1, ReadingIsCorrect, PTL

(* ChatSend and ChatOutbox: what ChatDeliveryProofs shows of each of them  *)
(* inside ChatDelivery holds of it alone.  Each of the two instances looks  *)
(* at one half: the variables of the other half stand for nothing.         *)

Chats == INSTANCE ChatDeliveryProofs WITH
    stored <- v1, lastMessage <- v2, blocks <- v3, unavailable <- v4, stage <- v5,
    letter <- v6, emitted <- v7, acked <- v8, late <- v9, sends <- v10,
    changes <- v11, faults <- v12, Admin <- admin, NoLetter <- none, NoKey <- none,
    Calls <- A, MaxChanges <- MaxStandings,
    created <- v13, status <- v13, attempts <- v13, due <- v13, stale <- v13,
    inbox <- v13, step <- v13, held <- v13, tries <- v13, turns <- v13, claimed <- v13,
    optedOut <- v13, overtaken <- v13, breaks <- v13, NoEntry <- <<>>, Processors <- B

Queue == INSTANCE ChatDeliveryProofs WITH
    stored <- v1, lastMessage <- v1, blocks <- v1, unavailable <- v1, stage <- v1,
    letter <- v1, emitted <- v1, acked <- v1, late <- v1, sends <- v1,
    changes <- v1, faults <- v1, Admin <- admin, NoLetter <- none, NoKey <- none,
    Members <- {ann}, Letters <- A, Sender <- Addressee, Receiver <- Addressee,
    Key <- [l \in A |-> none], Calls <- A, MaxSends <- 1, MaxChanges <- 0, MaxFaults <- 0,
    created <- v1, status <- v2, attempts <- v3, due <- v4, stale <- v5,
    inbox <- v6, step <- v7, held <- v8, tries <- v9, turns <- v10, claimed <- v11,
    optedOut <- v12, overtaken <- v13, breaks <- v14, NoEntry <- none, Processors <- B

\* The two names of each action and of each invariant.
LEMMA SameSend ==
    ASSUME NEW c, NEW l
    PROVE  /\ Send!SendMessage(c, l) => Chats!Send!SendMessage(c, l)
           /\ Send!CheckRecipient(c) => Chats!Send!CheckRecipient(c)
           /\ Send!CheckBlock(c) => Chats!Send!CheckBlock(c)
           /\ Send!Dedupe(c) => Chats!Send!Dedupe(c)
           /\ Send!Store(c) => Chats!Send!Store(c)
           /\ Send!Emit(c) => Chats!Send!Emit(c)
           /\ Send!PublishHint(c) => Chats!Send!PublishHint(c)
           /\ Send!CallBreaksOff(c) => Chats!Send!CallBreaksOff(c)
           /\ Send!Standing => Chats!Send!Standing
BY Zenon
DEF Send!SendMessage, Send!CheckRecipient, Send!CheckBlock, Send!Dedupe, Send!Store, Send!Emit,
 Send!PublishHint, Send!CallBreaksOff, Send!Standing, Send!BlockUser, Send!UnblockUser,
 Send!BanMember, Send!UnbanMember, Send!Goto, Send!Finish, Send!Answer, Send!Exists, Send!Keyed,
 Send!Blocked, Send!InProgress, Send!callVars, Send!historyVars, Send!boundVars,
 Chats!Send!SendMessage, Chats!Send!CheckRecipient, Chats!Send!CheckBlock, Chats!Send!Dedupe,
 Chats!Send!Store, Chats!Send!Emit, Chats!Send!PublishHint, Chats!Send!CallBreaksOff,
 Chats!Send!Standing, Chats!Send!BlockUser, Chats!Send!UnblockUser, Chats!Send!BanMember,
 Chats!Send!UnbanMember, Chats!Send!Goto, Chats!Send!Finish, Chats!Send!Answer, Chats!Send!Exists,
 Chats!Send!Keyed, Chats!Send!Blocked, Chats!Send!InProgress, Chats!Send!callVars,
 Chats!Send!historyVars, Chats!Send!boundVars

LEMMA SendGivens ==
    /\ Chats!Send!ChatAssumption
    /\ Chats!IsFiniteSet(A)
    /\ Chats!ChatDeliveryAssumption
<1>1. Chats!Send!ChatAssumption
  BY ChatSendAssumed DEF Send!ChatAssumption, Chats!Send!ChatAssumption, Chats!Send!People,
   Send!People
<1>2. Chats!IsFiniteSet(A)
  BY DiscussionAssumed, Zenon DEF Forum!DiscussionAssumption, Forum!IsFiniteSet, Chats!IsFiniteSet
<1>3. <<>> \notin Chats!Entries BY DEF Chats!Entries
<1>4. Chats!Outbox!ChatOutboxAssumption
  BY <1>3, ChatOutboxAssumed DEF Outbox!ChatOutboxAssumption, Chats!Outbox!ChatOutboxAssumption
<1>. QED BY <1>1, <1>2, <1>4 DEF Chats!ChatDeliveryAssumption

(* What the calls and the letters know of one another, as in ChatDelivery. *)
THEOREM SendingIsCorrect == Spec => [](focus = "chat" => Chats!SendInv)
<1>. DEFINE Inv == focus = "chat" => Chats!SendInv
<1>1. Init => Inv
  <2>1. Send!Init => Chats!Send!Init
    BY Zenon DEF Send!Init, Chats!Send!Init, Send!People, Chats!Send!People
  <2>. QED BY <2>1, SendGivens, Chats!SendStarts DEF Init
<1>2. Inv /\ [Next]_vars => Inv'
  <2>. SUFFICES ASSUME Inv, [Next]_vars, focus' = "chat"
                PROVE  Chats!SendInv'
    OBVIOUS
  <2>1. focus = "chat" /\ Chats!SendInv BY DEF Next, vars
  <2>2. Send!Next \/ UNCHANGED <<v1, v2, v3, v4, v5, v6, v7, v8, v9, v10, v11, v12>>
    BY <2>1 DEF Next, vars
  <2>3. CASE UNCHANGED <<v1, v2, v3, v4, v5, v6, v7, v8, v9, v10, v11, v12>>
    BY <2>1, <2>3, SendGivens, Chats!SendFrame DEF Chats!sendVars
  <2>4. ASSUME NEW c \in A, NEW l \in Letters, Send!SendMessage(c, l)
        PROVE  Chats!SendInv'
    BY <2>1, <2>4, SameSend, SendGivens, Chats!SendMessageKeeps
  <2>5. ASSUME NEW c \in A, Send!Proceed(c) \/ Send!CallBreaksOff(c)
        PROVE  Chats!SendInv'
    <3>1. CASE Send!CheckRecipient(c) \/ Send!CheckBlock(c)
      BY <2>1, <3>1, SameSend, SendGivens, Chats!ChecksKeep
    <3>2. CASE Send!Dedupe(c) BY <2>1, <3>2, SameSend, SendGivens, Chats!DedupeKeeps
    <3>3. CASE Send!Store(c) BY <2>1, <3>3, SameSend, SendGivens, Chats!StoreKeeps
    <3>4. CASE Send!Emit(c) BY <2>1, <3>4, SameSend, SendGivens, Chats!EmitKeeps
    <3>5. CASE Send!PublishHint(c) BY <2>1, <3>5, SameSend, SendGivens, Chats!PublishKeeps
    <3>6. CASE Send!CallBreaksOff(c) BY <2>1, <3>6, SameSend, SendGivens, Chats!CallBreaksOffKeeps
    <3>. QED BY <2>5, <3>1, <3>2, <3>3, <3>4, <3>5, <3>6 DEF Send!Proceed
  <2>6. CASE Send!Standing BY <2>1, <2>6, SameSend, SendGivens, Chats!StandingKeeps
  <2>. QED BY <2>2, <2>3, <2>4, <2>5, <2>6 DEF Send!Next
<1>. QED BY <1>1, <1>2, PTL DEF Spec

LEMMA SameProcess ==
    ASSUME NEW p, NEW k
    PROVE  /\ Outbox!Process => Queue!Outbox!Process
           /\ Outbox!CreateEntry(k) => Queue!Outbox!CreateEntry(k)
           /\ Queue!Entries = ChatEntries
           /\ Outbox!ChatOutboxAssumption => Queue!Outbox!ChatOutboxAssumption
           /\ Outbox!Init => Queue!Outbox!Init
BY Zenon
DEF Outbox!Process, Outbox!CreateEntry, Outbox!StartRun, Outbox!Proceed, Outbox!RunBreaksOff,
 Outbox!Time, Outbox!BecomesDue, Outbox!LockGoesStale, Outbox!ClaimOldest, Outbox!CreateInApp,
 Outbox!SendPush, Outbox!Throws, Outbox!SettleEntry, Outbox!CountFailure, Outbox!Advance,
 Outbox!Release, Outbox!StopRun, Outbox!Claimable, Outbox!Oldest, Outbox!entryVars, Outbox!runVars,
 Outbox!ghostVars, Outbox!Init, Outbox!ChatOutboxAssumption, Outbox!Settled, Outbox!Working,
 Outbox!Steps, ChatEntries, Queue!Entries, Queue!Outbox!Process, Queue!Outbox!CreateEntry,
 Queue!Outbox!StartRun, Queue!Outbox!Proceed, Queue!Outbox!RunBreaksOff, Queue!Outbox!Time,
 Queue!Outbox!BecomesDue, Queue!Outbox!LockGoesStale, Queue!Outbox!ClaimOldest,
 Queue!Outbox!CreateInApp, Queue!Outbox!SendPush, Queue!Outbox!Throws, Queue!Outbox!SettleEntry,
 Queue!Outbox!CountFailure, Queue!Outbox!Advance, Queue!Outbox!Release, Queue!Outbox!StopRun,
 Queue!Outbox!Claimable, Queue!Outbox!Oldest, Queue!Outbox!entryVars, Queue!Outbox!runVars,
 Queue!Outbox!ghostVars, Queue!Outbox!Init, Queue!Outbox!ChatOutboxAssumption, Queue!Outbox!Settled,
 Queue!Outbox!Working, Queue!Outbox!Steps

LEMMA OutboxGivens ==
    Queue!Outbox!ChatOutboxAssumption /\ Queue!ChatDeliveryAssumption
<1>1. Queue!Outbox!ChatOutboxAssumption BY SameProcess, ChatOutboxAssumed
<1>2. Queue!IsFiniteSet(A)
  BY DiscussionAssumed, Zenon DEF Forum!DiscussionAssumption, Forum!IsFiniteSet, Queue!IsFiniteSet
<1>3. ann # admin BY ContentAssumed DEF Content!ContentAssumption
<1>4. Queue!Send!ChatAssumption
  BY <1>3, NoneIsNobody DEF Queue!Send!ChatAssumption, Queue!Send!People, Addressee
<1>. QED BY <1>1, <1>2, <1>4 DEF Queue!ChatDeliveryAssumption

Slots == <<v1, v2, v3, v4, v5, v6, v7, v8, v9, v10, v11, v12, v13, v14>>

LEMMA OutboxTakesStep ==
    ASSUME focus = "outbox", [Next]_vars
    PROVE  \/ Queue!Outbox!Process
           \/ \E k \in Queue!Entries : Queue!Outbox!CreateEntry(k)
           \/ UNCHANGED Slots
<1>1. Outbox!Next \/ UNCHANGED Slots BY DEF Next, vars, Slots
<1>. QED BY <1>1, SameProcess DEF Outbox!Next

(* What the runs and the entries know of one another, as in ChatDelivery.  *)
THEOREM RunningIsCorrect == Spec => [](focus = "outbox" => Queue!OutboxInv)
<1>. DEFINE Inv == focus = "outbox" => Queue!OutboxInv
<1>1. Init => Inv BY SameProcess, OutboxGivens, Queue!OutboxStarts DEF Init
<1>2. Inv /\ [Next]_vars => Inv'
  <2>. SUFFICES ASSUME Inv, [Next]_vars, focus' = "outbox"
                PROVE  Queue!OutboxInv'
    OBVIOUS
  <2>1. focus = "outbox" /\ Queue!OutboxInv BY DEF Next, vars
  <2>2. CASE Queue!Outbox!Process BY <2>1, <2>2, OutboxGivens, Queue!ProcessKeeps
  <2>3. ASSUME NEW k \in Queue!Entries, Queue!Outbox!CreateEntry(k)
        PROVE  Queue!OutboxInv'
    BY <2>1, <2>3, OutboxGivens, Queue!CreateEntryKeeps
  <2>4. CASE UNCHANGED Slots
    BY <2>1, <2>4, OutboxGivens, Queue!OutboxFrame DEF Queue!outboxVars, Slots
  <2>. QED BY <2>1, <2>2, <2>3, <2>4, OutboxTakesStep
<1>. QED BY <1>1, <1>2, PTL DEF Spec

(* Letters are stored once, clients that were told of success have them    *)
(* stored, conversations agree, unwelcome letters are late; entries are    *)
(* taken up in order, each by one run unless its lock was old.             *)
THEOREM ChatsAreTrue == Spec => []ChatsAgree
<1>1. Chats!SendInv => /\ Send!OneMessagePerKey
                           /\ Send!AckedMeansStored
                           /\ Send!ConversationsAgree
                           /\ Send!EmittedOnce
                           /\ Send!UnwelcomeOnlyIfLate
  <2>. SUFFICES ASSUME Chats!SendInv
                PROVE  /\ Send!OneMessagePerKey
                       /\ Send!AckedMeansStored
                       /\ Send!ConversationsAgree
                       /\ Send!EmittedOnce
                       /\ Send!UnwelcomeOnlyIfLate
    OBVIOUS
  <2>1. Send!OneMessagePerKey /\ Send!AckedMeansStored /\ Send!ConversationsAgree
    BY DEF Chats!SendInv, Chats!Send!OneMessagePerKey, Chats!Send!Keyed,
     Chats!Send!AckedMeansStored, Chats!Send!ConversationsAgree, Chats!Send!People,
     Send!OneMessagePerKey, Send!Keyed, Send!AckedMeansStored, Send!ConversationsAgree, Send!People
  <2>2. Send!EmittedOnce
    <3>1. Chats!Send!EmittedOnce BY SendGivens, Chats!EmittedIsStored
    <3>. QED BY <3>1 DEF Chats!Send!EmittedOnce, Send!EmittedOnce
  <2>3. Send!UnwelcomeOnlyIfLate
    BY DEF Chats!SendInv, Chats!CallKnows, Chats!Send!Estranged, Send!UnwelcomeOnlyIfLate,
     Send!Estranged
  <2>. QED BY <2>1, <2>2, <2>3
<1>2. Queue!OutboxInv => Outbox!OneRunPerEntry /\ Outbox!OldestFirst
  BY DEF Queue!OutboxInv, Queue!RunOf, Queue!Outbox!OldestFirst, Outbox!OneRunPerEntry,
   Outbox!OldestFirst
<1>3. (focus = "chat" => Chats!SendInv) /\ (focus = "outbox" => Queue!OutboxInv)
        => ChatsAgree
  BY <1>1, <1>2 DEF ChatsAgree
<1>. QED BY <1>3, SendingIsCorrect, RunningIsCorrect, PTL

\* The two names of what the ledger is about.
LEMMA SameLedger ==
    /\ Outbox!LedgerState = Queue!Outbox!LedgerState
    /\ Outbox!LedgerInformed = Queue!Outbox!LedgerInformed
    /\ Outbox!LedgerFailed = Queue!Outbox!LedgerFailed
    /\ Queue!Outbox!Ledger!Init => Outbox!Ledger!Init
    /\ Queue!Outbox!Ledger!Next => Outbox!Ledger!Next
    /\ UNCHANGED Queue!LedgerVars
         => UNCHANGED <<Outbox!LedgerState, Outbox!LedgerInformed,
                        Outbox!LedgerFailed>>
BY Zenon
DEF Outbox!LedgerState, Outbox!LedgerInformed, Outbox!LedgerFailed, Outbox!LedgerName,
 Outbox!Ledger!Init, Outbox!Ledger!Next, Outbox!Ledger!Record, Outbox!Ledger!Inform,
 Outbox!Ledger!Complete, Outbox!Ledger!Fail, Outbox!Ledger!Dispute, ChatEntries, Queue!Entries,
 Queue!LedgerVars, Queue!Outbox!LedgerState, Queue!Outbox!LedgerInformed, Queue!Outbox!LedgerFailed,
 Queue!Outbox!LedgerName, Queue!Outbox!Ledger!Init, Queue!Outbox!Ledger!Next,
 Queue!Outbox!Ledger!Record, Queue!Outbox!Ledger!Inform, Queue!Outbox!Ledger!Complete,
 Queue!Outbox!Ledger!Fail, Queue!Outbox!Ledger!Dispute

(* The chat outbox drops no message early, settles none its member has not *)
(* been told of, and reopens none: step by step it keeps the ledger.       *)
THEOREM ChatOutboxKeepsLedger == Spec => OutboxImplementsLedger
<1>1. Init => (focus = "outbox" => Outbox!Ledger!Init)
  BY SameProcess, SameLedger, OutboxGivens, Queue!LedgerStarts DEF Init
<1>2. ASSUME focus = "outbox" => Queue!OutboxInv, [Next]_vars
      PROVE  focus = "outbox" => Outbox!LedgerStep
  <2>. SUFFICES ASSUME focus = "outbox" PROVE Outbox!LedgerStep OBVIOUS
  <2>1. Queue!OutboxInv BY <1>2
  <2>2. CASE Queue!Outbox!Process
    BY <2>1, <2>2, OutboxGivens, SameLedger, Queue!ProcessKeepsLedger DEF Outbox!LedgerStep
  <2>3. ASSUME NEW k \in Queue!Entries, Queue!Outbox!CreateEntry(k)
        PROVE  Outbox!LedgerStep
    BY <2>1, <2>3, OutboxGivens, SameLedger, Queue!CreateIsRecord DEF Outbox!LedgerStep
  <2>4. CASE UNCHANGED Slots
    BY <2>4, SameLedger, OutboxGivens, Queue!LedgerUnchanged DEF Outbox!LedgerStep, Slots
  <2>. QED BY <1>2, <2>2, <2>3, <2>4, OutboxTakesStep
<1>. QED BY <1>1, <1>2, RunningIsCorrect, PTL DEF Spec, OutboxImplementsLedger

(* The types of all services follow from the invariants of each.           *)

(* What the services keep to. *)
MembersInv ==
    /\ focus = "sessions" => Auth!SessionsInv
    /\ focus = "accounts" => Enrol!AccountsInv
    /\ focus = "standing" => Roles!StandingInv
    /\ focus = "lifetime" => Import!ImportInv
    /\ focus = "volunteering" => Jobs!VolunteeringInv
    /\ focus = "discussion" => Forum!DiscussionInv

MessagesInv ==
    /\ focus = "chat" => Chats!SendInv
    /\ focus = "outbox" => Queue!OutboxInv
    /\ focus = "push" => Push!PushInv
    /\ focus = "inbox" => Inbox!InboxInv
    /\ focus = "reminders" => Remind!RemindersInv
    /\ focus = "emails" => Daily!EmailsInv

RecordsInv ==
    /\ focus = "billing" => Bills!BillingInv
    /\ focus = "casework" => Cases!CaseworkInv
    /\ focus = "listings" => Lists!ListingsInv
    /\ focus = "content" => Content!ContentInv
    /\ focus = "invoices" => Invoices!InvoicesInv
    /\ focus = "backups" => Backups!BackupsInv

(* Every service keeps to its types: no field, counter or call is ever     *)
(* outside of what its module says it may be.                              *)
THEOREM EveryServiceIsTyped == Spec => []TypeOK
<1>2. Chats!SendInv => Send!TypeOK
  BY Zenon DEF Chats!SendInv, Chats!Send!TypeOK, Chats!Send!People, Chats!Send!Stages, Send!TypeOK,
   Send!People, Send!Stages
<1>3. Queue!OutboxInv => Outbox!TypeOK
  BY Zenon, SameProcess DEF Queue!OutboxInv, Queue!Outbox!TypeOK, Queue!Outbox!Settled,
   Queue!Outbox!Steps, Queue!Outbox!Working, Queue!Entries, Outbox!TypeOK, Outbox!Settled,
   Outbox!Steps, Outbox!Working, ChatEntries
<1>4. MembersInv /\ MessagesInv /\ RecordsInv => TypeOK
  BY <1>2, <1>3 DEF MembersInv, MessagesInv, RecordsInv, TypeOK, Auth!SessionsInv,
   Enrol!AccountsInv, Roles!StandingInv, Bills!BillingInv, Remind!RemindersInv,
   Jobs!VolunteeringInv, Push!PushInv, Daily!EmailsInv, Import!ImportInv, Forum!DiscussionInv,
   Cases!CaseworkInv, Lists!ListingsInv, Content!ContentInv, Invoices!InvoicesInv,
   Backups!BackupsInv, Inbox!InboxInv
<1>5. Spec => []MembersInv
  BY SessionsCorrect, AccountsCorrect, StandingCorrect, ImportsCorrect, VolunteeringCorrect,
   DiscussionCorrect, PTL DEF MembersInv
<1>6. Spec => []MessagesInv
  BY InboxCorrect, SendingIsCorrect, RunningIsCorrect, TokensCorrect, RemindersCorrect, EmailsCorrect, PTL
   DEF MessagesInv
<1>7. Spec => []RecordsInv
  BY BillingCorrect, CaseworkCorrect, ReadingIsCorrect, ContentCorrect, InvoicesCorrect,
   BackupsCorrect, PTL DEF RecordsInv
<1>. QED BY <1>4, <1>5, <1>6, <1>7, PTL
===============================================================================
