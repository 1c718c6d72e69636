----------------------------- MODULE PushTokens -----------------------------
(***************************************************************************)
(* The push tokens of members' phones.  The app registers the token it got *)
(* from Expo for the member signed in; senders read a member's active      *)
(* tokens and deactivate those that Expo no longer knows.  Unique indexes  *)
(* allow one entry for a member and phone, and one for a token.            *)
(***************************************************************************)
EXTENDS Naturals

CONSTANTS
  Users,     \* members
  Phones,    \* phones; the deviceId of a phone is the phone
  Tokens,    \* Expo push tokens
  None,      \* no token, no owner
  Calls,     \* concurrent calls of the service
  MaxFaults  \* bound: calls that die half-way

Owners == Users \X Phones

PushTokenAssumption ==
  /\ None \notin Tokens /\ None \notin Owners
  /\ MaxFaults \in Nat

VARIABLES
  entry,      \* entry[<<u, p>>]: the document of member u on phone p
  installed,  \* the token of the app on each phone
  stage,      \* what each call does next
  owner,      \* the member and phone a registration is made for
  tokens,     \* the tokens each call works on
  live,       \* history: owners who registered and have not logged out
  muted,      \* history: tokens registered for somebody else too, or by a call
              \* that died, or unknown to Expo
  refused,    \* history: registrations the index on tokens refused
  faults      \* calls that died so far

callVars    == <<stage, owner, tokens>>
historyVars == <<live, muted, refused>>
vars == <<entry, installed, callVars, historyVars, faults>>

-----------------------------------------------------------------------------
Absent == [token |-> None, active |-> FALSE]

Stages == {"idle", "silence", "upsert", "send", "deactivate"}

\* Call c turns to the tokens T of owner o, at stage s.
Turn(c, s, o, T) ==
  /\ stage' = [stage EXCEPT ![c] = s]
  /\ owner' = [owner EXCEPT ![c] = o]
  /\ tokens' = [tokens EXCEPT ![c] = T]

Finish(c) == Turn(c, "idle", None, {})

\* The entries, those of the tokens T inactive.
Silenced(T) ==
  [o \in Owners |-> [entry[o] EXCEPT !.active = @ /\ entry[o].token \notin T]]

\* Mutant of Free: there is no index on tokens.
FreeAlways(t, o) == TRUE

\* The index on tokens: no entry but o's has token t, active or not.
Free(t, o) == \A q \in Owners \ {o} : entry[q].token # t

Init ==
  /\ entry = [o \in Owners |-> Absent]
  /\ installed = [p \in Phones |-> None]
  /\ stage = [c \in Calls |-> "idle"]
  /\ owner = [c \in Calls |-> None]
  /\ tokens = [c \in Calls |-> {}]
  /\ live = {} /\ muted = {} /\ refused = {}
  /\ faults = 0

-----------------------------------------------------------------------------
\* The app is installed, perhaps again, with a new token or an old one.
Install(p, t) ==
  /\ installed[p] # t
  /\ \A q \in Phones : installed[q] # t
  /\ \A o \in Owners : entry[o].token = t => o[2] = p
  /\ installed' = [installed EXCEPT ![p] = t]
  /\ UNCHANGED <<entry, callVars, historyVars, faults>>

Uninstall(p) ==
  /\ installed[p] # None
  /\ installed' = [installed EXCEPT ![p] = None]
  /\ UNCHANGED <<entry, callVars, historyVars, faults>>

\* registerToken: the app sends its token ...
RegisterToken(c, o) ==
  /\ stage[c] = "idle"
  /\ installed[o[2]] # None
  /\ Turn(c, "silence", o, {installed[o[2]]})
  /\ UNCHANGED <<entry, installed, historyVars, faults>>

\* The tokens of registration c that the entry of another owner has.
Contested(c) == {t \in tokens[c] : ~Free(t, owner[c])}

\* Mutant of SilenceToken: every entry of the phone is silenced.
SilencePhone(c) ==
  /\ stage[c] = "silence"
  /\ entry' = [o \in Owners |->
                 [entry[o] EXCEPT !.active = @ /\ o[2] # owner[c][2]]]
  /\ muted' = muted \union Contested(c)
  /\ Turn(c, "upsert", owner[c], tokens[c])
  /\ UNCHANGED <<installed, live, refused, faults>>

\* ... updateMany deactivates every entry that has it ...
SilenceToken(c) ==
  /\ stage[c] = "silence"
  /\ entry' = Silenced(tokens[c])
  /\ muted' = muted \union Contested(c)
  /\ Turn(c, "upsert", owner[c], tokens[c])
  /\ UNCHANGED <<installed, live, refused, faults>>

\* ... and the upsert for this member and phone succeeds, or the index on
\* tokens refuses it because another entry has the token.
UpsertToken(c) ==
  \E t \in tokens[c] :
    /\ stage[c] = "upsert"
    /\ \/ /\ Free(t, owner[c])
          /\ entry' = [entry EXCEPT ![owner[c]] = [token |-> t, active |-> TRUE]]
          /\ live' = live \union {owner[c]}
          /\ UNCHANGED refused
       \/ /\ ~Free(t, owner[c])
          /\ refused' = refused \union {owner[c]}
          /\ UNCHANGED <<entry, live>>
    /\ Finish(c)
    /\ UNCHANGED <<installed, muted, faults>>

\* removeToken, on log-out.
RemoveToken(o) ==
  /\ entry[o] # Absent
  /\ entry' = [entry EXCEPT ![o] = Absent]
  /\ live' = live \ {o}
  /\ UNCHANGED <<installed, callVars, muted, refused, faults>>

-----------------------------------------------------------------------------
\* sendToUser reads the member's active tokens ...
ReadTokens(c, u) ==
  LET active == {entry[o].token : o \in {<<u, p>> : p \in {q \in Phones :
                                            entry[<<u, q>>].active}}}
  IN /\ stage[c] = "idle"
     /\ active # {}
     /\ Turn(c, "send", None, active)
     /\ UNCHANGED <<entry, installed, historyVars, faults>>

\* ... Expo answers DeviceNotRegistered for those of no installed app ...
SendPush(c) ==
  LET gone == tokens[c] \ {installed[p] : p \in Phones}
  IN /\ stage[c] = "send"
     /\ IF gone = {} THEN Finish(c) ELSE Turn(c, "deactivate", None, gone)
     /\ muted' = muted \union gone
     /\ UNCHANGED <<entry, installed, live, refused, faults>>

\* ... and these are deactivated one by one.
DeactivateToken(c) ==
  \E t \in tokens[c] :
    /\ stage[c] = "deactivate"
    /\ entry' = Silenced({t})
    /\ IF tokens[c] = {t} THEN Finish(c)
       ELSE Turn(c, "deactivate", None, tokens[c] \ {t})
    /\ UNCHANGED <<installed, historyVars, faults>>

\* A store call or the call to Expo throws, or the process stops.
CallDies(c) ==
  /\ stage[c] # "idle"
  /\ faults < MaxFaults
  /\ faults' = faults + 1
  /\ muted' = muted \union (IF stage[c] = "upsert" THEN tokens[c] ELSE {})
  /\ Finish(c)
  /\ UNCHANGED <<entry, installed, live, refused>>

-----------------------------------------------------------------------------
Next ==
  \/ \E p \in Phones : Uninstall(p) \/ \E t \in Tokens : Install(p, t)
  \/ \E c \in Calls, o \in Owners : RegisterToken(c, o)
  \/ \E o \in Owners : RemoveToken(o)
  \/ \E c \in Calls, u \in Users : ReadTokens(c, u)
  \/ \E c \in Calls : \/ SilenceToken(c) \/ UpsertToken(c)
                      \/ SendPush(c) \/ DeactivateToken(c)
                      \/ CallDies(c)

Spec == Init /\ [][Next]_vars

-----------------------------------------------------------------------------
TypeOK ==
  /\ entry \in [Owners -> [token: Tokens \union {None}, active: BOOLEAN]]
  /\ installed \in [Phones -> Tokens \union {None}]
  /\ stage \in [Calls -> Stages]
  /\ owner \in [Calls -> Owners \union {None}]
  /\ tokens \in [Calls -> SUBSET Tokens]
  /\ live \subseteq Owners
  /\ muted \subseteq Tokens
  /\ refused \subseteq Owners
  /\ faults \in 0 .. MaxFaults

\* However registrations interleave, pushes for two members never go to one
\* phone: a token is active in one entry at most.
OneListener ==
  \A o, q \in Owners :
    o # q /\ entry[o].active /\ entry[q].active => entry[o].token # entry[q].token

\* A member who has registered and not logged out keeps his pushes, unless the
\* phone is registered for somebody else too, his own registration broke off
\* or is under way, or Expo has reported the token.
SilentOnlyWithCause ==
  \A o \in live :
    \/ entry[o].active
    \/ entry[o].token \in muted
    \/ \E c \in Calls : stage[c] = "upsert" /\ owner[c] = o

\* registerToken deactivates the entries that have the token in order to
\* prevent a conflict with the unique index (comment at push-token.service.ts
\* 35): no registration is refused by it.  The code violates this: inactive
\* entries are in the index, too.
NoIndexConflict == refused = {}
-----------------------------------------------------------------------------
(* The invariant on which both rest: no two entries have a token, active   *)
(* or not; a registration works on one token, and a sender deactivates     *)
(* only what Expo reported; and a silent entry whose own registration is   *)
(* under way has the token that the registration will put back.            *)

OneEntryPerToken ==
  \A o, q \in Owners : entry[o].token = entry[q].token => o = q \/ entry[o].token = None

CallsKnowTheirTokens ==
  \A c \in Calls :
    /\ stage[c] \in {"silence", "upsert"} =>
         owner[c] \in Owners /\ \E t \in Tokens : tokens[c] = {t}
    /\ stage[c] = "deactivate" => tokens[c] \subseteq muted

ComesBack(o) ==
  \E c \in Calls : stage[c] = "upsert" /\ owner[c] = o /\ tokens[c] = {entry[o].token}

PushInv ==
  /\ TypeOK
  /\ \A o \in Owners : entry[o].active => entry[o].token # None
  /\ OneEntryPerToken
  /\ CallsKnowTheirTokens
  /\ \A o \in live : entry[o].active \/ entry[o].token \in muted \/ ComesBack(o)
=============================================================================
