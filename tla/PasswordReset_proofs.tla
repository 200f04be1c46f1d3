------------------------- MODULE PasswordReset_proofs -------------------------
(***************************************************************************)
(* No dead link is accepted and the latest link works, for every number of   *)
(* requests, links and hours.                                               *)
(***************************************************************************)
EXTENDS PasswordReset, TLAPS

IssuedTokens == {t \in Token : t <= issued}

Storing(r) == req[r].pc \in {"replace", "store"}

\* A token is known to its request alone until it is stored and mailed.
Secret ==
  \A r \in Requests : Storing(r) =>
    /\ req[r].token \in IssuedTokens \ (dead \cup tokens \cup mailed)
    /\ \A p \in Requests : req[r].token \notin req[p].older
    /\ \A p \in Requests \ {r} : Storing(p) => req[p].token # req[r].token

\* Whatever else names a token names one that was issued.
Known ==
  /\ dead \cup tokens \cup mailed \subseteq IssuedTokens
  /\ \A r \in Requests : req[r].older \subseteq IssuedTokens

\* What is tried was mailed.
Tried ==
  \A r \in Requests :
    req[r].pc \in {"findToken", "findUser", "saveUser", "clear", "clearExpired"} =>
      req[r].token \in mailed

DeadGone == dead \cap tokens = {}

\* A safe link is the only one in the table.
Alone == safe => newest \in Token /\ tokens \subseteq {newest}

\* A reset that has found a token has found the safe link, if there is one.
OwnReset ==
  safe => \A r \in Requests :
    /\ req[r].pc \in {"findUser", "saveUser", "clear"} => req[r].token = newest
    /\ At(r, "clearExpired") => Expired(newest)

LatestStored ==
  safe /\ ~Expired(newest) /\ ~Replacing => newest \in tokens

IInv ==
  /\ TypeOK /\ Secret /\ Known /\ Tried /\ DeadGone
  /\ Alone /\ OwnReset /\ LatestStored

-----------------------------------------------------------------------------
LEMMA RequestChanges ==
  ASSUME TypeOK, NEW r \in Requests, NEW q \in Request, Becomes(r, q)
  PROVE  /\ req' \in [Requests -> Request]
         /\ \A p \in Requests : req'[p] = IF p = r THEN q ELSE req[p]
BY DEF Becomes, TypeOK

LEMMA IdleIsRequest == Idle \in Request
BY BoundAssumption DEF Idle, Request

\* Steps that touch neither the stored tokens nor the clock.
LEMMA RequestOnly ==
  ASSUME IInv, NEW r \in Requests, NEW q \in Request, Becomes(r, q),
         UNCHANGED <<tokenVars, mailed, now>>,
         password' \in 0..MaxTokens, issued' \in 0..MaxTokens, issued' >= issued,
         req[r].pc # "store", q.pc # "store",
         q.pc = "replace" =>
           /\ q.token \in Token /\ q.token <= issued' /\ q.token \notin dead \cup tokens \cup mailed
           /\ \A p \in Requests : q.token \notin req[p].older
           /\ \A p \in Requests \ {r} : Storing(p) => req[p].token # q.token,
         q.pc \in {"findToken", "findUser", "saveUser", "clear", "clearExpired"} => q.token \in mailed,
         \A t \in q.older : t <= issued',
         \A p \in Requests : Storing(p) => req[p].token \notin q.older,
         q.pc = "replace" => q.token \notin q.older,
         safe /\ q.pc \in {"findUser", "saveUser", "clear"} => q.token = newest,
         safe /\ q.pc = "clearExpired" => Expired(newest)
  PROVE  IInv'
<1>0. /\ req' \in [Requests -> Request]
      /\ \A p \in Requests : req'[p] = IF p = r THEN q ELSE req[p]
  BY RequestChanges DEF IInv
<1>1. UNCHANGED <<tokens, created, dead, newest, safe, mailed, now>>
  BY DEF tokenVars
<1>2. TypeOK'
  BY <1>0, <1>1 DEF IInv, TypeOK
<1>3. IssuedTokens \subseteq IssuedTokens'
  BY DEF IssuedTokens, IInv, TypeOK, Token
<1>4. Secret'
  <2> SUFFICES ASSUME NEW p \in Requests, Storing(p)'
               PROVE  /\ req'[p].token \in IssuedTokens' \ (dead \cup tokens \cup mailed)
                      /\ \A o \in Requests : req'[p].token \notin req'[o].older
                      /\ \A o \in Requests \ {p} : Storing(o)' => req'[o].token # req'[p].token
    BY <1>1 DEF Secret
  <2>1. CASE p = r
    BY <1>0, <2>1 DEF Storing, IssuedTokens
  <2>2. CASE p # r
    <3>1. Storing(p) /\ req'[p] = req[p]
      BY <1>0, <2>2 DEF Storing
    <3>2. /\ req[p].token \in IssuedTokens \ (dead \cup tokens \cup mailed)
          /\ \A o \in Requests : req[p].token \notin req[o].older
          /\ \A o \in Requests \ {p} : Storing(o) => req[o].token # req[p].token
      BY <3>1 DEF IInv, Secret
    <3>3. \A o \in Requests : req'[p].token \notin req'[o].older
      BY <1>0, <3>1, <3>2
    <3>4. ASSUME NEW o \in Requests \ {p}, Storing(o)' PROVE req'[o].token # req'[p].token
      <4>1. CASE o = r
        BY <1>0, <2>2, <3>1, <3>4, <4>1 DEF Storing
      <4>2. CASE o # r
        BY <1>0, <3>1, <3>2, <3>4, <4>2 DEF Storing
      <4> QED
        BY <4>1, <4>2
    <3> QED
      BY <1>3, <3>1, <3>2, <3>3, <3>4
  <2> QED
    BY <2>1, <2>2
<1>5. Known'
  <2>1. \A p \in Requests : req'[p].older \subseteq IssuedTokens'
    BY <1>0, <1>3 DEF IInv, Known, IssuedTokens, Request
  <2> QED
    BY <1>1, <1>3, <2>1 DEF IInv, Known
<1>6. Tried'
  BY <1>0, <1>1 DEF IInv, Tried
<1>7. Expired(newest)' <=> Expired(newest)
  BY <1>1 DEF Expired, DiffInMinutes
<1>8. OwnReset'
  BY <1>0, <1>1, <1>7 DEF IInv, OwnReset, At
<1>9. LatestStored'
  <2>1. Replacing => Replacing'
    BY <1>0 DEF Replacing, At
  <2> QED
    BY <1>1, <1>7, <2>1 DEF IInv, LatestStored
<1>10. DeadGone' /\ Alone'
  BY <1>1 DEF IInv, DeadGone, Alone
<1> QED
  BY <1>2, <1>4, <1>5, <1>6, <1>8, <1>9, <1>10 DEF IInv

LEMMA FinishKeeps ==
  ASSUME IInv, NEW r \in Requests, Finish(r), req[r].pc # "store",
         UNCHANGED <<password, tokenVars, issued, mailed, now>>
  PROVE  IInv'
<1>1. Becomes(r, Idle) /\ Idle.pc = "idle" /\ Idle.older = {}
  BY DEF Finish, Idle
<1>2. password' \in 0..MaxTokens /\ issued' \in 0..MaxTokens /\ issued' >= issued
  BY DEF IInv, TypeOK
<1> QED
  BY <1>1, <1>2, IdleIsRequest, RequestOnly

LEMMA StartForgotKeeps ==
  ASSUME IInv, NEW r \in Requests, StartForgot(r)
  PROVE  IInv'
<1> DEFINE older == {t \in Token : t <= issued /\ ~InFlight(t)}
           q == [Idle EXCEPT !.pc = "forgot", !.older = older]
<1>1. Becomes(r, q) /\ UNCHANGED <<password, tokenVars, issued, mailed, now>> /\ req[r].pc = "idle"
  BY DEF StartForgot, At
<1>2. older \subseteq Token /\ \A t \in older : t <= issued
  OBVIOUS
<1>3. \A p \in Requests : Storing(p) => req[p].token \notin older
  BY DEF Storing, InFlight
<1> HIDE DEF older
<1>4. q \in Request /\ q.pc = "forgot" /\ q.older = older
  BY <1>2, IdleIsRequest DEF Request, Idle
<1> HIDE DEF q
<1>5. password' \in 0..MaxTokens /\ issued' \in 0..MaxTokens /\ issued' >= issued
  BY <1>1 DEF IInv, TypeOK
<1> QED
  BY <1>1, <1>2, <1>3, <1>4, <1>5, RequestOnly

LEMMA GenerateTokenKeeps ==
  ASSUME IInv, NEW r \in Requests, GenerateToken(r)
  PROVE  IInv'
<1>0. req[r].pc = "forgot" /\ UNCHANGED <<password, tokenVars, mailed, now>>
  BY DEF GenerateToken, At
<1>1. CASE /\ issued < MaxTokens /\ issued' = issued + 1
           /\ Becomes(r, [req[r] EXCEPT !.token = issued + 1, !.pc = "replace"])
  <2> DEFINE q == [req[r] EXCEPT !.token = issued + 1, !.pc = "replace"]
  <2>1. issued \in Nat /\ issued' = issued + 1 /\ MaxTokens \in Nat /\ issued + 1 <= MaxTokens
    BY <1>1, BoundAssumption DEF IInv, TypeOK
  <2>2. req[r] \in Request /\ issued + 1 \in Token /\ issued + 1 \in 0..MaxTokens
    BY <2>1 DEF IInv, TypeOK, Token
  <2>3. q \in Request /\ q.pc = "replace" /\ q.token = issued + 1 /\ q.older = req[r].older
    BY <2>2 DEF Request
  <2> HIDE DEF q
  <2>4. issued + 1 \notin IssuedTokens
    BY <2>1 DEF IssuedTokens
  <2>5. /\ q.token \notin dead \cup tokens \cup mailed
        /\ \A p \in Requests : q.token \notin req[p].older
    BY <2>3, <2>4 DEF IInv, Known
  <2>6. \A p \in Requests : Storing(p) => req[p].token # q.token /\ req[p].token \notin q.older
    BY <2>3, <2>4 DEF IInv, Secret
  <2>7. \A t \in q.older : t <= issued'
    <3>1. \A t \in q.older : t \in Token /\ t <= issued
      BY <2>3 DEF IInv, Known, IssuedTokens
    <3> QED
      BY <2>1, <3>1 DEF Token
  <2>8. password' \in 0..MaxTokens /\ issued' \in 0..MaxTokens /\ issued' >= issued
        /\ q.token <= issued'
    BY <1>0, <2>1, <2>2, <2>3 DEF IInv, TypeOK
  <2>9. Becomes(r, q)
    BY <1>1 DEF q
  <2> QED
    BY <1>0, <2>2, <2>3, <2>5, <2>6, <2>7, <2>8, <2>9, RequestOnly
<1>2. CASE Finish(r) /\ UNCHANGED issued
  BY <1>0, <1>2, FinishKeeps
<1> QED
  BY <1>1, <1>2 DEF GenerateToken

LEMMA StartResetKeeps ==
  ASSUME IInv, NEW r \in Requests, StartReset(r)
  PROVE  IInv'
<1>1. PICK t \in mailed : Becomes(r, [Idle EXCEPT !.token = t, !.pc = "findToken"])
  BY DEF StartReset
<1> DEFINE q == [Idle EXCEPT !.token = t, !.pc = "findToken"]
<1>2. req[r].pc = "idle" /\ UNCHANGED <<password, tokenVars, issued, mailed, now>>
  BY DEF StartReset, At
<1>3. t \in 0..MaxTokens
  BY BoundAssumption DEF IInv, TypeOK, Token
<1>4. q \in Request /\ q.pc = "findToken" /\ q.token = t /\ q.older = {}
  BY <1>3, IdleIsRequest DEF Request, Idle
<1>5. Becomes(r, q)
  BY <1>1
<1> HIDE DEF q
<1>6. password' \in 0..MaxTokens /\ issued' \in 0..MaxTokens /\ issued' >= issued
  BY <1>2 DEF IInv, TypeOK
<1> QED
  BY <1>2, <1>4, <1>5, <1>6, RequestOnly

\* A reset that goes on with the token it has.
LEMMA ResetGoesOn ==
  ASSUME IInv, NEW r \in Requests,
         req[r].pc \in {"findToken", "findUser", "saveUser"},
         NEW label \in {"findUser", "saveUser", "clear", "clearExpired"}, GoesTo(r, label),
         safe /\ label = "clearExpired" => Expired(newest),
         safe /\ req[r].pc = "findToken" => req[r].token = newest,
         UNCHANGED <<tokenVars, issued, mailed, now>>, password' \in 0..MaxTokens
  PROVE  IInv'
<1> DEFINE q == [req[r] EXCEPT !.pc = label]
<1>1. /\ q \in Request /\ q.pc = label /\ q.token = req[r].token /\ q.older = req[r].older
      /\ req[r] \in Request
  BY DEF IInv, TypeOK, Request
<1>2. Becomes(r, q)
  BY DEF GoesTo
<1> HIDE DEF q
<1>3. q.token \in mailed
  BY <1>1 DEF IInv, Tried
<1>4. \A t \in q.older : t <= issued'
  BY <1>1 DEF IInv, Known, IssuedTokens
<1>5. \A p \in Requests : Storing(p) => req[p].token \notin q.older
  BY <1>1 DEF IInv, Secret
<1>6. issued' \in 0..MaxTokens /\ issued' >= issued
  BY DEF IInv, TypeOK
<1>7. safe /\ label # "clearExpired" => q.token = newest
  BY <1>1 DEF IInv, OwnReset
<1> QED
  BY <1>1, <1>2, <1>3, <1>4, <1>5, <1>6, <1>7, RequestOnly

LEMMA FindTokenKeeps ==
  ASSUME IInv, NEW r \in Requests, FindToken(r)
  PROVE  IInv'
<1>0. /\ req[r].pc = "findToken" /\ UNCHANGED <<password, tokenVars, issued, mailed, now>>
      /\ password' \in 0..MaxTokens
  BY DEF FindToken, At, IInv, TypeOK
<1>1. CASE req[r].token \in tokens /\ GoesTo(r, "findUser")
  <2>1. safe => req[r].token = newest
    BY <1>1 DEF IInv, Alone
  <2> QED
    BY <1>0, <1>1, <2>1, ResetGoesOn
<1>2. CASE /\ req[r].token \in tokens /\ Expired(req[r].token)
           /\ GoesTo(r, "clearExpired")
  <2>1. safe => req[r].token = newest
    BY <1>2 DEF IInv, Alone
  <2> QED
    BY <1>0, <1>2, <2>1, ResetGoesOn
<1>3. CASE Finish(r)
  BY <1>0, <1>3, FinishKeeps
<1> QED
  BY <1>1, <1>2, <1>3 DEF FindToken, Accepts

LEMMA FindUserKeeps ==
  ASSUME IInv, NEW r \in Requests, FindUser(r)
  PROVE  IInv'
<1>0. /\ req[r].pc = "findUser" /\ UNCHANGED <<password, tokenVars, issued, mailed, now>>
      /\ password' \in 0..MaxTokens
  BY DEF FindUser, At, IInv, TypeOK
<1>1. CASE GoesTo(r, "saveUser")
  BY <1>0, <1>1, ResetGoesOn
<1>2. CASE Finish(r)
  BY <1>0, <1>2, FinishKeeps
<1> QED
  BY <1>1, <1>2 DEF FindUser

LEMMA SaveUserKeeps ==
  ASSUME IInv, NEW r \in Requests, SaveUser(r)
  PROVE  IInv'
<1>1. /\ req[r].pc = "saveUser" /\ UNCHANGED <<tokenVars, issued, mailed, now>>
      /\ GoesTo(r, "clear") /\ password' \in {req[r].token, password}
  BY DEF SaveUser, At
<1>2. password' \in 0..MaxTokens
  BY <1>1 DEF IInv, TypeOK, Request
<1> QED
  BY <1>1, <1>2, ResetGoesOn

-----------------------------------------------------------------------------
(* Steps that change the stored tokens.                                    *)

LEMMA ReplaceTokensKeeps ==
  ASSUME IInv, NEW r \in Requests, ReplaceTokens(r)
  PROVE  IInv'
<1> DEFINE q == [req[r] EXCEPT !.pc = "store"]
<1>1. /\ req[r].pc = "replace"
      /\ UNCHANGED <<password, created, newest, safe, issued, mailed, now>>
      /\ \/ tokens' = {} /\ dead' = dead \cup req[r].older
         \/ tokens' = tokens /\ dead' = dead
  BY DEF ReplaceTokens, At
<1>2. Becomes(r, q)
  BY DEF ReplaceTokens, GoesTo
<1>3. /\ q \in Request /\ q.pc = "store" /\ q.token = req[r].token /\ q.older = req[r].older
      /\ req[r] \in Request
  BY DEF IInv, TypeOK, Request
<1> HIDE DEF q
<1>4. /\ req' \in [Requests -> Request]
      /\ \A p \in Requests : req'[p] = IF p = r THEN q ELSE req[p]
  BY <1>2, <1>3, RequestChanges DEF IInv
<1>5. \A p \in Requests : /\ req'[p].token = req[p].token /\ req'[p].older = req[p].older
                          /\ Storing(p)' <=> Storing(p)
  BY <1>1, <1>3, <1>4 DEF Storing
<1>6. /\ tokens' \subseteq tokens /\ dead \subseteq dead' /\ dead' \subseteq dead \cup req[r].older
      /\ IssuedTokens' = IssuedTokens
  BY <1>1 DEF IssuedTokens
<1>7. TypeOK'
  <2>1. dead' \subseteq Token /\ tokens' \subseteq Token
    BY <1>3, <1>6 DEF IInv, TypeOK, Request
  <2> QED
    BY <1>1, <1>4, <2>1 DEF IInv, TypeOK
<1>8. Secret'
  <2> SUFFICES ASSUME NEW p \in Requests, Storing(p)'
               PROVE  /\ req'[p].token \in IssuedTokens' \ (dead' \cup tokens' \cup mailed')
                      /\ \A o \in Requests : req'[p].token \notin req'[o].older
                      /\ \A o \in Requests \ {p} : Storing(o)' => req'[o].token # req'[p].token
    BY DEF Secret
  <2>1. Storing(p)
    BY <1>5
  <2>2. /\ req[p].token \in IssuedTokens \ (dead \cup tokens \cup mailed)
        /\ \A o \in Requests : req[p].token \notin req[o].older
        /\ \A o \in Requests \ {p} : Storing(o) => req[o].token # req[p].token
    BY <2>1 DEF IInv, Secret
  <2> QED
    BY <1>1, <1>5, <1>6, <2>2
<1>9. Known'
  BY <1>1, <1>5, <1>6 DEF IInv, Known
<1>10. Tried'
  BY <1>1, <1>3, <1>4 DEF IInv, Tried
<1>11. DeadGone'
  BY <1>1 DEF IInv, DeadGone
<1>12. Alone'
  BY <1>1, <1>6 DEF IInv, Alone
<1>13. Expired(newest)' <=> Expired(newest)
  BY <1>1 DEF Expired, DiffInMinutes
<1>14. OwnReset'
  BY <1>1, <1>3, <1>4, <1>13 DEF IInv, OwnReset, At
<1>15. Replacing'
  BY <1>3, <1>4 DEF Replacing, At
<1>16. LatestStored'
  BY <1>15 DEF LatestStored
<1> QED
  BY <1>7, <1>8, <1>9, <1>10, <1>11, <1>12, <1>14, <1>16 DEF IInv

\* A request that ends.
LEMMA Ends ==
  ASSUME TypeOK, NEW r \in Requests, Finish(r)
  PROVE  /\ req' \in [Requests -> Request]
         /\ req'[r].pc = "idle" /\ req'[r].older = {}
         /\ \A p \in Requests : p # r => req'[p] = req[p]
<1>1. Becomes(r, Idle) /\ Idle.pc = "idle" /\ Idle.older = {}
  BY DEF Finish, Idle
<1> QED
  BY <1>1, IdleIsRequest, RequestChanges

LEMMA StoreTokenKeeps ==
  ASSUME IInv, NEW r \in Requests, StoreToken(r)
  PROVE  IInv'
<1> DEFINE t == req[r].token
<1>1. /\ req[r].pc = "store" /\ newest' = t /\ mailed' = mailed \cup {t} /\ Finish(r)
      /\ UNCHANGED <<password, dead, issued, now>>
  BY DEF StoreToken, At
<1>2. \/ /\ tokens' = tokens \cup {t} /\ created' = [created EXCEPT ![t] = now]
         /\ safe' = (~Resetting /\ tokens = {})
      \/ tokens' = tokens /\ created' = created /\ safe' = FALSE
  BY DEF StoreToken
<1>3. /\ req' \in [Requests -> Request] /\ req'[r].pc = "idle" /\ req'[r].older = {}
      /\ \A p \in Requests : p # r => req'[p] = req[p]
  BY <1>1, Ends DEF IInv
<1>4. /\ t \in IssuedTokens \ (dead \cup tokens \cup mailed)
      /\ \A p \in Requests \ {r} : Storing(p) => req[p].token # t
      /\ IssuedTokens' = IssuedTokens /\ t \in Token
  BY <1>1 DEF IInv, Secret, Storing, IssuedTokens
<1>5. /\ created \in [Token -> 0..MaxTime] /\ now \in 0..MaxTime /\ tokens \subseteq Token
  BY DEF IInv, TypeOK
<1> HIDE DEF t
<1>6. /\ tokens' \subseteq tokens \cup {t}
      /\ \A s \in tokens : created'[s] = created[s]
      /\ t \in tokens' => created'[t] = now
      /\ created' \in [Token -> 0..MaxTime]
  <2>1. CASE tokens' = tokens \cup {t} /\ created' = [created EXCEPT ![t] = now]
    BY <1>4, <1>5, <2>1
  <2>2. CASE tokens' = tokens /\ created' = created
    BY <1>4, <1>5, <2>2
  <2> QED
    BY <1>2, <2>1, <2>2
<1>7. safe' \in BOOLEAN
  <2>1. CASE safe' = FALSE
    BY <2>1, Zenon
  <2>2. CASE safe' = (~Resetting /\ tokens = {})
    BY <2>2, Zenon
  <2> QED
    BY <1>2, <2>1, <2>2
<1>8. TypeOK'
  <2>1. newest' \in 0..MaxTokens
    BY <1>1, <1>4, BoundAssumption DEF Token
  <2>2. tokens' \subseteq Token /\ mailed' \subseteq Token
    BY <1>1, <1>4, <1>6 DEF IInv, TypeOK
  <2> QED
    BY <1>1, <1>3, <1>6, <1>7, <2>1, <2>2 DEF IInv, TypeOK
<1>9. Secret'
  <2> SUFFICES ASSUME NEW p \in Requests, Storing(p)'
               PROVE  /\ req'[p].token \in IssuedTokens' \ (dead' \cup tokens' \cup mailed')
                      /\ \A o \in Requests : req'[p].token \notin req'[o].older
                      /\ \A o \in Requests \ {p} : Storing(o)' => req'[o].token # req'[p].token
    BY DEF Secret
  <2>1. p # r /\ Storing(p) /\ req'[p] = req[p]
    BY <1>3 DEF Storing
  <2>2. /\ req[p].token \in IssuedTokens \ (dead \cup tokens \cup mailed)
        /\ \A o \in Requests : req[p].token \notin req[o].older
        /\ \A o \in Requests \ {p} : Storing(o) => req[o].token # req[p].token
    BY <2>1 DEF IInv, Secret
  <2>3. req[p].token # t
    BY <1>4, <2>1
  <2>4. \A o \in Requests : Storing(o)' => Storing(o) /\ req'[o] = req[o]
    BY <1>3 DEF Storing
  <2> QED
    BY <1>1, <1>3, <1>4, <1>6, <2>1, <2>2, <2>3, <2>4
<1>10. Known'
  BY <1>1, <1>3, <1>4, <1>6 DEF IInv, Known
<1>11. Tried'
  BY <1>1, <1>3 DEF IInv, Tried
<1>12. DeadGone'
  BY <1>1, <1>4, <1>6 DEF IInv, DeadGone
<1>13. Alone'
  BY <1>1, <1>2, <1>4 DEF Alone
<1>14. OwnReset'
  <2>1. ASSUME safe' PROVE ~Resetting
    BY <1>2, <2>1
  <2> QED
    BY <1>3, <2>1 DEF OwnReset, At, Resetting
<1>15. LatestStored'
  BY <1>1, <1>2 DEF LatestStored
<1> QED
  BY <1>8, <1>9, <1>10, <1>11, <1>12, <1>13, <1>14, <1>15 DEF IInv

LEMMA ClearTokensKeeps ==
  ASSUME IInv, NEW r \in Requests, ClearTokens(r)
  PROVE  IInv'
<1>1. /\ req[r].pc \in {"clear", "clearExpired"} /\ Finish(r)
      /\ UNCHANGED <<password, created, newest, issued, mailed, now>>
      /\ \/ /\ tokens' = {} /\ req[r].pc = "clear" /\ dead' = dead \cup tokens \cup {req[r].token}
            /\ safe' = (safe /\ req[r].token # newest)
         \/ tokens' = {} /\ req[r].pc = "clearExpired" /\ dead' = dead /\ safe' = safe
         \/ tokens' = tokens /\ dead' = dead /\ safe' = safe
  BY DEF ClearTokens, At
<1>2. /\ req' \in [Requests -> Request] /\ req'[r].pc = "idle" /\ req'[r].older = {}
      /\ \A p \in Requests : p # r => req'[p] = req[p]
  BY <1>1, Ends DEF IInv
<1>3. req[r].token \in mailed /\ req[r].token \in Token /\ req[r].token \in IssuedTokens
  BY <1>1 DEF IInv, Tried, TypeOK, Known
<1>4. /\ tokens' \subseteq tokens /\ dead \subseteq dead'
      /\ dead' \subseteq dead \cup tokens \cup mailed /\ IssuedTokens' = IssuedTokens
  BY <1>1, <1>3 DEF IssuedTokens
<1>5. \A p \in Requests : Storing(p)' => p # r /\ Storing(p) /\ req'[p] = req[p]
  BY <1>2 DEF Storing
<1>6. TypeOK' /\ (safe' => safe)
  <2>1. dead' \subseteq Token /\ tokens' \subseteq Token
    BY <1>4 DEF IInv, TypeOK
  <2>2. safe' \in BOOLEAN /\ (safe' => safe)
    <3>1. CASE safe' = safe
      BY <3>1 DEF IInv, TypeOK
    <3>2. CASE safe' = (safe /\ req[r].token # newest)
      BY <3>2, Zenon
    <3> QED
      BY <1>1, <3>1, <3>2
  <2> QED
    BY <1>1, <1>2, <2>1, <2>2 DEF IInv, TypeOK
<1>7. Secret'
  <2> SUFFICES ASSUME NEW p \in Requests, Storing(p)'
               PROVE  /\ req'[p].token \in IssuedTokens' \ (dead' \cup tokens' \cup mailed')
                      /\ \A o \in Requests : req'[p].token \notin req'[o].older
                      /\ \A o \in Requests \ {p} : Storing(o)' => req'[o].token # req'[p].token
    BY DEF Secret
  <2>1. /\ req[p].token \in IssuedTokens \ (dead \cup tokens \cup mailed)
        /\ \A o \in Requests : req[p].token \notin req[o].older
        /\ \A o \in Requests \ {p} : Storing(o) => req[o].token # req[p].token
    BY <1>5 DEF IInv, Secret
  <2> QED
    BY <1>1, <1>2, <1>4, <1>5, <2>1
<1>8. Known'
  <2>1. dead' \cup tokens' \cup mailed' \subseteq IssuedTokens'
    BY <1>1, <1>4 DEF IInv, Known
  <2>2. \A p \in Requests : req'[p].older \subseteq IssuedTokens'
    BY <1>2, <1>4 DEF IInv, Known
  <2> QED
    BY <2>1, <2>2 DEF Known
<1>9. Tried'
  BY <1>1, <1>2 DEF IInv, Tried
<1>10. DeadGone'
  BY <1>1 DEF IInv, DeadGone
<1>11. Alone'
  BY <1>1, <1>4, <1>6 DEF IInv, Alone
<1>12. Expired(newest)' <=> Expired(newest)
  BY <1>1 DEF Expired, DiffInMinutes
<1>13. OwnReset'
  BY <1>1, <1>2, <1>6, <1>12 DEF IInv, OwnReset, At
<1>14. LatestStored'
  <2> SUFFICES ASSUME safe', ~Expired(newest), ~Replacing'
               PROVE  newest \in tokens'
    BY <1>1, <1>12 DEF LatestStored
  <2>1. ~Replacing
    BY <1>1, <1>2 DEF Replacing, At
  <2>2. newest \in tokens
    BY <1>6, <2>1 DEF IInv, LatestStored
  <2>3. req[r].pc # "clearExpired"
    BY <1>6 DEF IInv, OwnReset, At
  <2>4. req[r].pc = "clear" => req[r].token = newest
    BY <1>6 DEF IInv, OwnReset
  <2> QED
    BY <1>1, <2>2, <2>3, <2>4
<1> QED
  BY <1>6, <1>7, <1>8, <1>9, <1>10, <1>11, <1>13, <1>14 DEF IInv

-----------------------------------------------------------------------------
(* Whole minutes.                                                           *)

LEMMA LaterIsNotLess ==
  ASSUME NEW x \in Int
  PROVE  (x + 1) \div Minute >= x \div Minute
BY MinuteAssumption

LEMMA WholeMinutes ==
  ASSUME NEW x \in Int, x <= Lifetime * Minute
  PROVE  x \div Minute <= Lifetime
BY MinuteAssumption, LifetimeAssumption

LEMMA TickKeeps == IInv /\ Tick => IInv'
<1> SUFFICES ASSUME IInv, Tick PROVE IInv'
  OBVIOUS
<1>1. /\ now < MaxTime /\ now' = now + 1 /\ \A r \in Requests : req[r].pc = "idle"
      /\ UNCHANGED <<password, tokens, created, dead, newest, safe, issued, mailed, req>>
  BY DEF Tick, tokenVars, At
<1>2. now \in Nat /\ now' \in 0..MaxTime
  BY <1>1, BoundAssumption DEF IInv, TypeOK
<1>3. TypeOK'
  BY <1>1, <1>2 DEF IInv, TypeOK
<1>4. Secret' /\ OwnReset'
  BY <1>1 DEF Secret, OwnReset, Storing, At
<1>5. Known' /\ Tried' /\ DeadGone' /\ Alone'
  BY <1>1 DEF IInv, Known, Tried, DeadGone, Alone, IssuedTokens
<1>6. LatestStored'
  <2>1. safe => created[newest] \in 0..MaxTime
    BY DEF IInv, Alone, TypeOK
  <2>2. safe /\ Expired(newest) => Expired(newest)'
    <3> SUFFICES ASSUME safe, Expired(newest) PROVE Expired(newest)'
      OBVIOUS
    <3> DEFINE age == now - created[newest]
    <3>1. age \in Int /\ created[newest] \in Int
      BY <1>2, <2>1, BoundAssumption
    <3>2. (age + 1) \div Minute >= age \div Minute
      BY <3>1, LaterIsNotLess
    <3>3. DiffInMinutes(newest)' = (age + 1) \div Minute
      <4>1. now' - created'[newest'] = age + 1
        BY <1>1, <1>2, <3>1
      <4> QED
        BY <4>1 DEF DiffInMinutes
    <3>4. DiffInMinutes(newest) = age \div Minute
      BY DEF DiffInMinutes
    <3>5. age \div Minute \in Int /\ (age + 1) \div Minute \in Int
      BY <3>1, MinuteAssumption
    <3> HIDE DEF age
    <3>6. age \div Minute > Lifetime
      BY <3>4 DEF Expired
    <3>7. (age + 1) \div Minute > Lifetime
      BY <3>2, <3>5, <3>6, LifetimeAssumption
    <3> QED
      BY <3>3, <3>7 DEF Expired
  <2>3. Replacing' <=> Replacing
    BY <1>1 DEF Replacing, At
  <2> QED
    BY <1>1, <2>2, <2>3 DEF IInv, LatestStored
<1> QED
  BY <1>3, <1>4, <1>5, <1>6 DEF IInv

LEMMA CrashKeeps == IInv /\ Crash => IInv'
<1> SUFFICES ASSUME IInv, Crash PROVE IInv'
  OBVIOUS
<1>1. /\ req' = [r \in Requests |-> Idle] /\ safe' = (safe /\ ~Replacing)
      /\ UNCHANGED <<password, tokens, created, dead, newest, issued, mailed, now>>
  BY DEF Crash
<1>2. \A r \in Requests : req'[r].pc = "idle" /\ req'[r].older = {}
  BY <1>1 DEF Idle
<1>3. safe' \in BOOLEAN
  BY <1>1, Zenon
<1>4. TypeOK'
  BY <1>1, <1>3, IdleIsRequest DEF IInv, TypeOK
<1>5. Secret' /\ OwnReset' /\ Tried'
  BY <1>2 DEF Secret, OwnReset, Tried, Storing, At
<1>6. Known' /\ DeadGone'
  BY <1>1, <1>2 DEF IInv, Known, DeadGone, IssuedTokens
<1>7. Alone' /\ LatestStored'
  BY <1>1 DEF IInv, Alone, LatestStored, Expired, DiffInMinutes
<1> QED
  BY <1>4, <1>5, <1>6, <1>7 DEF IInv

LEMMA InitHolds == Init => IInv
<1> SUFFICES ASSUME Init PROVE IInv
  OBVIOUS
<1>1. \A r \in Requests : req[r] = Idle
  BY DEF Init
<1>2. safe = FALSE
  BY DEF Init
<1>3. safe \in BOOLEAN
  BY <1>2, Zenon
<1>4. TypeOK
  BY <1>3, IdleIsRequest, BoundAssumption DEF Init, TypeOK
<1>5. Secret /\ Tried
  BY <1>1 DEF Secret, Tried, Storing, Idle
<1>6. Known /\ DeadGone
  BY <1>1 DEF Init, Known, DeadGone, Idle
<1>7. Alone /\ OwnReset /\ LatestStored
  BY <1>2 DEF Alone, OwnReset, LatestStored
<1> QED
  BY <1>4, <1>5, <1>6, <1>7 DEF IInv

LEMMA NextKeeps == IInv /\ [Next]_vars => IInv'
<1> SUFFICES ASSUME IInv, [Next]_vars PROVE IInv'
  OBVIOUS
<1>1. CASE Tick
  BY <1>1, TickKeeps
<1>2. CASE Crash
  BY <1>2, CrashKeeps
<1>3. ASSUME NEW r \in Requests, StartForgot(r) \/ StartReset(r) \/ Advance(r) PROVE IInv'
  BY <1>3, StartForgotKeeps, StartResetKeeps, GenerateTokenKeeps, ReplaceTokensKeeps,
     StoreTokenKeeps, FindTokenKeeps, FindUserKeeps, SaveUserKeeps, ClearTokensKeeps
  DEF Advance
<1>4. CASE UNCHANGED vars
  BY <1>4 DEF vars, tokenVars, IInv, TypeOK, Secret, Known, Tried, DeadGone, Alone,
              OwnReset, LatestStored, IssuedTokens, Storing, At, Expired, DiffInMinutes, Replacing
<1> QED
  BY <1>1, <1>2, <1>3, <1>4 DEF Next

LEMMA Invariant == Spec => []IInv
BY InitHolds, NextKeeps, PTL DEF Spec

\* Every reachable state of the tokens, the links and the requests on them is
\* well typed, for any number of them.
THEOREM TypeCorrect == Spec => []TypeOK
<1>1. IInv => TypeOK
  BY DEF IInv
<1> QED
  BY <1>1, Invariant, PTL

\* A link that the delete of a reset, or of a later request, has removed is not
\* accepted again, however many requests overlap.
THEOREM DeadStayDead == Spec => []DeadLinksRefused
<1>1. IInv => DeadLinksRefused
  BY DEF IInv, DeadGone, DeadLinksRefused, Accepts
<1> QED
  BY <1>1, Invariant, PTL

\* A link that was stored alone, with no reset under way, works until a reset
\* uses it, a newer one replaces it or its time is over, for every lifetime.
THEOREM LatestWorks == Spec => []LatestLinkWorks
<1>1. ASSUME IInv, safe, now - created[newest] <= Lifetime * Minute PROVE ~Expired(newest)
  <2>1. now - created[newest] \in Int
    BY <1>1, BoundAssumption DEF IInv, Alone, TypeOK
  <2>2. DiffInMinutes(newest) <= Lifetime
    BY <1>1, <2>1, WholeMinutes DEF DiffInMinutes
  <2>3. DiffInMinutes(newest) \in Int
    BY <2>1, MinuteAssumption DEF DiffInMinutes
  <2> QED
    BY <2>2, <2>3, LifetimeAssumption DEF Expired
<1>2. IInv => LatestLinkWorks
  BY <1>1 DEF IInv, LatestStored, LatestLinkWorks, Accepts
<1> QED
  BY <1>2, Invariant, PTL

=============================================================================
