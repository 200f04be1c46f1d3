---------------------------- MODULE PasswordReset ----------------------------
(***************************************************************************)
(* Forgotten passwords: the rows of password_reset_tokens for one e-mail     *)
(* address, the mails that carry the links, and the resets that use them.    *)
(* Every endpoint is a sequence of SQL statements without a transaction, and *)
(* all but the reads ignore their errors.                                    *)
(*                                                                         *)
(* Abstractions.  A token and its hash are one number, fresh for each        *)
(* request (32 random bytes); the password is named after the link that set  *)
(* it.  The user exists.  A mail may be late, overtaken or lost: the user     *)
(* tries any link that was mailed, at any time or never.  A request takes    *)
(* less than the clock's unit, so the clock stands still while one runs.     *)
(***************************************************************************)
EXTENDS Integers

CONSTANTS
  Requests,    \* request goroutines
  Lifetime,    \* 60, in minutes
  Minute,      \* units of the clock in a minute
  DbMayFail,   \* a SQL statement may fail
  MayCrash,    \* the server may stop between two statements
  MaxTokens,   \* bound: links that are asked for
  MaxTime      \* bound: the clock

ASSUME LifetimeAssumption == Lifetime \in Nat
ASSUME MinuteAssumption   == Minute \in Nat \ {0}
ASSUME SwitchAssumption   == {DbMayFail, MayCrash} \subseteq BOOLEAN
ASSUME BoundAssumption    == MaxTokens \in Nat /\ MaxTime \in Nat

VARIABLES
  password,   \* the link it was set with, 0 for the first one
  tokens,     \* rows of password_reset_tokens
  created,    \* their created_at
  issued,     \* tokens generated so far
  mailed,     \* links handed to a mail goroutine
  now,
  dead,       \* ghost: links that a newer one replaced or a reset invalidated
  newest,     \* ghost: the link that was stored last
  safe,       \* ghost: it stood alone, with no reset under way, and none has used it
  req         \* what each request is doing

tokenVars == <<tokens, created, dead, newest, safe>>

vars == <<password, tokenVars, issued, mailed, now, req>>

-----------------------------------------------------------------------------
Token == 1..MaxTokens

Request == [pc : {"idle", "forgot", "replace", "store",
                  "findToken", "findUser", "saveUser", "clear", "clearExpired"},
            token : 0..MaxTokens,
            older : SUBSET Token]   \* ghost: links whose request was over at its start

Idle == [pc |-> "idle", token |-> 0, older |-> {}]

TypeOK ==
  /\ password \in 0..MaxTokens /\ issued \in 0..MaxTokens /\ newest \in 0..MaxTokens
  /\ tokens \subseteq Token /\ mailed \subseteq Token
  /\ dead \subseteq Token /\ safe \in BOOLEAN
  /\ created \in [Token -> 0..MaxTime] /\ now \in 0..MaxTime
  /\ req \in [Requests -> Request]

Init ==
  /\ password = 0 /\ issued = 0 /\ newest = 0
  /\ tokens = {} /\ mailed = {} /\ dead = {}
  /\ safe = FALSE
  /\ created = [t \in Token |-> 0] /\ now = 0
  /\ req = [r \in Requests |-> Idle]

At(r, label) == req[r].pc = label

Becomes(r, q) == req' = [req EXCEPT ![r] = q]

GoesTo(r, label) == Becomes(r, [req[r] EXCEPT !.pc = label])

Finish(r) == Becomes(r, Idle)

-----------------------------------------------------------------------------
(* ForgotPassword.                                                         *)

InFlight(t) == \E r \in Requests : req[r].pc \in {"replace", "store"} /\ req[r].token = t

StartForgot(r) ==
  /\ At(r, "idle")
  /\ Becomes(r, [Idle EXCEPT !.pc = "forgot",
                             !.older = {t \in Token : t <= issued /\ ~InFlight(t)}])
  /\ UNCHANGED <<password, tokenVars, issued, mailed, now>>

\* The user is found and a token generated.
GenerateToken(r) ==
  /\ At(r, "forgot")
  /\ \/ /\ issued < MaxTokens
        /\ issued' = issued + 1
        /\ Becomes(r, [req[r] EXCEPT !.token = issued + 1, !.pc = "replace"])
     \/ (issued >= MaxTokens \/ DbMayFail) /\ Finish(r) /\ UNCHANGED issued
  /\ UNCHANGED <<password, tokenVars, mailed, now>>

\* Mutated form of ReplaceTokens: what was stored stays stored.
KeepTokens(r) ==
  /\ At(r, "replace")
  /\ dead' = dead \cup req[r].older
  /\ GoesTo(r, "store")
  /\ UNCHANGED <<password, tokens, created, newest, safe, issued, mailed, now>>

ReplaceTokens(r) ==
  /\ At(r, "replace")
  /\ \/ tokens' = {} /\ dead' = dead \cup req[r].older
     \/ DbMayFail /\ UNCHANGED <<tokens, dead>>
  /\ GoesTo(r, "store")
  /\ UNCHANGED <<password, created, newest, safe, issued, mailed, now>>

\* The old links are deleted and the new one is not stored yet.
Replacing == \E r \in Requests : At(r, "store")

\* Someone has found a link to be good, or expired, and will delete them all.
Resetting == \E r \in Requests : req[r].pc \in {"findUser", "saveUser", "clear", "clearExpired"}

\* The link is mailed whether or not its row could be stored.
StoreToken(r) ==
  /\ At(r, "store")
  /\ newest' = req[r].token
  /\ \/ /\ tokens' = tokens \cup {req[r].token}
        /\ created' = [created EXCEPT ![req[r].token] = now]
        /\ safe' = (~Resetting /\ tokens = {})
     \/ DbMayFail /\ safe' = FALSE /\ UNCHANGED <<tokens, created>>
  /\ mailed' = mailed \cup {req[r].token}
  /\ Finish(r)
  /\ UNCHANGED <<password, dead, issued, now>>

-----------------------------------------------------------------------------
(* ResetPassword.                                                          *)

StartReset(r) ==
  /\ At(r, "idle")
  /\ \E t \in mailed : Becomes(r, [Idle EXCEPT !.token = t, !.pc = "findToken"])
  /\ UNCHANGED <<password, tokenVars, issued, mailed, now>>

\* Only whole minutes count.
DiffInMinutes(t) == (now - created[t]) \div Minute

\* Mutated form of Expired: the 60 minutes are over when they are full.
ExpiredAtOnce(t) == DiffInMinutes(t) >= Lifetime

\* More than 60 whole minutes: 61 have passed.
Expired(t) == DiffInMinutes(t) > Lifetime

Accepts(t) == t \in tokens /\ ~Expired(t)

FindToken(r) ==
  /\ At(r, "findToken")
  /\ \/ Accepts(req[r].token) /\ GoesTo(r, "findUser")
     \/ req[r].token \in tokens /\ Expired(req[r].token) /\ GoesTo(r, "clearExpired")
     \/ (req[r].token \notin tokens \/ DbMayFail) /\ Finish(r)
  /\ UNCHANGED <<password, tokenVars, issued, mailed, now>>

FindUser(r) ==
  /\ At(r, "findUser")
  /\ \/ GoesTo(r, "saveUser")
     \/ DbMayFail /\ Finish(r)
  /\ UNCHANGED <<password, tokenVars, issued, mailed, now>>

\* Whether or not the row could be saved the reset goes on.
SaveUser(r) ==
  /\ At(r, "saveUser")
  /\ password' = req[r].token \/ (DbMayFail /\ UNCHANGED password)
  /\ GoesTo(r, "clear")
  /\ UNCHANGED <<tokenVars, issued, mailed, now>>

\* Every token of the address goes, whichever was used.
ClearTokens(r) ==
  /\ \/ /\ At(r, "clear")
        /\ tokens' = {}
        /\ dead' = dead \cup tokens \cup {req[r].token}
        /\ safe' = (safe /\ req[r].token # newest)
     \/ At(r, "clearExpired") /\ tokens' = {} /\ UNCHANGED <<dead, safe>>
     \/ /\ At(r, "clear") \/ At(r, "clearExpired")
        /\ DbMayFail
        /\ UNCHANGED <<tokens, dead, safe>>
  /\ Finish(r)
  /\ UNCHANGED <<password, created, newest, issued, mailed, now>>

-----------------------------------------------------------------------------
Tick ==
  /\ now < MaxTime
  /\ \A r \in Requests : At(r, "idle")
  /\ now' = now + 1
  /\ UNCHANGED <<password, tokenVars, issued, mailed, req>>

\* The server stops: requests are broken off, and mails that were not sent are
\* lost, their links never used.
Crash ==
  /\ MayCrash
  /\ req' = [r \in Requests |-> Idle]
  /\ safe' = (safe /\ ~Replacing)
  /\ UNCHANGED <<password, tokens, created, dead, newest, issued, mailed, now>>

Advance(r) ==
  \/ GenerateToken(r) \/ ReplaceTokens(r) \/ StoreToken(r)
  \/ FindToken(r) \/ FindUser(r) \/ SaveUser(r) \/ ClearTokens(r)

Next ==
  \/ Tick
  \/ Crash
  \/ \E r \in Requests : StartForgot(r) \/ StartReset(r) \/ Advance(r)

Spec == Init /\ [][Next]_vars

-----------------------------------------------------------------------------
(* Properties.                                                             *)

\* "Single-use token: invalidate it once the password has been reset" and
\* "Remove any previously issued reset token": no link is accepted after the
\* delete at the end of a reset has removed it, or after a request that began
\* when its own was over has replaced it, however requests overlap and however
\* late its mail arrives.  A delete that failed, or that a crash kept from
\* running, removes nothing: until it has run, a second reset may use the link.
DeadLinksRefused == \A t \in dead : ~Accepts(t)

\* The link that was stored last, in a table that was empty and with no reset
\* under way, works for all of its 60 minutes, until a reset has used it or a
\* newer one replaces it: no request that overlaps deletes it on the side, and
\* no older link that is tried afterwards does.  (Two requests that overlap may
\* leave both their links in the table, and a reset with one then deletes the
\* other: such a link did not find the table empty.)
LatestLinkWorks ==
  /\ safe
  /\ now - created[newest] <= Lifetime * Minute
  /\ ~Replacing
  => Accepts(newest)

=============================================================================
