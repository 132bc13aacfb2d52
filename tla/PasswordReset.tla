--------------------------- MODULE PasswordReset ---------------------------
(***************************************************************************)
(* Resetting the password of a local account (profile.api.ts): a request   *)
(* stores a token with the account and mails it, whoever has the token     *)
(* sets a new password.  The account holds one token; a request and two    *)
(* resets may interleave at their awaits.  Addresses locked for failures   *)
(* are in module LoginBackoff, which counts these failures as well.        *)
(***************************************************************************)
EXTENDS Integers, Sequences, FiniteSets

CONSTANTS
  Secrets,   \* bound: the tokens handed out
  Resets,    \* bound: the resets at work at one time
  NoSecret

ASSUME ResetAssumption == NoSecret \notin Secrets

VARIABLES
  reset,      \* password_reset of the account: the token, and whether its day is over
  mails,      \* the tokens that are stored and still to be mailed
  resetting,  \* the resets: where each is and with which token
  issued,     \* history: the tokens in the order they were stored
  mailed,     \* history: the tokens mailed
  changedBy,  \* history: the tokens the password was set with, in order
  overlapped  \* history: the tokens another reset or request overlapped with

resetVars == <<reset, mails, resetting, issued, mailed, changedBy, overlapped>>

NoReset == [token |-> NoSecret, expired |-> FALSE]

ResetInit ==
  /\ reset = NoReset
  /\ mails = {}
  /\ resetting = [h \in Resets |-> [at |-> "idle", token |-> NoSecret]]
  /\ issued = << >> /\ mailed = {} /\ changedBy = << >> /\ overlapped = {}

Ongoing(token) == {h \in Resets : resetting[h].at = "save" /\ resetting[h].token = token}

\* requestResetPassword: the update overwrites the token before.
RequestReset(t) ==
  /\ \A i \in DOMAIN issued : issued[i] # t
  /\ reset' = [token |-> t, expired |-> FALSE]
  /\ mails' = mails \cup {t}
  /\ issued' = Append(issued, t)
  /\ overlapped' = overlapped \cup (IF \E h \in Resets : resetting[h].at = "save" THEN {t} ELSE {})
  /\ UNCHANGED <<resetting, mailed, changedBy>>

\* The mail goes out behind the answer; it may fail.
MailToken(t) ==
  /\ t \in mails
  /\ mails' = mails \ {t}
  /\ mailed' \in {mailed, mailed \cup {t}}
  /\ UNCHANGED <<reset, resetting, issued, changedBy, overlapped>>

ExpireToken ==
  /\ reset.token # NoSecret /\ ~reset.expired
  /\ reset' = [reset EXCEPT !.expired = TRUE]
  /\ UNCHANGED <<mails, resetting, issued, mailed, changedBy, overlapped>>

\* resetPassword: the account with the token; refused if there is none or it has expired.
FindReset(h, t) ==
  /\ resetting[h].at = "idle" /\ t \in mailed
  /\ reset = [token |-> t, expired |-> FALSE]
  /\ resetting' = [resetting EXCEPT ![h] = [at |-> "save", token |-> t]]
  /\ overlapped' = overlapped \cup (IF Ongoing(t) # {} THEN {t} ELSE {})
  /\ UNCHANGED <<reset, mails, issued, mailed, changedBy>>

SaveWith(h, after) ==
  /\ resetting[h].at = "save"
  /\ reset' = after
  /\ changedBy' = Append(changedBy, resetting[h].token)
  /\ resetting' = [resetting EXCEPT ![h] = [at |-> "idle", token |-> NoSecret]]
  /\ UNCHANGED <<mails, issued, mailed, overlapped>>

\* Mutant of SaveReset: the token stays.
SaveKeepsToken(h) == SaveWith(h, reset)

\* The new password is saved and the token removed, whichever token it is by now.
SaveReset(h) == SaveWith(h, NoReset)

ResetStep ==
  \/ \E t \in Secrets : RequestReset(t) \/ MailToken(t) \/ \E h \in Resets : FindReset(h, t)
  \/ \E h \in Resets : SaveReset(h)
  \/ ExpireToken

ResetSpec == ResetInit /\ [][ResetStep]_resetVars

-----------------------------------------------------------------------------
Uses(t) == Cardinality({i \in DOMAIN changedBy : changedBy[i] = t})

\* A token sets the password once, unless two resets with it overlap, and never after a
\* newer token was used; and the token stored last stays good until it is used or has
\* expired, unless it was stored while somebody was resetting the password with an older
\* one (profile.api.ts:340-343).
ResetOnce ==
  /\ \A t \in Secrets : Uses(t) <= 1 \/ t \in overlapped
  /\ \A i, j \in DOMAIN changedBy, a, b \in DOMAIN issued :
       i < j /\ a < b /\ changedBy[i] = issued[b] /\ changedBy[j] = issued[a] =>
         issued[b] \in overlapped
  /\ issued # << >> =>
       LET last == issued[Len(issued)]
       IN Uses(last) > 0 \/ last \in overlapped \/ reset.token = last

=============================================================================
