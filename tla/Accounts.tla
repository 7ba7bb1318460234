------------------------------ MODULE Accounts ------------------------------
(***************************************************************************)
(* Signing in to one account, and its credentials: AuthLoginService,       *)
(* PhoneAuthService and PasswordSecurityService on top of the sessions.    *)
(* One-time codes sign in by phone or reset the password.  The phone       *)
(* service checks a code in one query and consumes it in another; resets   *)
(* and password changes consume what they checked inside a transaction,    *)
(* which is one step.                                                      *)
(*                                                                         *)
(* A code is named by the request that sent it, a password by the code or  *)
(* the request that set it.  The user row is read with the first query of  *)
(* a request, whose checks of it are of columns nobody writes here.        *)
(***************************************************************************)
EXTENDS Sessions

CONSTANTS
    MaxAttempts,  \* wrong guesses a code survives
    MaxHourly     \* codes of one purpose sent in the hour a run takes

ASSUME AccountAssumption ==
    /\ MaxAttempts \in Nat \ {0}
    /\ MaxHourly \in Nat \ {0}

Purposes == {"LOGIN", "PASSWORD_RESET"}

VARIABLES
    password,  \* the account's password
    codes,     \* one-time codes
    form,      \* the code or the password each request has read
    accepted,  \* history: the codes that were accepted, and from whom
    wrong,     \* history: the wrong guesses that were counted, and whose
    void,      \* history: the reset codes that existed when the password last changed
    changes    \* history: the changes that were accepted, and the password they proved

codeVars == <<password, codes, form>>
historyVars == <<accepted, wrong, void, changes>>
accountVars == <<vars, codeVars, historyVars>>

-----------------------------------------------------------------------------
\* A code, with the codes that were sent before it.
Code == [purpose : Purposes, used : BOOLEAN, attempts : Nat, recent : BOOLEAN,
         older : SUBSET Requests]

Codes == DOMAIN codes

OfPurpose(purpose) == {c \in Codes : codes[c].purpose = purpose}

Unused(purpose) == {c \in OfPurpose(purpose) : ~codes[c].used}

\* What a request has read: nothing, the codes a transaction has marked, a code, or the
\* password.
Forms == [purpose : Purposes, marked : SUBSET Requests, code : Requests \cup {None},
          password : SignIns \cup {None}]

Empty == [purpose |-> "LOGIN", marked |-> {}, code |-> None, password |-> None]

AccountInit ==
    /\ Init
    /\ password = Earlier
    /\ codes = <<>>
    /\ form = [r \in Requests |-> Empty]
    /\ accepted = {}
    /\ wrong = {}
    /\ void = {}
    /\ changes = {}

Fill(r, f) == form' = [form EXCEPT ![r] = f]

-----------------------------------------------------------------------------
(* Sending a code: sendLoginOtp and requestPasswordReset                   *)

\* Variant: the cooldown is not looked at.
MaySendInHour(purpose) == Cardinality(OfPurpose(purpose)) < MaxHourly

\* The cooldown after the latest code, and the limit of the hour.
MaySend(purpose) ==
    /\ \A c \in OfPurpose(purpose) : ~codes[c].recent
    /\ Cardinality(OfPurpose(purpose)) < MaxHourly

BeginSend(r) ==
    /\ Idle(r, "send")
    /\ \E purpose \in Purposes :
          /\ MaySend(purpose)
          /\ Fill(r, [Empty EXCEPT !.purpose = purpose])
    /\ Enter(r, "mark", Blank)
    /\ UNCHANGED <<sessionVars, ended, password, codes, historyVars>>

\* The codes once some are marked used.
Used(gone) == [c \in Codes |-> [codes[c] EXCEPT !.used = @ \/ c \in gone]]

\* Variant: the phone service leaves older codes alone.
KeepLoginCodes(r) ==
    /\ pc[r] = "mark"
    /\ IF form[r].purpose = "LOGIN"
       THEN UNCHANGED form
       ELSE Fill(r, [form[r] EXCEPT !.marked = Unused(form[r].purpose)])
    /\ Advance(r, "issue", Blank)
    /\ UNCHANGED <<sessionVars, ended, password, codes, historyVars>>

\* invalidateActiveOtps commits at once; the update of requestPasswordReset is part of
\* its transaction, and marks the codes it finds now when that commits.
MarkCodes(r) ==
    /\ pc[r] = "mark"
    /\ LET purpose == form[r].purpose
       IN  IF purpose = "LOGIN"
           THEN codes' = Used(Unused(purpose)) /\ UNCHANGED form
           ELSE Fill(r, [form[r] EXCEPT !.marked = Unused(purpose)]) /\ UNCHANGED codes
    /\ Advance(r, "issue", Blank)
    /\ UNCHANGED <<sessionVars, ended, password, historyVars>>

\* Variant: the row is created without its counter.
NewUncountedCode(purpose) == [purpose |-> purpose, used |-> FALSE, recent |-> TRUE,
                              older |-> Codes]

NewCode(purpose) == [purpose |-> purpose, used |-> FALSE, attempts |-> 0, recent |-> TRUE,
                     older |-> Codes]

IssueCode(r) ==
    /\ pc[r] = "issue"
    /\ codes' = [c \in Codes \cup {r} |->
                    IF c = r THEN NewCode(form[r].purpose) ELSE Used(form[r].marked)[c]]
    /\ Fill(r, Empty)
    /\ Answer(r)
    /\ UNCHANGED <<sessionVars, ended, password, historyVars>>

\* A minute passes: no code is recent any more.
CooldownPasses ==
    /\ \E c \in Codes : codes[c].recent
    /\ codes' = [c \in Codes |-> [codes[c] EXCEPT !.recent = FALSE]]
    /\ UNCHANGED <<vars, password, form, historyVars>>

-----------------------------------------------------------------------------
(* Entering a code: verifyLoginOtp and resetPassword                       *)

\* findActiveOtp: the latest unused code.
IsActive(c, purpose) == \A d \in Unused(purpose) \ {c} : d \in codes[c].older

\* A guess is compared with the active code as it was read.  One that reaches the limit
\* of attempts spends the code, but a reset refuses without writing.
BeginCode(r) ==
    /\ Idle(r, "enter code")
    /\ \E purpose \in Purposes, c \in Codes :
          /\ c \in Unused(purpose) /\ IsActive(c, purpose)
          /\ \/ /\ codes[c].attempts >= MaxAttempts
                /\ purpose = "LOGIN"
                /\ Enter(r, "spend", Blank)
             \/ /\ codes[c].attempts < MaxAttempts
                /\ Enter(r, "count", Blank)
             \/ /\ codes[c].attempts < MaxAttempts
                /\ Enter(r, "consume", [Blank EXCEPT !.version = version])
          /\ Fill(r, [Empty EXCEPT !.purpose = purpose, !.code = c])
    /\ UNCHANGED <<sessionVars, ended, password, codes, historyVars>>

\* Variant: a wrong guess is refused but not counted.
RefuseGuess(r) ==
    /\ pc[r] = "count"
    /\ wrong' = wrong \cup {<<form[r].code, r>>}
    /\ Fill(r, Empty)
    /\ Answer(r)
    /\ UNCHANGED <<sessionVars, ended, password, codes, accepted, void, changes>>

\* A wrong guess is counted on the row as it is now.
CountGuess(r) ==
    /\ pc[r] = "count"
    /\ LET c == form[r].code
       IN  /\ codes' = [codes EXCEPT ![c].attempts = @ + 1]
           /\ wrong' = wrong \cup {<<c, r>>}
           /\ IF codes'[c].attempts >= MaxAttempts
              THEN Advance(r, "spend", Blank) /\ UNCHANGED form
              ELSE Answer(r) /\ Fill(r, Empty)
    /\ UNCHANGED <<sessionVars, ended, password, accepted, void, changes>>

\* markUsed
SpendCode(r) ==
    /\ pc[r] = "spend"
    /\ codes' = Used({form[r].code})
    /\ Fill(r, Empty)
    /\ Answer(r)
    /\ UNCHANGED <<sessionVars, ended, password, historyVars>>

\* Variant: the code that signed in is left as it was.
ConsumeLater(r) ==
    /\ pc[r] = "consume" /\ form[r].purpose = "LOGIN"
    /\ UNCHANGED codes
    /\ accepted' = accepted \cup {<<form[r].code, r>>}
    /\ Fill(r, Empty)
    /\ Advance(r, "create", local[r])
    /\ UNCHANGED <<sessionVars, ended, password, wrong, void, changes>>

\* The phone service consumes the code without looking again, and issues tokens of the
\* account as it was first read.
ConsumeLoginCode(r) ==
    /\ pc[r] = "consume" /\ form[r].purpose = "LOGIN"
    /\ codes' = Used({form[r].code})
    /\ accepted' = accepted \cup {<<form[r].code, r>>}
    /\ Fill(r, Empty)
    /\ Advance(r, "create", local[r])
    /\ UNCHANGED <<sessionVars, ended, password, wrong, void, changes>>

\* Sign-ins that have read the account, by password or by phone.
UnderWay == Begun \cup {r \in Requests : pc[r] = "consume" /\ form[r].purpose = "LOGIN"}

\* Variant: the reset codes outlive the password.
ReplaceOnly(new) ==
    /\ password' = new
    /\ version' = version + 1
    /\ sessions' = Revoked(Opened)
    /\ void' = void \cup OfPurpose("PASSWORD_RESET")
    /\ ended' = ended \cup UnderWay
    /\ UNCHANGED <<since, tokens, codes>>

\* What the transactions that replace the password do: the token version is raised, and
\* every session and every outstanding reset code ends.
ReplacePassword(new) ==
    /\ password' = new
    /\ version' = version + 1
    /\ sessions' = Revoked(Opened)
    /\ codes' = Used(OfPurpose("PASSWORD_RESET"))
    /\ void' = void \cup OfPurpose("PASSWORD_RESET")
    /\ ended' = ended \cup UnderWay
    /\ UNCHANGED <<since, tokens>>

\* A reset only goes through when the code it read is still unused.
ResetPassword(r) ==
    /\ pc[r] = "consume" /\ form[r].purpose = "PASSWORD_RESET"
    /\ LET c == form[r].code
       IN  IF codes[c].used
           THEN UNCHANGED <<sessionVars, ended, password, codes, accepted, void>>
           ELSE ReplacePassword(c) /\ accepted' = accepted \cup {<<c, r>>}
    /\ Fill(r, Empty)
    /\ Answer(r)
    /\ UNCHANGED <<wrong, changes>>

-----------------------------------------------------------------------------
(* changePassword                                                          *)

\* The current password is verified outside the transaction.
BeginChange(r) ==
    /\ Idle(r, "change password")
    /\ Fill(r, [Empty EXCEPT !.password = password])
    /\ Enter(r, "change", Blank)
    /\ UNCHANGED <<sessionVars, ended, password, codes, historyVars>>

\* Variant: the password is replaced whatever it is by now.
ChangeAnyPassword(r) ==
    /\ pc[r] = "change"
    /\ ReplacePassword(r)
    /\ changes' = changes \cup {[by |-> r, proved |-> form[r].password]}
    /\ Fill(r, Empty)
    /\ Answer(r)
    /\ UNCHANGED <<accepted, wrong>>

\* It is only replaced when it is still the one that was verified.
ChangePassword(r) ==
    /\ pc[r] = "change"
    /\ IF password # form[r].password
       THEN UNCHANGED <<sessionVars, ended, password, codes, void, changes>>
       ELSE /\ ReplacePassword(r)
            /\ changes' = changes \cup {[by |-> r, proved |-> form[r].password]}
    /\ Fill(r, Empty)
    /\ Answer(r)
    /\ UNCHANGED <<accepted, wrong>>

-----------------------------------------------------------------------------
AccountStep(r) ==
    \/ BeginSend(r)
    \/ MarkCodes(r)
    \/ IssueCode(r)
    \/ BeginCode(r)
    \/ CountGuess(r)
    \/ SpendCode(r)
    \/ ConsumeLoginCode(r)
    \/ ResetPassword(r)
    \/ BeginChange(r)
    \/ ChangePassword(r)

AccountNext ==
    \/ CooldownPasses
    \/ \E r \in Requests :
          \/ AccountStep(r)
          \/ (SignIn(r) \/ SessionStep(r)) /\ UNCHANGED <<codeVars, historyVars>>

AccountSpec == AccountInit /\ [][AccountNext]_accountVars

-----------------------------------------------------------------------------
(* Properties                                                              *)

AccountSteps == SessionSteps \cup {"mark", "issue", "count", "spend", "consume", "change"}

\* The types of the variables, with the steps of the credentials.
AccountTypeOK ==
    /\ RowsTyped
    /\ password \in SignIns
    /\ Codes \subseteq Requests
    /\ codes \in [Codes -> Code]
    /\ form \in [Requests -> Forms]
    /\ pc \in [Requests -> AccountSteps]
    /\ accepted \subseteq Codes \X Requests
    /\ wrong \subseteq Codes \X Requests
    /\ void \subseteq Codes
    /\ \A change \in changes : change.by \in Requests /\ change.proved \in SignIns

\* A code is entered twice, by somebody who did not wait or by two who know it: only
\* requests that overlapped can both be accepted for one code.
CodesWorkOnce ==
    \A a, b \in accepted : a[1] = b[1] /\ a[2] # b[2] => a[2] \notin past[b[2]]

\* A code that was replaced by one sent afterwards: a request that begins when the new
\* code has been sent is never accepted for the old one, not even after the new one
\* was used.
ReplacedCodesDie ==
    \A a \in accepted : \A c \in past[a[2]] \cap Codes :
        codes[c].purpose = codes[a[1]].purpose => a[1] \notin past[c]

\* Guesses overlap, and each is compared with a counter that others raise: no guess at a
\* code is accepted, nor any wrong one counted, from a request that begins when as many
\* wrong ones as the limit have been answered.
GuessesRunOut ==
    \A g \in accepted \cup wrong :
        Cardinality({w \in wrong : w[1] = g[1] /\ w[2] \in past[g[2]]}) < MaxAttempts

\* Requests for a code race the check of the cooldown: only overlapping ones can have
\* sent two codes of one purpose within one cooldown.
OneCodePerCooldown ==
    \A c, d \in Codes :
        c # d /\ codes[c].purpose = codes[d].purpose /\ codes[c].recent /\ codes[d].recent
        => c \notin past[d]

\* A reset link is in the mail, or being checked, when the password changes by another
\* link or from a signed-in device: it never changes the password afterwards.
CodesDieWithThePassword ==
    [][password' # password => password' \notin void]_accountVars

\* Two devices change the password at once, or one of them while it is reset: of the
\* changes that proved the same password only one is accepted.
OneChangePerPassword ==
    \A c, d \in changes : c.proved = d.proved => c = d
=============================================================================
