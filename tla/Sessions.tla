------------------------------ MODULE Sessions ------------------------------
(***************************************************************************)
(* The sessions of one account: AuthTokenService on SessionRepository.     *)
(* A sign-in creates a session, gives it a refresh token and then enforces *)
(* the session limit; a rotation trades a refresh token for the next one   *)
(* of its family, or finds it was used before and ends every session.      *)
(* Nothing of this runs in a transaction: each query is a step, other      *)
(* requests run in between, and the process may die there.                 *)
(*                                                                         *)
(* A request is served once, so the set of requests bounds a run.  A       *)
(* session and a refresh token are named by the request that made them.    *)
(* Sessions last for weeks; that they expire is left out.                  *)
(***************************************************************************)
EXTENDS Integers, FiniteSets, Sequences, SequencesExt

CONSTANTS
    Requests,     \* requests for the account
    Earlier,      \* the sign-in made before, whose session and token exist
    None,         \* no token
    MaxSessions,  \* MAX_ACTIVE_SESSIONS_PER_USER
    History,      \* how many consumed tokens a session remembers
    Operations,   \* the operations requests may invoke
    MayFail       \* whether the process may die between two steps of a request

SignIns == Requests \cup {Earlier}

ASSUME SessionAssumption ==
    /\ Earlier \notin Requests
    /\ None \notin SignIns
    /\ MaxSessions \in Nat \ {0}
    /\ History \in Nat \ {0}
    /\ MayFail \in BOOLEAN
    /\ IsFiniteSet(Requests)

VARIABLES
    version,   \* the account's token version
    sessions,  \* session rows
    since,     \* for each session, those that were active after it was last (lastActiveAt)
    tokens,    \* refresh tokens that were stored, with their claims
    pc,        \* the step each request is about to take
    local,     \* what each request has in memory
    past,      \* history: the requests that were answered before each began
    ended      \* history: the sign-ins a finished global revocation ended

sessionVars == <<version, sessions, since, tokens>>
requestVars == <<pc, local, past>>
vars == <<sessionVars, requestVars, ended>>

-----------------------------------------------------------------------------
(* Rows and requests.                                                      *)

\* A session row: its current token, the generation of its family, and the tokens of
\* the family it remembers as consumed.
Session == [live : BOOLEAN, current : SignIns \cup {None}, generation : Nat,
            consumed : Seq(SignIns)]

\* A refresh token, with the token it was traded for.
Token == [session : SignIns, generation : Nat, version : Nat, parent : SignIns \cup {None}]

Opened == DOMAIN sessions

Live == {s \in Opened : sessions[s].live}

FirstSession == [live |-> TRUE, current |-> Earlier, generation |-> 0, consumed |-> <<>>]

FirstToken == [session |-> Earlier, generation |-> 0, version |-> 0, parent |-> None]

SessionSteps == {"idle", "create", "persist", "list", "trim", "lineage", "write",
                 "family", "everyone", "bump", "sweep", "done", "lost"}

Memory == [version : Nat, token : SignIns \cup {None}, session : SignIns \cup {None},
           consumed : Seq(SignIns), surplus : SUBSET SignIns, before : SUBSET SignIns]

\* A request starts with nothing in memory.
Blank == [version |-> 0, token |-> None, session |-> None, consumed |-> <<>>,
          surplus |-> {}, before |-> {}]

Init ==
    /\ version = 0
    /\ sessions = [s \in {Earlier} |-> FirstSession]
    /\ since = [s \in {Earlier} |-> {}]
    /\ tokens = [t \in {Earlier} |-> FirstToken]
    /\ pc = [r \in Requests |-> "idle"]
    /\ local = [r \in Requests |-> Blank]
    /\ past = [r \in Requests |-> {}]
    /\ ended = {}

Idle(r, operation) == pc[r] = "idle" /\ operation \in Operations

Goto(r, step, l) ==
    /\ pc' = [pc EXCEPT ![r] = step]
    /\ local' = [local EXCEPT ![r] = l]

Answered == {r \in Requests : pc[r] = "done"}

\* The first step of a request.
Enter(r, step, l) ==
    /\ Goto(r, step, l)
    /\ past' = [past EXCEPT ![r] = Answered]

\* A later step.
Advance(r, step, l) == Goto(r, step, l) /\ UNCHANGED past

Answer(r) == Advance(r, "done", Blank)

\* Clients know the tokens they were answered with.
Delivered == {t \in DOMAIN tokens : t = Earlier \/ pc[t] = "done"}

\* Sign-ins that have read the account.
Begun == Opened \cup {r \in Requests : pc[r] = "create"}

-----------------------------------------------------------------------------
(* issueTokenPair                                                          *)

\* The session is the most recently active one now.
Touched(s) == [x \in Opened \cup {s} |-> IF x = s THEN {} ELSE since[x] \cup {s}]

\* A sign-in with the right password reads the token version with the account.
SignIn(r) ==
    /\ Idle(r, "sign in")
    /\ Enter(r, "create", [Blank EXCEPT !.version = version])
    /\ UNCHANGED <<sessionVars, ended>>

NewSession == [live |-> TRUE, current |-> None, generation |-> 0, consumed |-> <<>>]

CreateSession(r) ==
    /\ pc[r] = "create"
    /\ sessions' = [s \in Opened \cup {r} |-> IF s = r THEN NewSession ELSE sessions[s]]
    /\ since' = Touched(r)
    /\ Advance(r, "persist", local[r])
    /\ UNCHANGED <<version, tokens, ended>>

Issued(r, token) == [t \in DOMAIN tokens \cup {r} |-> IF t = r THEN token ELSE tokens[t]]

\* Nobody else knows the session yet: its first token is stored without a race.
StoreFirstToken(r) ==
    /\ pc[r] = "persist"
    /\ sessions' = [sessions EXCEPT ![r].current = r]
    /\ since' = Touched(r)
    /\ tokens' = Issued(r, [session |-> r, generation |-> 0, version |-> local[r].version,
                            parent |-> None])
    /\ Advance(r, "list", Blank)
    /\ UNCHANGED <<version, ended>>

\* The live sessions that come before one when the most recently active is listed first.
Ahead(s) == since[s] \cap Live

\* Variant: the sessions that are kept are miscounted.
SurplusByOne == {s \in Live : Cardinality(Ahead(s)) > MaxSessions}

\* Those that the list has after its first MaxSessions.
Surplus == {s \in Live : Cardinality(Ahead(s)) >= MaxSessions}

ListSessions(r) ==
    /\ pc[r] = "list"
    /\ IF Surplus = {}
       THEN Answer(r)
       ELSE Advance(r, "trim", [Blank EXCEPT !.surplus = Surplus])
    /\ UNCHANGED <<sessionVars, ended>>

\* The session rows once some are revoked.
Revoked(gone) == [s \in Opened |-> [sessions[s] EXCEPT !.live = @ /\ s \notin gone]]

TrimSessions(r) ==
    /\ pc[r] = "trim"
    /\ sessions' = Revoked(local[r].surplus)
    /\ Answer(r)
    /\ UNCHANGED <<version, since, tokens, ended>>

-----------------------------------------------------------------------------
(* rotateRefreshToken                                                      *)

\* Checks that come before the family is looked at.
Presentable(t) == sessions[tokens[t].session].live /\ tokens[t].version = version

\* Variant: the family's memory alone tells a reused token.
ReusedByHistory(t) ==
    LET row == sessions[tokens[t].session]
    IN  Contains(row.consumed, t) \/ tokens[t].generation < row.generation

\* Not the current token, or consumed, or of an older generation.
Reused(t) ==
    LET row == sessions[tokens[t].session]
    IN  \/ row.current # t
        \/ Contains(row.consumed, t)
        \/ tokens[t].generation < row.generation

BeginRotation(r) ==
    /\ Idle(r, "rotate")
    /\ \E t \in Delivered :
          /\ Presentable(t)
          /\ IF Reused(t)
             THEN Enter(r, "family", [Blank EXCEPT !.session = tokens[t].session,
                                                   !.before = Begun])
             ELSE Enter(r, "lineage", [Blank EXCEPT !.token = t])
    /\ UNCHANGED <<sessionVars, ended>>

\* rotateSessionRefreshToken reads the row again.
ReadLineage(r) ==
    /\ pc[r] = "lineage"
    /\ Advance(r, "write",
               [local[r] EXCEPT !.consumed = sessions[tokens[local[r].token].session].consumed])
    /\ UNCHANGED <<sessionVars, ended>>

LastOf(seq, n) == IF Len(seq) <= n THEN seq ELSE SubSeq(seq, Len(seq) - n + 1, Len(seq))

\* The history of consumed tokens with one more, trimmed.
Remembered(seq, t) == LastOf(IF Contains(seq, t) THEN seq ELSE Append(seq, t), History)

\* The row is written whatever has happened to it since, but stays revoked if it was.
WriteRotation(r) ==
    /\ pc[r] = "write"
    /\ LET t == local[r].token
           s == tokens[t].session
           next == tokens[t].generation + 1
       IN  /\ sessions' = [sessions EXCEPT ![s].current = r, ![s].generation = next,
                                           ![s].consumed = Remembered(local[r].consumed, t)]
           /\ since' = Touched(s)
           /\ tokens' = Issued(r, [session |-> s, generation |-> next,
                                   version |-> tokens[t].version, parent |-> t])
    /\ Answer(r)
    /\ UNCHANGED <<version, ended>>

\* Reuse was detected: the family goes first.
RevokeFamily(r) ==
    /\ pc[r] = "family"
    /\ sessions' = Revoked({local[r].session})
    /\ Advance(r, "everyone", local[r])
    /\ UNCHANGED <<version, since, tokens, ended>>

\* Then the other sessions.
RevokeEveryone(r) ==
    /\ pc[r] = "everyone"
    /\ sessions' = Revoked(Opened)
    /\ Advance(r, "bump", local[r])
    /\ UNCHANGED <<version, since, tokens, ended>>

\* Variant: sessions are revoked but the token version stays.
KeepVersion(r) ==
    /\ pc[r] = "bump"
    /\ ended' = ended \cup local[r].before
    /\ Answer(r)
    /\ UNCHANGED sessionVars

\* And then whatever was signed with the old version.
RaiseVersion(r) ==
    /\ pc[r] = "bump"
    /\ version' = version + 1
    /\ ended' = ended \cup local[r].before
    /\ Answer(r)
    /\ UNCHANGED <<sessions, since, tokens>>

-----------------------------------------------------------------------------
(* Signing out                                                             *)

\* logout and revokeSessionForUser: one session.
SignOut(r) ==
    /\ Idle(r, "sign out")
    /\ \E s \in Opened : sessions' = Revoked({s})
    /\ Enter(r, "done", Blank)
    /\ UNCHANGED <<version, since, tokens, ended>>

\* revokeOtherSessionsForUser: all but the current one.
SignOutOthers(r) ==
    /\ Idle(r, "sign out others")
    /\ \E s \in Opened : sessions' = Revoked(Opened \ {s})
    /\ Enter(r, "done", Blank)
    /\ UNCHANGED <<version, since, tokens, ended>>

\* revokeAllSessionsForUser: the token version first, then the sessions.
BeginSignOutAll(r) ==
    /\ Idle(r, "sign out all")
    /\ version' = version + 1
    /\ Enter(r, "sweep", [Blank EXCEPT !.before = Begun])
    /\ UNCHANGED <<sessions, since, tokens, ended>>

SweepSessions(r) ==
    /\ pc[r] = "sweep"
    /\ sessions' = Revoked(Opened)
    /\ ended' = ended \cup local[r].before
    /\ Answer(r)
    /\ UNCHANGED <<version, since, tokens>>

\* The process dies between two steps; nobody is answered.
Fail(r) ==
    /\ MayFail
    /\ pc[r] \notin {"idle", "done", "lost"}
    /\ Advance(r, "lost", Blank)
    /\ UNCHANGED <<sessionVars, ended>>

-----------------------------------------------------------------------------
SessionStep(r) ==
    \/ CreateSession(r)
    \/ StoreFirstToken(r)
    \/ ListSessions(r)
    \/ TrimSessions(r)
    \/ BeginRotation(r)
    \/ ReadLineage(r)
    \/ WriteRotation(r)
    \/ RevokeFamily(r)
    \/ RevokeEveryone(r)
    \/ RaiseVersion(r)
    \/ SignOut(r)
    \/ SignOutOthers(r)
    \/ BeginSignOutAll(r)
    \/ SweepSessions(r)
    \/ Fail(r)

Next == \E r \in Requests : SignIn(r) \/ SessionStep(r)

Spec == Init /\ [][Next]_vars

-----------------------------------------------------------------------------
(* Properties                                                              *)

\* The types of all but the steps, which the credentials add to.
RowsTyped ==
    /\ version \in Nat
    /\ Earlier \in Opened /\ Opened \subseteq SignIns
    /\ sessions \in [Opened -> Session]
    /\ since \in [Opened -> SUBSET Opened]
    /\ Earlier \in DOMAIN tokens /\ DOMAIN tokens \subseteq SignIns
    /\ tokens \in [DOMAIN tokens -> Token]
    /\ \A t \in DOMAIN tokens : tokens[t].session \in Opened
    /\ local \in [Requests -> Memory]
    /\ past \in [Requests -> SUBSET Requests]
    /\ ended \subseteq SignIns

\* The types of the variables.
TypeOK == RowsTyped /\ pc \in [Requests -> SessionSteps]

\* A sign-in that was under way when every session was to be ended.  Once a reuse
\* detection or a global sign-out is answered, nothing of a sign-in that had read the
\* account when it began works again: not its tokens, not those they were traded for,
\* and not those of a session it had still to create.
EndedSignInsStayDead ==
    \A t \in DOMAIN tokens : tokens[t].session \in ended => ~Presentable(t)

\* Sign-ins that have still to enforce the limit, or died before they could.
Unlimited == {r \in Opened \ {Earlier} : pc[r] \in {"persist", "list", "trim", "lost"}}

\* Sign-ins overlap, each with a list of sessions that is out of date when it revokes
\* from it: still there are never more live sessions than the limit allows and sign-ins
\* that have yet to enforce it.
LimitHolds == Cardinality(Live) <= MaxSessions + Cardinality(Unlimited)

\* A token that was lost to a crash or a token of a family that has been rotated often
\* enough to be forgotten is presented again: only rotations that overlapped can ever
\* have traded one and the same token.
ForksOverlap ==
    \A p, q \in DOMAIN tokens \ {Earlier} :
        p # q /\ tokens[p].parent = tokens[q].parent /\ tokens[p].parent # None
        => p \notin past[q]
=============================================================================
