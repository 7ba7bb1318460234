--------------------------- MODULE AccountProofs ----------------------------
(***************************************************************************)
(* Proofs about Accounts and the Sessions in it, for any number of         *)
(* requests, sessions allowed, tokens remembered and guesses allowed.      *)
(***************************************************************************)
EXTENDS Accounts, SetLemmas, SequenceTheorems, TLAPS

-----------------------------------------------------------------------------
(* Types, and what each request may have made by the step it is at.        *)

\* Steps of a request that has made a session, a token, a code or a change.
PastCreation == {"persist", "list", "trim", "done", "lost"}
PastToken == {"list", "trim", "done", "lost"}

\* Steps of a request that has read a code.
Entering == {"count", "spend", "consume"}

\* Only requests that came that far name a row, and what they remember exists.
Standing(r) ==
    /\ r \in Opened => pc[r] \in PastCreation
    /\ r \in DOMAIN tokens => pc[r] \in PastToken
    /\ r \in Codes => pc[r] = "done"
    /\ pc[r] = "persist" => r \in Opened
    /\ pc[r] \in {"lineage", "write"} => local[r].token \in DOMAIN tokens
    /\ pc[r] \in Entering =>
          form[r].code \in Codes /\ codes[form[r].code].purpose = form[r].purpose
    /\ pc[r] = "change" => form[r].password \in SignIns

AInv ==
    /\ AccountTypeOK
    /\ \A r \in Requests : Standing(r)
    /\ \A r \in Requests : \A q \in past[r] : pc[q] = "done"

\* What a session remembers of its family is a sequence of tokens, whatever is dropped.
LEMMA RememberedType ==
    ASSUME NEW seq \in Seq(SignIns), NEW t \in SignIns
    PROVE  Remembered(seq, t) \in Seq(SignIns)
  <1> DEFINE long == IF Contains(seq, t) THEN seq ELSE Append(seq, t)
  <1>1. long \in Seq(SignIns)
    BY AppendProperties
  <1> HIDE DEF long
  <1>2. Len(long) \in Nat /\ \A i \in 1..Len(long) : long[i] \in SignIns
    BY <1>1, ElementOfSeq, LenProperties
  <1>3. History \in Nat \ {0}
    BY SessionAssumption
  <1>4. LastOf(long, History) \in Seq(SignIns)
    <2>1. CASE Len(long) > History
      <3>1. SubSeq(long, Len(long) - History + 1, Len(long)) \in Seq(SignIns)
        BY <1>2, <1>3, <2>1, SubSeqProperties
      <3>2. QED
        BY <1>2, <1>3, <2>1, <3>1 DEF LastOf
    <2>2. CASE ~(Len(long) > History)
      BY <1>1, <1>2, <1>3, <2>2 DEF LastOf
    <2>3. QED
      BY <2>1, <2>2
  <1>5. QED
    BY <1>4 DEF long, Remembered


\* What a request may know, spelled out.
LEMMA KnownTypes ==
    ASSUME AInv
    PROVE  /\ pc \in [Requests -> AccountSteps] /\ form \in [Requests -> Forms]
           /\ local \in [Requests -> Memory] /\ past \in [Requests -> SUBSET Requests]
           /\ \A r \in Requests :
                 /\ local[r].version \in Nat /\ local[r].consumed \in Seq(SignIns)
                 /\ local[r].surplus \subseteq SignIns /\ local[r].before \subseteq SignIns
                 /\ local[r].token \in SignIns \cup {None}
                 /\ form[r].purpose \in Purposes /\ form[r].marked \subseteq Requests
           /\ \A t \in DOMAIN tokens :
                 /\ tokens[t].generation \in Nat /\ tokens[t].version \in Nat
                 /\ tokens[t].session \in Opened /\ tokens[t].parent \in SignIns \cup {None}
           /\ \A s \in Opened :
                 /\ sessions[s].live \in BOOLEAN /\ sessions[s].current \in SignIns \cup {None}
                 /\ sessions[s].generation \in Nat /\ sessions[s].consumed \in Seq(SignIns)
           /\ \A c \in Codes :
                 /\ codes[c].purpose \in Purposes /\ codes[c].used \in BOOLEAN
                 /\ codes[c].attempts \in Nat /\ codes[c].recent \in BOOLEAN
                 /\ codes[c].older \subseteq Requests
  BY DEF AInv, AccountTypeOK, RowsTyped, Memory, Forms, Token, Session, Code

\* What requests note is of the type that memory has.
LEMMA BlankType ==
    /\ Blank \in Memory /\ Empty \in Forms
    /\ \A v \in Nat : [Blank EXCEPT !.version = v] \in Memory
    /\ \A t \in SignIns : [Blank EXCEPT !.token = t] \in Memory
    /\ \A S \in SUBSET SignIns : /\ [Blank EXCEPT !.surplus = S] \in Memory
                                 /\ [Blank EXCEPT !.before = S] \in Memory
                                 /\ \A s \in SignIns :
                                       [Blank EXCEPT !.session = s, !.before = S] \in Memory
    /\ \A p \in Purposes : [Empty EXCEPT !.purpose = p] \in Forms
    /\ \A p \in Purposes, c \in Requests : [Empty EXCEPT !.purpose = p, !.code = c] \in Forms
    /\ \A x \in SignIns : [Empty EXCEPT !.password = x] \in Forms
  BY EmptySeq DEF Blank, Memory, Empty, Forms, Purposes

LEMMA NotedToken ==
    /\ \A t \in SignIns : [Blank EXCEPT !.token = t].token = t
    /\ \A m \in Memory, seq \in Seq(SignIns) :
          /\ [m EXCEPT !.consumed = seq] \in Memory
          /\ [m EXCEPT !.consumed = seq].token = m.token
          /\ [m EXCEPT !.consumed = seq].before = m.before
  BY DEF Blank, Memory

\* Sessions that are revoked, and codes that are used, keep everything else.
LEMMA RevokedType ==
    ASSUME AInv, NEW gone
    PROVE  /\ Revoked(gone) \in [Opened -> Session]
           /\ \A s \in Opened : /\ Revoked(gone)[s].current = sessions[s].current
                                /\ Revoked(gone)[s].generation = sessions[s].generation
                                /\ Revoked(gone)[s].consumed = sessions[s].consumed
                                /\ Revoked(gone)[s].live = (sessions[s].live /\ s \notin gone)
  <1>1. ASSUME NEW s \in Opened
        PROVE  /\ Revoked(gone)[s] = [live |-> sessions[s].live /\ s \notin gone,
                                      current |-> sessions[s].current,
                                      generation |-> sessions[s].generation,
                                      consumed |-> sessions[s].consumed]
               /\ Revoked(gone)[s] \in Session
    <2>1. sessions[s] \in Session
      BY DEF AInv, AccountTypeOK, RowsTyped
    <2>2. Revoked(gone)[s] = [sessions[s] EXCEPT !.live = @ /\ s \notin gone]
      BY DEF Revoked
    <2>3. QED
      BY <2>1, <2>2 DEF Session
  <1>2. QED
    BY <1>1 DEF Revoked

LEMMA UsedType ==
    ASSUME AInv, NEW gone
    PROVE  /\ Used(gone) \in [Codes -> Code]
           /\ \A c \in Codes : /\ Used(gone)[c].purpose = codes[c].purpose
                               /\ Used(gone)[c].attempts = codes[c].attempts
                               /\ Used(gone)[c].recent = codes[c].recent
                               /\ Used(gone)[c].older = codes[c].older
                               /\ Used(gone)[c].used = (codes[c].used \/ c \in gone)
  <1>1. ASSUME NEW c \in Codes
        PROVE  /\ Used(gone)[c] = [purpose |-> codes[c].purpose,
                                   used |-> codes[c].used \/ c \in gone,
                                   attempts |-> codes[c].attempts,
                                   recent |-> codes[c].recent,
                                   older |-> codes[c].older]
               /\ Used(gone)[c] \in Code
    <2>1. codes[c] \in Code
      BY DEF AInv, AccountTypeOK
    <2>2. Used(gone)[c] = [codes[c] EXCEPT !.used = @ \/ c \in gone]
      BY DEF Used
    <2>3. QED
      BY <2>1, <2>2 DEF Code
  <1>2. QED
    BY <1>1 DEF Used

\* One request at a time takes a step, and one that was answered or died takes none.
OneMoves(r) ==
    /\ pc[r] \notin {"done", "lost"} /\ pc'[r] # "idle"
    /\ pc' = [pc EXCEPT ![r] = pc'[r]]
    /\ local' = [local EXCEPT ![r] = local'[r]]
    /\ form' = [form EXCEPT ![r] = form'[r]]
    /\ past' = IF pc[r] = "idle" THEN [past EXCEPT ![r] = Answered] ELSE past

LEMMA AccountMoves ==
    ASSUME AInv, NEW r \in Requests, AccountStep(r)
    PROVE  OneMoves(r)
  <1> USE KnownTypes DEF OneMoves, Goto, Enter, Advance, Answer, Idle, Fill
  <1>1. CASE BeginSend(r)
    BY <1>1 DEF BeginSend
  <1>2. CASE MarkCodes(r)
    BY <1>2 DEF MarkCodes
  <1>3. CASE IssueCode(r)
    BY <1>3 DEF IssueCode
  <1>4. CASE BeginCode(r)
    BY <1>4 DEF BeginCode
  <1>5. CASE CountGuess(r)
    BY <1>5 DEF CountGuess
  <1>6. CASE SpendCode(r)
    BY <1>6 DEF SpendCode
  <1>7. CASE ConsumeLoginCode(r)
    BY <1>7 DEF ConsumeLoginCode
  <1>8. CASE ResetPassword(r)
    BY <1>8 DEF ResetPassword
  <1>9. CASE BeginChange(r)
    BY <1>9 DEF BeginChange
  <1>10. CASE ChangePassword(r)
    BY <1>10 DEF ChangePassword
  <1>11. QED
    BY <1>1, <1>2, <1>3, <1>4, <1>5, <1>6, <1>7, <1>8, <1>9, <1>10 DEF AccountStep

LEMMA SessionMoves ==
    ASSUME AInv, NEW r \in Requests, SignIn(r) \/ SessionStep(r), UNCHANGED codeVars
    PROVE  OneMoves(r)
  <1> USE KnownTypes DEF OneMoves, Goto, Enter, Advance, Answer, Idle, codeVars
  <1>1. CASE SignIn(r)
    BY <1>1 DEF SignIn
  <1>2. CASE CreateSession(r)
    BY <1>2 DEF CreateSession
  <1>3. CASE StoreFirstToken(r)
    BY <1>3 DEF StoreFirstToken
  <1>4. CASE ListSessions(r)
    BY <1>4 DEF ListSessions
  <1>5. CASE TrimSessions(r)
    BY <1>5 DEF TrimSessions
  <1>6. CASE BeginRotation(r)
    BY <1>6 DEF BeginRotation
  <1>7. CASE ReadLineage(r)
    BY <1>7 DEF ReadLineage
  <1>8. CASE WriteRotation(r)
    BY <1>8 DEF WriteRotation
  <1>9. CASE RevokeFamily(r)
    BY <1>9 DEF RevokeFamily
  <1>10. CASE RevokeEveryone(r)
    BY <1>10 DEF RevokeEveryone
  <1>11. CASE RaiseVersion(r)
    BY <1>11 DEF RaiseVersion
  <1>12. CASE SignOut(r)
    BY <1>12 DEF SignOut
  <1>13. CASE SignOutOthers(r)
    BY <1>13 DEF SignOutOthers
  <1>14. CASE BeginSignOutAll(r)
    BY <1>14 DEF BeginSignOutAll
  <1>15. CASE SweepSessions(r)
    BY <1>15 DEF SweepSessions
  <1>16. CASE Fail(r)
    BY <1>16 DEF Fail
  <1>17. QED
    BY <1>1, <1>2, <1>3, <1>4, <1>5, <1>6, <1>7, <1>8, <1>9, <1>10, <1>11, <1>12, <1>13, <1>14, <1>15, <1>16 DEF SessionStep

-----------------------------------------------------------------------------
(* Every step keeps the types and the names.                               *)

\* The types of what is stored, and of the histories.
DataTyped ==
    /\ version \in Nat
    /\ Earlier \in Opened /\ Opened \subseteq SignIns
    /\ sessions \in [Opened -> Session]
    /\ since \in [Opened -> SUBSET Opened]
    /\ Earlier \in DOMAIN tokens /\ DOMAIN tokens \subseteq SignIns
    /\ tokens \in [DOMAIN tokens -> Token]
    /\ \A t \in DOMAIN tokens : tokens[t].session \in Opened
    /\ ended \subseteq SignIns
    /\ password \in SignIns
    /\ Codes \subseteq Requests
    /\ codes \in [Codes -> Code]
    /\ accepted \subseteq Codes \X Requests
    /\ wrong \subseteq Codes \X Requests
    /\ void \subseteq Codes
    /\ \A change \in changes : change.by \in Requests /\ change.proved \in SignIns

\* A step of a request makes rows of its own name only, and no row disappears.
NamesOwn(r) ==
    /\ Opened \subseteq Opened' /\ Opened' \subseteq Opened \cup {r}
    /\ DOMAIN tokens \subseteq DOMAIN tokens' /\ DOMAIN tokens' \subseteq DOMAIN tokens \cup {r}
    /\ Codes \subseteq Codes' /\ Codes' \subseteq Codes \cup {r}
    /\ \A c \in Codes : codes'[c].purpose = codes[c].purpose

LEMMA StepTypes ==
    ASSUME AInv, NEW r \in Requests, OneMoves(r), DataTyped', NamesOwn(r),
           pc'[r] \in AccountSteps, local'[r] \in Memory, form'[r] \in Forms, Standing(r)'
    PROVE  AInv'
  <1>1. AccountTypeOK'
    <2>1. Answered \in SUBSET Requests
      BY DEF Answered
    <2>2. /\ pc' \in [Requests -> AccountSteps] /\ local' \in [Requests -> Memory]
          /\ form' \in [Requests -> Forms] /\ past' \in [Requests -> SUBSET Requests]
      BY <2>1, KnownTypes DEF OneMoves
    <2>3. QED
      BY <2>2 DEF DataTyped, AccountTypeOK, RowsTyped
  <1>2. ASSUME NEW q \in Requests, q # r
        PROVE  Standing(q)'
    <2>1. /\ pc'[q] = pc[q] /\ local'[q] = local[q] /\ form'[q] = form[q] /\ past'[q] = past[q]
      BY <1>2, KnownTypes DEF OneMoves
    <2>2. Standing(q)
      BY DEF AInv
    <2>3. QED
      BY <1>2, <2>1, <2>2 DEF Standing, NamesOwn, Entering
  <1>3. ASSUME NEW q \in Requests, NEW p \in past'[q]
        PROVE  pc'[p] = "done"
    BY <1>3, KnownTypes DEF OneMoves, AInv, Answered
  <1>4. QED
    BY <1>1, <1>2, <1>3 DEF AInv

LEMMA InitTypes == AccountInit => AInv
  <1> SUFFICES ASSUME AccountInit
               PROVE  AInv
    OBVIOUS
  <1>1. FirstSession \in Session /\ FirstToken \in Token
    BY EmptySeq DEF FirstSession, FirstToken, Session, Token, SignIns
  <1>2. Codes = {} /\ codes \in [{} -> Code]
    BY DEF AccountInit, Codes
  <1>3. AccountTypeOK
    BY <1>1, <1>2, BlankType
       DEF AccountInit, Init, AccountTypeOK, RowsTyped, Opened, SignIns, AccountSteps, SessionSteps,
           FirstToken
  <1>4. \A r \in Requests : Standing(r)
    BY <1>2, SessionAssumption DEF AccountInit, Init, Standing, Entering, Opened
  <1>5. QED
    BY <1>3, <1>4 DEF AInv, AccountInit, Init

\* Steps that leave the rows and the histories alone.
LEMMA QuietTypes ==
    ASSUME AInv, NEW r \in Requests, OneMoves(r),
           UNCHANGED <<sessionVars, ended, password, codes, historyVars>>,
           pc'[r] \in AccountSteps, local'[r] \in Memory, form'[r] \in Forms, Standing(r)'
    PROVE  AInv'
  <1>1. DataTyped' /\ NamesOwn(r)
    BY DEF AInv, AccountTypeOK, RowsTyped, DataTyped, NamesOwn, sessionVars, historyVars, Opened, Codes
  <1>2. QED
    BY <1>1, StepTypes

LEMMA SessionTypes ==
    ASSUME AInv, NEW r \in Requests, SignIn(r) \/ SessionStep(r), UNCHANGED <<codeVars, historyVars>>
    PROVE  AInv'
  <1> USE KnownTypes DEF Goto, Enter, Advance, Answer, Idle
  <1>m. OneMoves(r) /\ Standing(r) /\ DataTyped /\ UNCHANGED codeVars
    BY SessionMoves DEF codeVars, AInv, AccountTypeOK, RowsTyped, DataTyped
  <1>s. /\ Begun \subseteq SignIns /\ Surplus \subseteq SignIns /\ DOMAIN tokens \subseteq SignIns
        /\ Opened \subseteq SignIns /\ r \in SignIns /\ version \in Nat /\ version + 1 \in Nat
        /\ Delivered \subseteq DOMAIN tokens
    <2>1. version \in Nat
      BY DEF AInv, AccountTypeOK, RowsTyped
    <2>2. QED
      BY <2>1 DEF Begun, Surplus, Live, SignIns, AInv, AccountTypeOK, RowsTyped, Delivered
  <1>g. /\ form'[r] = form[r] /\ form'[r] \in Forms
        /\ codes' = codes /\ Codes' = Codes
    BY <1>m DEF codeVars, Codes
  <1>1. CASE SignIn(r)
    <2>1. pc'[r] \in AccountSteps /\ local'[r] \in Memory /\ form'[r] \in Forms
      BY <1>m, BlankType, <1>g, <1>s, <1>1 DEF SignIn, AccountSteps, SessionSteps
    <2>2. Standing(r)'
      BY <1>m, <1>s, <1>1 DEF SignIn, Standing, PastCreation, PastToken, Entering, sessionVars, codeVars, Opened, Codes
    <2>3. QED
      BY <1>m, <1>1, <2>1, <2>2, QuietTypes DEF SignIn, codeVars
  <1>2. CASE CreateSession(r)
    <2>0. /\ Opened' = Opened \cup {r} /\ Touched(r) \in [Opened' -> SUBSET Opened']
          /\ sessions' \in [Opened' -> Session]
      <3>1. NewSession \in Session
        BY EmptySeq DEF NewSession, Session
      <3>2. Opened' = Opened \cup {r}
        BY <1>2 DEF CreateSession, Opened
      <3>3. since \in [Opened -> SUBSET Opened] /\ sessions \in [Opened -> Session]
        BY <1>m DEF DataTyped
      <3>4. Touched(r) \in [Opened' -> SUBSET Opened']
        BY <3>2, <3>3 DEF Touched
      <3>5. QED
        BY <1>2, <3>1, <3>2, <3>3, <3>4 DEF CreateSession
    <2>1. pc'[r] \in AccountSteps /\ local'[r] \in Memory /\ form'[r] \in Forms
      BY <1>m, BlankType, <1>g, <1>s, <1>2 DEF CreateSession, AccountSteps, SessionSteps
    <2>2. DataTyped' /\ NamesOwn(r)
      BY <1>m, <1>g, <1>s, <1>2, <2>0 DEF CreateSession, DataTyped, NamesOwn, codeVars, historyVars
    <2>3. Standing(r)'
      <3>1. pc'[r] = "persist" /\ pc[r] = "create"
        BY <1>m, <1>2 DEF CreateSession
      <3>2. QED
        BY <1>m, <1>g, <1>2, <2>0, <3>1 DEF CreateSession, Standing, PastCreation, PastToken, Entering
    <2>4. QED
      BY <1>m, <2>1, <2>2, <2>3, StepTypes
  <1>3. CASE StoreFirstToken(r)
    <2>0. /\ Opened' = Opened /\ r \in Opened /\ Touched(r) \in [Opened -> SUBSET Opened]
          /\ sessions' \in [Opened -> Session]
          /\ DOMAIN tokens' = DOMAIN tokens \cup {r}
          /\ tokens' \in [DOMAIN tokens' -> Token]
          /\ \A t \in DOMAIN tokens' : tokens'[t].session \in Opened
      <3>1. /\ since \in [Opened -> SUBSET Opened] /\ sessions \in [Opened -> Session]
            /\ tokens \in [DOMAIN tokens -> Token]
        BY <1>m DEF DataTyped
      <3>2. r \in Opened
        BY <1>m, <1>3 DEF StoreFirstToken, Standing
      <3>3. [sessions[r] EXCEPT !.current = r] \in Session
        BY <1>s, <3>1, <3>2 DEF Session
      <3>4. Opened' = Opened /\ sessions' \in [Opened -> Session]
        BY <1>3, <3>1, <3>2, <3>3 DEF StoreFirstToken, Opened
      <3>5. Touched(r) \in [Opened -> SUBSET Opened]
        BY <3>1, <3>2 DEF Touched
      <3> DEFINE first == [session |-> r, generation |-> 0, version |-> local[r].version,
                           parent |-> None]
      <3>6. first \in Token /\ first.session = r
        BY <1>s DEF Token
      <3>7. tokens' = Issued(r, first)
        BY <1>3 DEF StoreFirstToken
      <3>8. /\ DOMAIN tokens' = DOMAIN tokens \cup {r} /\ tokens' \in [DOMAIN tokens' -> Token]
            /\ \A t \in DOMAIN tokens' : tokens'[t] = IF t = r THEN first ELSE tokens[t]
        BY <3>1, <3>6, <3>7 DEF Issued
      <3>9. QED
        BY <3>2, <3>4, <3>5, <3>6, <3>8
    <2>1. pc'[r] \in AccountSteps /\ local'[r] \in Memory /\ form'[r] \in Forms
      BY <1>m, BlankType, <1>g, <1>s, <1>3 DEF StoreFirstToken, AccountSteps, SessionSteps
    <2>2. DataTyped' /\ NamesOwn(r)
      BY <1>m, <1>g, <1>s, <1>3, <2>0 DEF StoreFirstToken, DataTyped, NamesOwn, codeVars, historyVars
    <2>3. Standing(r)'
      <3>1. pc'[r] = "list" /\ pc[r] = "persist"
        BY <1>m, <1>3 DEF StoreFirstToken
      <3>2. QED
        BY <1>m, <1>g, <1>3, <2>0, <3>1 DEF StoreFirstToken, Standing, PastCreation, PastToken, Entering
    <2>4. QED
      BY <1>m, <2>1, <2>2, <2>3, StepTypes
  <1>4. CASE ListSessions(r)
    <2>1. pc'[r] \in AccountSteps /\ local'[r] \in Memory /\ form'[r] \in Forms
      <3>1. [Blank EXCEPT !.surplus = Surplus] \in Memory
        BY <1>s, BlankType
      <3>2. local'[r] \in {Blank, [Blank EXCEPT !.surplus = Surplus]} /\ pc'[r] \in {"done", "trim"}
        BY <1>4 DEF ListSessions
      <3>3. QED
        BY <1>g, <3>1, <3>2, BlankType DEF AccountSteps, SessionSteps
    <2>2. Standing(r)'
      BY <1>m, <1>s, <1>4 DEF ListSessions, Standing, PastCreation, PastToken, Entering, sessionVars, codeVars, Opened, Codes
    <2>3. QED
      BY <1>m, <1>4, <2>1, <2>2, QuietTypes DEF ListSessions, codeVars
  <1>5. CASE TrimSessions(r)
    <2>1. pc'[r] \in AccountSteps /\ local'[r] \in Memory /\ form'[r] \in Forms
      BY <1>m, BlankType, <1>g, <1>s, <1>5 DEF TrimSessions, AccountSteps, SessionSteps
    <2>2. DataTyped' /\ NamesOwn(r)
      BY <1>m, <1>s, <1>5, RevokedType DEF TrimSessions, DataTyped, NamesOwn, codeVars, historyVars, Opened, Codes
    <2>3. Standing(r)'
      BY <1>m, <1>g, <1>5, <2>2 DEF TrimSessions, Standing, NamesOwn, codeVars, PastCreation, PastToken, Entering, Opened
    <2>4. QED
      BY <1>m, <2>1, <2>2, <2>3, StepTypes
  <1>6. CASE BeginRotation(r)
    <2>1. pc'[r] \in AccountSteps /\ local'[r] \in Memory /\ form'[r] \in Forms
      <3>1. PICK t \in Delivered :
               \/ /\ pc'[r] = "lineage"
                  /\ local'[r] = [Blank EXCEPT !.token = t]
               \/ /\ pc'[r] = "family"
                  /\ local'[r] = [Blank EXCEPT !.session = tokens[t].session, !.before = Begun]
        BY <1>6 DEF BeginRotation
      <3>2. /\ [Blank EXCEPT !.token = t] \in Memory
            /\ [Blank EXCEPT !.session = tokens[t].session, !.before = Begun] \in Memory
        BY <1>s, BlankType
      <3>3. QED
        BY <1>g, <3>1, <3>2 DEF AccountSteps, SessionSteps
    <2>0. pc'[r] = "family" \/ (pc'[r] = "lineage" /\ local'[r].token \in DOMAIN tokens)
      <3>1. PICK t \in Delivered :
               \/ (pc'[r] = "lineage" /\ local'[r] = [Blank EXCEPT !.token = t])
               \/ pc'[r] = "family"
        BY <1>6 DEF BeginRotation
      <3>2. t \in DOMAIN tokens /\ t \in SignIns
        BY <1>s
      <3>3. [Blank EXCEPT !.token = t].token = t
        BY <3>2, NotedToken
      <3>4. local'[r] = [Blank EXCEPT !.token = t] => local'[r].token \in DOMAIN tokens
        BY <3>2, <3>3
      <3>5. QED
        BY <3>1, <3>4
    <2>2. Standing(r)'
      BY <1>m, <1>g, <1>6, <2>0 DEF BeginRotation, Standing, PastCreation, PastToken, Entering, sessionVars, Opened, OneMoves
    <2>3. QED
      BY <1>m, <1>6, <2>1, <2>2, QuietTypes DEF BeginRotation, codeVars
  <1>7. CASE ReadLineage(r)
    <2>0. /\ local[r].token \in DOMAIN tokens /\ local[r] \in Memory
          /\ pc'[r] = "write"
          /\ local'[r] = [local[r] EXCEPT !.consumed =
                                             sessions[tokens[local[r].token].session].consumed]
      BY <1>m, <1>7 DEF ReadLineage, Standing
    <2>a. sessions[tokens[local[r].token].session].consumed \in Seq(SignIns)
      BY <2>0
    <2>1. pc'[r] \in AccountSteps /\ local'[r] \in Memory /\ form'[r] \in Forms
      BY <1>g, <2>0, <2>a, NotedToken DEF AccountSteps, SessionSteps
    <2>b. local'[r].token = local[r].token
      BY <2>0, <2>a, NotedToken
    <2>2. Standing(r)'
      BY <1>m, <1>g, <1>7, <2>0, <2>b DEF ReadLineage, Standing, PastCreation, PastToken, Entering, sessionVars, Opened
    <2>3. QED
      BY <1>m, <1>7, <2>1, <2>2, QuietTypes DEF ReadLineage, codeVars
  <1>8. CASE WriteRotation(r)
    <2>0. /\ Opened' = Opened /\ since' \in [Opened -> SUBSET Opened]
          /\ sessions' \in [Opened -> Session]
          /\ DOMAIN tokens' = DOMAIN tokens \cup {r}
          /\ tokens' \in [DOMAIN tokens' -> Token]
          /\ \A t \in DOMAIN tokens' : tokens'[t].session \in Opened
      <3> DEFINE t == local[r].token
                 s == tokens[t].session
                 next == tokens[t].generation + 1
                 token == [session |-> s, generation |-> next, version |-> tokens[t].version,
                           parent |-> t]
                 row == [sessions[s] EXCEPT !.current = r, !.generation = next,
                                            !.consumed = Remembered(local[r].consumed, t)]
      <3>1. /\ since \in [Opened -> SUBSET Opened] /\ sessions \in [Opened -> Session]
            /\ tokens \in [DOMAIN tokens -> Token]
        BY <1>m DEF DataTyped
      <3>a. t \in DOMAIN tokens
        BY <1>m, <1>8 DEF WriteRotation, Standing
      <3>2. t \in DOMAIN tokens /\ s \in Opened /\ next \in Nat /\ t \in SignIns
        <4>1. s \in Opened /\ tokens[t].generation \in Nat
          BY <3>a
        <4>2. QED
          BY <1>s, <3>a, <4>1
      <3>3. Remembered(local[r].consumed, t) \in Seq(SignIns)
        BY <3>2, RememberedType
      <3>4. row \in Session
        <4>1. sessions[s] \in Session
          BY <3>1, <3>2
        <4> HIDE DEF s, t, next
        <4>2. QED
          BY <1>s, <4>1, <3>2, <3>3 DEF Session
      <3>5. sessions' = [sessions EXCEPT ![s] = row]
        BY <1>8, <3>1, <3>2 DEF WriteRotation
      <3>6. Opened' = Opened /\ sessions' \in [Opened -> Session]
        BY <3>1, <3>2, <3>4, <3>5 DEF Opened
      <3>7. Touched(s) \in [Opened -> SUBSET Opened]
        BY <3>1, <3>2 DEF Touched
      <3>8. token \in Token /\ token.session = s
        BY <1>s, <3>2 DEF Token
      <3>9. tokens' = Issued(r, token) /\ since' = Touched(s)
        BY <1>8 DEF WriteRotation
      <3>10. /\ DOMAIN tokens' = DOMAIN tokens \cup {r} /\ tokens' \in [DOMAIN tokens' -> Token]
             /\ \A x \in DOMAIN tokens' : tokens'[x] = IF x = r THEN token ELSE tokens[x]
        BY <3>1, <3>8, <3>9 DEF Issued
      <3>11. QED
        BY <3>2, <3>6, <3>7, <3>8, <3>9, <3>10
    <2>1. pc'[r] \in AccountSteps /\ local'[r] \in Memory /\ form'[r] \in Forms
      BY <1>m, BlankType, <1>g, <1>s, <1>8 DEF WriteRotation, AccountSteps, SessionSteps
    <2>2. DataTyped' /\ NamesOwn(r)
      BY <1>m, <1>g, <1>s, <1>8, <2>0 DEF WriteRotation, DataTyped, NamesOwn, codeVars, historyVars
    <2>3. Standing(r)'
      BY <1>m, <1>g, <1>8, <2>2 DEF WriteRotation, Standing, NamesOwn, codeVars, PastCreation, PastToken, Entering, Opened
    <2>4. QED
      BY <1>m, <2>1, <2>2, <2>3, StepTypes
  <1>9. CASE RevokeFamily(r)
    <2>1. pc'[r] \in AccountSteps /\ local'[r] \in Memory /\ form'[r] \in Forms
      BY <1>m, BlankType, <1>g, <1>s, <1>9 DEF RevokeFamily, AccountSteps, SessionSteps
    <2>2. DataTyped' /\ NamesOwn(r)
      BY <1>m, <1>s, <1>9, RevokedType DEF RevokeFamily, DataTyped, NamesOwn, codeVars, historyVars, Opened, Codes
    <2>3. Standing(r)'
      <3>1. pc'[r] = "everyone" /\ Opened' = Opened /\ tokens' = tokens
        BY <1>m, <1>9, RevokedType DEF RevokeFamily, Opened
      <3>2. pc[r] \in {"idle", "family", "everyone"}
        BY <1>9 DEF RevokeFamily
      <3>3. QED
        BY <1>m, <1>g, <3>1, <3>2 DEF Standing, PastCreation, PastToken, Entering
    <2>4. QED
      BY <1>m, <2>1, <2>2, <2>3, StepTypes
  <1>10. CASE RevokeEveryone(r)
    <2>1. pc'[r] \in AccountSteps /\ local'[r] \in Memory /\ form'[r] \in Forms
      BY <1>m, BlankType, <1>g, <1>s, <1>10 DEF RevokeEveryone, AccountSteps, SessionSteps
    <2>2. DataTyped' /\ NamesOwn(r)
      BY <1>m, <1>s, <1>10, RevokedType DEF RevokeEveryone, DataTyped, NamesOwn, codeVars, historyVars, Opened, Codes
    <2>3. Standing(r)'
      <3>1. pc'[r] = "bump" /\ Opened' = Opened /\ tokens' = tokens
        BY <1>m, <1>10, RevokedType DEF RevokeEveryone, Opened
      <3>2. pc[r] \in {"idle", "family", "everyone"}
        BY <1>10 DEF RevokeEveryone
      <3>3. QED
        BY <1>m, <1>g, <3>1, <3>2 DEF Standing, PastCreation, PastToken, Entering
    <2>4. QED
      BY <1>m, <2>1, <2>2, <2>3, StepTypes
  <1>11. CASE RaiseVersion(r)
    <2>1. pc'[r] \in AccountSteps /\ local'[r] \in Memory /\ form'[r] \in Forms
      BY <1>m, BlankType, <1>g, <1>s, <1>11 DEF RaiseVersion, AccountSteps, SessionSteps
    <2>2. DataTyped' /\ NamesOwn(r)
      BY <1>m, <1>s, <1>11, RevokedType DEF RaiseVersion, DataTyped, NamesOwn, codeVars, historyVars, Opened, Codes
    <2>3. Standing(r)'
      BY <1>m, <1>g, <1>11, <2>2 DEF RaiseVersion, Standing, NamesOwn, codeVars, PastCreation, PastToken, Entering, Opened
    <2>4. QED
      BY <1>m, <2>1, <2>2, <2>3, StepTypes
  <1>12. CASE SignOut(r)
    <2>1. pc'[r] \in AccountSteps /\ local'[r] \in Memory /\ form'[r] \in Forms
      BY <1>m, BlankType, <1>g, <1>s, <1>12 DEF SignOut, AccountSteps, SessionSteps
    <2>2. DataTyped' /\ NamesOwn(r)
      <3>1. PICK gone : sessions' = Revoked(gone)
        BY <1>12 DEF SignOut
      <3>2. sessions' \in [Opened -> Session] /\ Opened' = Opened
        BY <3>1, RevokedType DEF Opened
      <3>3. QED
        BY <1>m, <1>s, <1>12, <3>2 DEF SignOut, DataTyped, NamesOwn, codeVars, historyVars, Codes
    <2>3. Standing(r)'
      BY <1>m, <1>g, <1>12, <2>2 DEF SignOut, Standing, NamesOwn, codeVars, PastCreation, PastToken, Entering, Opened
    <2>4. QED
      BY <1>m, <2>1, <2>2, <2>3, StepTypes
  <1>13. CASE SignOutOthers(r)
    <2>1. pc'[r] \in AccountSteps /\ local'[r] \in Memory /\ form'[r] \in Forms
      BY <1>m, BlankType, <1>g, <1>s, <1>13 DEF SignOutOthers, AccountSteps, SessionSteps
    <2>2. DataTyped' /\ NamesOwn(r)
      <3>1. PICK gone : sessions' = Revoked(gone)
        BY <1>13 DEF SignOutOthers
      <3>2. sessions' \in [Opened -> Session] /\ Opened' = Opened
        BY <3>1, RevokedType DEF Opened
      <3>3. QED
        BY <1>m, <1>s, <1>13, <3>2 DEF SignOutOthers, DataTyped, NamesOwn, codeVars, historyVars, Codes
    <2>3. Standing(r)'
      BY <1>m, <1>g, <1>13, <2>2 DEF SignOutOthers, Standing, NamesOwn, codeVars, PastCreation, PastToken, Entering, Opened
    <2>4. QED
      BY <1>m, <2>1, <2>2, <2>3, StepTypes
  <1>14. CASE BeginSignOutAll(r)
    <2>1. pc'[r] \in AccountSteps /\ local'[r] \in Memory /\ form'[r] \in Forms
      BY <1>m, BlankType, <1>g, <1>s, <1>14 DEF BeginSignOutAll, AccountSteps, SessionSteps
    <2>2. DataTyped' /\ NamesOwn(r)
      BY <1>m, <1>g, <1>s, <1>14 DEF BeginSignOutAll, DataTyped, NamesOwn, codeVars, historyVars, Opened
    <2>3. Standing(r)'
      <3>1. pc'[r] = "sweep" /\ Opened' = Opened /\ tokens' = tokens
        BY <1>m, <1>14, RevokedType DEF BeginSignOutAll, Opened
      <3>2. pc[r] \in {"idle", "family", "everyone"}
        BY <1>14 DEF BeginSignOutAll
      <3>3. QED
        BY <1>m, <1>g, <3>1, <3>2 DEF Standing, PastCreation, PastToken, Entering
    <2>4. QED
      BY <1>m, <2>1, <2>2, <2>3, StepTypes
  <1>15. CASE SweepSessions(r)
    <2>1. pc'[r] \in AccountSteps /\ local'[r] \in Memory /\ form'[r] \in Forms
      BY <1>m, BlankType, <1>g, <1>s, <1>15 DEF SweepSessions, AccountSteps, SessionSteps
    <2>2. DataTyped' /\ NamesOwn(r)
      BY <1>m, <1>s, <1>15, RevokedType DEF SweepSessions, DataTyped, NamesOwn, codeVars, historyVars, Opened, Codes
    <2>3. Standing(r)'
      BY <1>m, <1>g, <1>15, <2>2 DEF SweepSessions, Standing, NamesOwn, codeVars, PastCreation, PastToken, Entering, Opened
    <2>4. QED
      BY <1>m, <2>1, <2>2, <2>3, StepTypes
  <1>16. CASE Fail(r)
    <2>1. pc'[r] \in AccountSteps /\ local'[r] \in Memory /\ form'[r] \in Forms
      BY <1>m, BlankType, <1>g, <1>16 DEF Fail, AccountSteps, SessionSteps
    <2>2. Standing(r)'
      BY <1>m, <1>s, <1>16 DEF Fail, Standing, PastCreation, PastToken, Entering, sessionVars, codeVars, Opened, Codes
    <2>3. QED
      BY <1>m, <1>16, <2>1, <2>2, QuietTypes DEF Fail, codeVars
  <1>17. QED
    BY <1>1, <1>2, <1>3, <1>4, <1>5, <1>6, <1>7, <1>8, <1>9, <1>10, <1>11, <1>12, <1>13, <1>14, <1>15, <1>16 DEF SessionStep

\* The columns of a code that a guess writes.
LEMMA CountedType ==
    ASSUME AInv, NEW c \in Codes
    PROVE  LET new == [codes EXCEPT ![c].attempts = @ + 1]
           IN  /\ new \in [Codes -> Code]
               /\ \A d \in Codes : /\ new[d].purpose = codes[d].purpose
                                   /\ new[d].used = codes[d].used
                                   /\ new[d].recent = codes[d].recent
                                   /\ new[d].older = codes[d].older
                                   /\ new[d].attempts = codes[d].attempts + (IF d = c THEN 1 ELSE 0)
  <1> DEFINE new == [codes EXCEPT ![c].attempts = @ + 1]
             row == [codes[c] EXCEPT !.attempts = @ + 1]
  <1>1. codes \in [Codes -> Code]
    BY DEF AInv, AccountTypeOK
  <1>2. row = [purpose |-> codes[c].purpose, used |-> codes[c].used,
               attempts |-> codes[c].attempts + 1, recent |-> codes[c].recent,
               older |-> codes[c].older]
    BY <1>1 DEF Code
  <1>3. row \in Code
    BY <1>2, KnownTypes DEF Code
  <1>4. new = [d \in Codes |-> IF d = c THEN row ELSE codes[d]]
    BY <1>1
  <1> HIDE DEF new, row
  <1>5. new \in [Codes -> Code]
    BY <1>1, <1>3, <1>4
  <1>6. ASSUME NEW d \in Codes
        PROVE  /\ new[d].purpose = codes[d].purpose /\ new[d].used = codes[d].used
               /\ new[d].recent = codes[d].recent /\ new[d].older = codes[d].older
               /\ new[d].attempts = codes[d].attempts + (IF d = c THEN 1 ELSE 0)
    <2>1. CASE d = c
      BY <1>2, <1>4, <2>1
    <2>2. CASE d # c
      BY <1>4, <2>2, KnownTypes
    <2>3. QED
      BY <2>1, <2>2
  <1>7. QED
    BY <1>5, <1>6 DEF new

\* A code that is sent.
LEMMA IssuedType ==
    ASSUME AInv, NEW r \in Requests, IssueCode(r)
    PROVE  /\ r \notin Codes /\ Codes' = Codes \cup {r} /\ codes' \in [Codes' -> Code]
           /\ codes'[r] = NewCode(form[r].purpose)
           /\ \A c \in Codes : /\ codes'[c].purpose = codes[c].purpose
                               /\ codes'[c].used = (codes[c].used \/ c \in form[r].marked)
                               /\ codes'[c].attempts = codes[c].attempts
                               /\ codes'[c].recent = codes[c].recent
                               /\ codes'[c].older = codes[c].older
  <1>1. r \notin Codes
    BY DEF AInv, Standing, IssueCode
  <1>2. NewCode(form[r].purpose) \in Code
    BY KnownTypes DEF NewCode, Code, AInv, AccountTypeOK
  <1>3. codes' = [c \in Codes \cup {r} |->
                    IF c = r THEN NewCode(form[r].purpose) ELSE Used(form[r].marked)[c]]
    BY DEF IssueCode
  <1>4. Codes' = Codes \cup {r}
    BY <1>3 DEF Codes
  <1>5. \A c \in Codes : codes'[c] = Used(form[r].marked)[c]
    BY <1>1, <1>3
  <1>6. codes'[r] = NewCode(form[r].purpose)
    BY <1>3
  <1>7. codes' \in [Codes' -> Code]
    BY <1>2, <1>3, <1>4, UsedType
  <1>8. QED
    BY <1>1, <1>4, <1>5, <1>6, <1>7, UsedType

\* What the replacement of the password does to the rows.
LEMMA ReplacedType ==
    ASSUME AInv, NEW new \in SignIns, ReplacePassword(new)
    PROVE  /\ version' = version + 1 /\ version' \in Nat /\ password' = new
           /\ Opened' = Opened /\ sessions' \in [Opened -> Session]
           /\ Codes' = Codes /\ codes' \in [Codes -> Code]
           /\ \A c \in Codes : codes'[c].purpose = codes[c].purpose
           /\ void' \subseteq Codes /\ ended' \subseteq SignIns
           /\ UNCHANGED <<since, tokens>>
  <1>1. sessions' = Revoked(Opened) /\ codes' = Used(OfPurpose("PASSWORD_RESET"))
    BY DEF ReplacePassword
  <1>2. Opened' = Opened /\ Codes' = Codes
    BY <1>1, RevokedType, UsedType DEF Opened, Codes
  <1>3. version \in Nat /\ void \subseteq Codes /\ ended \subseteq SignIns /\ Opened \subseteq SignIns
    BY DEF AInv, AccountTypeOK, RowsTyped
  <1>4. OfPurpose("PASSWORD_RESET") \subseteq Codes /\ UnderWay \subseteq SignIns
    BY <1>3 DEF OfPurpose, UnderWay, Begun, SignIns
  <1>5. QED
    BY <1>1, <1>2, <1>3, <1>4, RevokedType, UsedType DEF ReplacePassword

LEMMA CredentialTypes ==
    ASSUME AInv, NEW r \in Requests, AccountStep(r)
    PROVE  AInv'
  <1> USE KnownTypes DEF Goto, Enter, Advance, Answer, Idle, Fill
  <1>m. OneMoves(r) /\ Standing(r) /\ DataTyped
    BY AccountMoves DEF AInv, AccountTypeOK, RowsTyped, DataTyped
  <1>s. /\ version \in Nat /\ r \in SignIns /\ Codes \subseteq Requests /\ password \in SignIns
        /\ \A p : Unused(p) \subseteq Codes /\ OfPurpose(p) \subseteq Codes
    BY DEF SignIns, AInv, AccountTypeOK, RowsTyped, Unused, OfPurpose
  <1>1. CASE BeginSend(r)
    <2>0. PICK p \in Purposes : form'[r] = [Empty EXCEPT !.purpose = p] /\ pc'[r] = "mark" /\ local'[r] = Blank
      BY <1>1 DEF BeginSend
    <2>1. pc'[r] \in AccountSteps /\ local'[r] \in Memory /\ form'[r] \in Forms
      BY <2>0, BlankType DEF AccountSteps
    <2>2. /\ pc[r] = "idle" /\ UNCHANGED <<sessionVars, ended, password, codes, historyVars>>
          /\ Opened' = Opened /\ Codes' = Codes /\ tokens' = tokens
      BY <1>1 DEF BeginSend, sessionVars, Opened, Codes
    <2>3. Standing(r)'
      BY <1>m, <1>s, <2>0, <2>2 DEF Standing, PastCreation, PastToken, Entering
    <2>4. QED
      BY <1>m, <2>1, <2>2, <2>3, QuietTypes
  <1>2. CASE MarkCodes(r)
    <2>1. /\ codes' = codes \/ codes' = Used(Unused(form[r].purpose))
          /\ pc'[r] = "issue" /\ local'[r] = Blank
          /\ form'[r] \in {form[r], [form[r] EXCEPT !.marked = Unused(form[r].purpose)]}
      BY <1>2 DEF MarkCodes
    <2>2. /\ Codes' = Codes /\ codes' \in [Codes -> Code]
          /\ \A c \in Codes : codes'[c].purpose = codes[c].purpose
      BY <1>m, <2>1, UsedType DEF Codes, DataTyped
    <2>3. form[r] \in Forms /\ [form[r] EXCEPT !.marked = Unused(form[r].purpose)] \in Forms
      <3>1. form[r] \in Forms
        OBVIOUS
      <3>2. Unused(form[r].purpose) \in SUBSET Requests
        BY <1>s
      <3>3. QED
        BY <3>1, <3>2 DEF Forms
    <2>4. DataTyped' /\ NamesOwn(r)
      BY <1>m, <1>2, <2>2 DEF MarkCodes, DataTyped, NamesOwn, sessionVars, historyVars, Opened
    <2>5. Standing(r)'
      BY <1>m, <1>2, <2>1, <2>2 DEF MarkCodes, Standing, PastCreation, PastToken, Entering, sessionVars, Opened
    <2>6. QED
      BY <1>m, <2>1, <2>3, <2>4, <2>5, BlankType, StepTypes DEF AccountSteps
  <1>3. CASE IssueCode(r)
    <2>1. pc'[r] = "done" /\ local'[r] = Blank /\ form'[r] = Empty /\ pc[r] = "issue"
      BY <1>3 DEF IssueCode
    <2>2. /\ Codes' = Codes \cup {r} /\ codes' \in [Codes' -> Code]
          /\ \A c \in Codes : codes'[c].purpose = codes[c].purpose
      BY <1>3, IssuedType
    <2>3. DataTyped' /\ NamesOwn(r)
      BY <1>m, <1>s, <1>3, <2>2 DEF IssueCode, DataTyped, NamesOwn, sessionVars, historyVars, Opened
    <2>4. Standing(r)'
      BY <2>1 DEF Standing, PastCreation, PastToken, Entering
    <2>5. QED
      BY <1>m, <2>1, <2>3, <2>4, BlankType, StepTypes DEF AccountSteps, SessionSteps
  <1>4. CASE BeginCode(r)
    <2>0. PICK p \in Purposes, c \in Codes :
             /\ c \in Unused(p)
             /\ form'[r] = [Empty EXCEPT !.purpose = p, !.code = c]
             /\ pc'[r] \in Entering
             /\ local'[r] \in {Blank, [Blank EXCEPT !.version = version]}
      BY <1>4 DEF BeginCode, Entering
    <2>a. form'[r].code = c /\ form'[r].purpose = p /\ codes[c].purpose = p
      BY <2>0 DEF Empty, Unused, OfPurpose
    <2>1. pc'[r] \in AccountSteps /\ local'[r] \in Memory /\ form'[r] \in Forms
      <3>1. form'[r] \in Forms
        <4>1. c \in Requests /\ form'[r] = [Empty EXCEPT !.purpose = p, !.code = c]
          BY <1>s, <2>0
        <4>2. QED
          BY <4>1, BlankType
      <3>2. local'[r] \in Memory
        BY <1>s, <2>0, BlankType
      <3>3. QED
        BY <2>0, <3>1, <3>2 DEF AccountSteps, Entering
    <2>2. /\ pc[r] = "idle" /\ UNCHANGED <<sessionVars, ended, password, codes, historyVars>>
          /\ Opened' = Opened /\ Codes' = Codes /\ tokens' = tokens
      BY <1>4 DEF BeginCode, sessionVars, Opened, Codes
    <2>3. Standing(r)'
      BY <1>m, <1>s, <2>0, <2>a, <2>2 DEF Standing, PastCreation, PastToken, Entering
    <2>4. QED
      BY <1>m, <2>1, <2>2, <2>3, QuietTypes
  <1>5. CASE CountGuess(r)
    <2> DEFINE c == form[r].code
    <2>1. c \in Codes /\ pc[r] = "count"
      BY <1>m, <1>5 DEF CountGuess, Standing, Entering
    <2>2. /\ Codes' = Codes /\ codes' \in [Codes -> Code]
          /\ \A d \in Codes : codes'[d].purpose = codes[d].purpose
      <3>1. codes' = [codes EXCEPT ![c].attempts = @ + 1]
        BY <1>5 DEF CountGuess
      <3>2. QED
        BY <2>1, <3>1, CountedType DEF Codes
    <2>3. /\ local'[r] = Blank
          /\ \/ pc'[r] = "done" /\ form'[r] = Empty
             \/ pc'[r] = "spend" /\ form'[r] = form[r]
      <3>1. CASE codes'[c].attempts >= MaxAttempts
        BY <1>5, <3>1 DEF CountGuess
      <3>2. CASE ~(codes'[c].attempts >= MaxAttempts)
        BY <1>5, <3>2 DEF CountGuess
      <3>3. QED
        BY <3>1, <3>2
    <2>4. wrong' = wrong \cup {<<c, r>>}
      BY <1>5 DEF CountGuess
    <2>5. DataTyped' /\ NamesOwn(r)
      BY <1>m, <1>5, <2>1, <2>2, <2>4 DEF CountGuess, DataTyped, NamesOwn, sessionVars, Opened
    <2>6. Standing(r)'
      BY <1>m, <1>5, <2>1, <2>2, <2>3 DEF CountGuess, Standing, PastCreation, PastToken, Entering, sessionVars, Opened
    <2>7. QED
      BY <1>m, <2>3, <2>5, <2>6, BlankType, StepTypes DEF AccountSteps, SessionSteps
  <1>6. CASE SpendCode(r)
    <2>1. pc'[r] = "done" /\ local'[r] = Blank /\ form'[r] = Empty
      BY <1>6 DEF SpendCode
    <2>2. /\ Codes' = Codes /\ codes' \in [Codes -> Code]
          /\ \A c \in Codes : codes'[c].purpose = codes[c].purpose
      BY <1>6, UsedType DEF SpendCode, Codes
    <2>3. DataTyped' /\ NamesOwn(r)
      BY <1>m, <1>6, <2>2 DEF SpendCode, DataTyped, NamesOwn, sessionVars, historyVars, Opened
    <2>4. Standing(r)'
      BY <2>1 DEF Standing, PastCreation, PastToken, Entering
    <2>5. QED
      BY <1>m, <2>1, <2>3, <2>4, BlankType, StepTypes DEF AccountSteps, SessionSteps
  <1>7. CASE ConsumeLoginCode(r)
    <2>1. /\ pc'[r] = "create" /\ local'[r] = local[r] /\ form'[r] = Empty /\ pc[r] = "consume"
          /\ form[r].code \in Codes
      BY <1>m, <1>7 DEF ConsumeLoginCode, Standing, Entering
    <2>2. /\ Codes' = Codes /\ codes' \in [Codes -> Code]
          /\ \A c \in Codes : codes'[c].purpose = codes[c].purpose
      BY <1>7, UsedType DEF ConsumeLoginCode, Codes
    <2>3. DataTyped' /\ NamesOwn(r)
      <3>1. accepted' = accepted \cup {<<form[r].code, r>>}
        BY <1>7 DEF ConsumeLoginCode
      <3>2. accepted' \subseteq Codes \X Requests
        BY <1>m, <2>1, <3>1 DEF DataTyped
      <3>3. UNCHANGED <<sessionVars, ended, password, wrong, void, changes>>
        BY <1>7 DEF ConsumeLoginCode
      <3>4. QED
        BY <1>m, <2>2, <3>2, <3>3 DEF DataTyped, NamesOwn, sessionVars, Opened
    <2>4. Standing(r)'
      BY <1>m, <1>7, <2>1, <2>2 DEF ConsumeLoginCode, Standing, PastCreation, PastToken, Entering, sessionVars, Opened
    <2>5. QED
      BY <1>m, <2>1, <2>3, <2>4, BlankType, StepTypes DEF AccountSteps, SessionSteps
  <1>8. CASE ResetPassword(r)
    <2> DEFINE c == form[r].code
    <2>1. /\ pc'[r] = "done" /\ local'[r] = Blank /\ form'[r] = Empty /\ pc[r] = "consume"
          /\ c \in Codes /\ c \in SignIns
      BY <1>m, <1>s, <1>8 DEF ResetPassword, Standing, Entering, SignIns
    <2>2. DataTyped' /\ NamesOwn(r)
      <3>1. CASE codes[c].used
        BY <1>m, <1>8, <3>1 DEF ResetPassword, DataTyped, NamesOwn, sessionVars, Opened, Codes
      <3>2. CASE ~codes[c].used
        <4>1. ReplacePassword(c) /\ accepted' = accepted \cup {<<c, r>>} /\ UNCHANGED <<wrong, changes>>
          BY <1>8, <3>2 DEF ResetPassword
        <4>2. QED
          BY <1>m, <2>1, <4>1, ReplacedType DEF DataTyped, NamesOwn
      <3>3. QED
        BY <3>1, <3>2
    <2>3. Standing(r)'
      BY <2>1 DEF Standing, PastCreation, PastToken, Entering
    <2>4. QED
      BY <1>m, <2>1, <2>2, <2>3, BlankType, StepTypes DEF AccountSteps, SessionSteps
  <1>9. CASE BeginChange(r)
    <2>0. form'[r] = [Empty EXCEPT !.password = password] /\ pc'[r] = "change" /\ local'[r] = Blank
      BY <1>9 DEF BeginChange
    <2>a. form'[r].password = password
      BY <2>0 DEF Empty
    <2>1. pc'[r] \in AccountSteps /\ local'[r] \in Memory /\ form'[r] \in Forms
      BY <1>s, <2>0, BlankType DEF AccountSteps
    <2>2. /\ pc[r] = "idle" /\ UNCHANGED <<sessionVars, ended, password, codes, historyVars>>
          /\ Opened' = Opened /\ Codes' = Codes /\ tokens' = tokens
      BY <1>9 DEF BeginChange, sessionVars, Opened, Codes
    <2>3. Standing(r)'
      BY <1>m, <1>s, <2>0, <2>a, <2>2 DEF Standing, PastCreation, PastToken, Entering
    <2>4. QED
      BY <1>m, <2>1, <2>2, <2>3, QuietTypes
  <1>10. CASE ChangePassword(r)
    <2>1. /\ pc'[r] = "done" /\ local'[r] = Blank /\ form'[r] = Empty /\ pc[r] = "change"
          /\ form[r].password \in SignIns
      BY <1>m, <1>10 DEF ChangePassword, Standing
    <2>2. DataTyped' /\ NamesOwn(r)
      <3>1. CASE password # form[r].password
        BY <1>m, <1>10, <3>1 DEF ChangePassword, DataTyped, NamesOwn, sessionVars, Opened, Codes
      <3>2. CASE password = form[r].password
        <4>1. /\ ReplacePassword(r) /\ UNCHANGED <<accepted, wrong>>
              /\ changes' = changes \cup {[by |-> r, proved |-> form[r].password]}
          BY <1>10, <3>2 DEF ChangePassword
        <4>2. QED
          BY <1>m, <1>s, <2>1, <4>1, ReplacedType DEF DataTyped, NamesOwn
      <3>3. QED
        BY <3>1, <3>2
    <2>3. Standing(r)'
      BY <2>1 DEF Standing, PastCreation, PastToken, Entering
    <2>4. QED
      BY <1>m, <2>1, <2>2, <2>3, BlankType, StepTypes DEF AccountSteps, SessionSteps
  <1>11. QED
    BY <1>1, <1>2, <1>3, <1>4, <1>5, <1>6, <1>7, <1>8, <1>9, <1>10 DEF AccountStep

\* Nothing but the age of the codes changes when a minute passes.
LEMMA AgedType ==
    ASSUME AInv, CooldownPasses
    PROVE  /\ Codes' = Codes /\ codes' \in [Codes -> Code]
           /\ \A c \in Codes : /\ codes'[c].purpose = codes[c].purpose
                               /\ codes'[c].used = codes[c].used
                               /\ codes'[c].attempts = codes[c].attempts
                               /\ codes'[c].recent = FALSE
                               /\ codes'[c].older = codes[c].older
           /\ UNCHANGED <<version, sessions, since, tokens, pc, local, past, ended, password, form,
                          accepted, wrong, void, changes>>
  <1>1. codes' = [c \in Codes |-> [codes[c] EXCEPT !.recent = FALSE]]
    BY DEF CooldownPasses
  <1>2. ASSUME NEW c \in Codes
        PROVE  /\ codes'[c] = [purpose |-> codes[c].purpose, used |-> codes[c].used,
                               attempts |-> codes[c].attempts, recent |-> FALSE,
                               older |-> codes[c].older]
               /\ codes'[c] \in Code
    <2>1. codes[c] \in Code /\ codes'[c] = [codes[c] EXCEPT !.recent = FALSE]
      BY <1>1 DEF AInv, AccountTypeOK
    <2>2. QED
      BY <2>1 DEF Code
  <1>3. Codes' = Codes /\ DOMAIN codes' = Codes
    BY <1>1 DEF Codes
  <1>4. codes' \in [Codes -> Code]
    BY <1>1, <1>2
  <1>5. ASSUME NEW c \in Codes
        PROVE  /\ codes'[c].purpose = codes[c].purpose /\ codes'[c].used = codes[c].used
               /\ codes'[c].attempts = codes[c].attempts /\ codes'[c].recent = FALSE
               /\ codes'[c].older = codes[c].older
    <2>1. codes[c] \in Code /\ codes'[c] = [codes[c] EXCEPT !.recent = FALSE]
      BY <1>1 DEF AInv, AccountTypeOK
    <2>2. QED
      BY <2>1 DEF Code
  <1>6. QED
    BY <1>3, <1>4, <1>5 DEF CooldownPasses, vars, sessionVars, requestVars, historyVars

LEMMA NextTypes ==
    ASSUME AInv, [AccountNext]_accountVars
    PROVE  AInv'
  <1>1. CASE CooldownPasses
    <2>1. AccountTypeOK'
      BY <1>1, AgedType DEF AInv, AccountTypeOK, RowsTyped, Opened
    <2>2. ASSUME NEW r \in Requests
          PROVE  Standing(r)'
      <3>1. Standing(r)
        BY DEF AInv
      <3>2. QED
        BY <1>1, <3>1, AgedType DEF Standing, Opened, Entering
    <2>3. QED
      BY <1>1, <2>1, <2>2, AgedType DEF AInv
  <1>2. CASE \E r \in Requests : AccountStep(r)
    BY <1>2, CredentialTypes
  <1>3. CASE \E r \in Requests : (SignIn(r) \/ SessionStep(r)) /\ UNCHANGED <<codeVars, historyVars>>
    BY <1>3, SessionTypes
  <1>4. CASE UNCHANGED accountVars
    BY <1>4 DEF AInv, AccountTypeOK, RowsTyped, Standing, Opened, Codes, accountVars, vars,
               sessionVars, requestVars, codeVars, historyVars
  <1>5. QED
    BY <1>1, <1>2, <1>3, <1>4 DEF AccountNext

\* Every row and every request is of the right type in every reachable state.
THEOREM AccountTypes == AccountSpec => []AccountTypeOK
  <1>1. AccountSpec => []AInv
    BY InitTypes, NextTypes, PTL DEF AccountSpec
  <1>2. AInv => AccountTypeOK
    BY DEF AInv
  <1>3. QED
    BY <1>1, <1>2, PTL

-----------------------------------------------------------------------------
(* The token version: what a global revocation ended stays dead.           *)

\* Steps at which a request holds the version that its tokens will have.
Holding == {"create", "persist", "consume"}

\* The tokens a step of a request stores: one of its own name at most, the first of its
\* session or the next of the family it rotates.
TokensGrow(r) ==
    /\ \A t \in DOMAIN tokens : t \in DOMAIN tokens' /\ tokens'[t] = tokens[t]
    /\ \A t \in DOMAIN tokens' \ DOMAIN tokens :
          /\ t = r
          /\ \/ /\ pc[r] = "persist"
                /\ tokens'[t].session = r /\ tokens'[t].parent = None
                /\ tokens'[t].version = local[r].version
             \/ /\ pc[r] = "write" /\ local[r].token \in DOMAIN tokens
                /\ tokens'[t].session = tokens[local[r].token].session
                /\ tokens'[t].parent = local[r].token
                /\ tokens'[t].version = tokens[local[r].token].version

\* What a step of a request does about the token version.
VersionMoves(r) ==
    /\ \/ version' = version
       \/ version' = version + 1 /\ tokens' = tokens /\ pc'[r] \notin Holding
    /\ pc'[r] \in Holding => \/ pc[r] = "idle" /\ local'[r].version = version /\ version' = version
                             \/ pc[r] \in Holding /\ local'[r].version = local[r].version
    /\ \/ local'[r].before = {}
       \/ pc[r] = "idle" /\ local'[r].before = Begun
       \/ pc[r] # "idle" /\ local'[r].before = local[r].before
    /\ pc'[r] = "sweep" => version' = version + 1
    /\ \/ ended' = ended
       \/ /\ ended' = ended \cup local[r].before
          /\ pc[r] = "sweep" \/ version' = version + 1
       \/ ended' = ended \cup UnderWay /\ version' = version + 1

LEMMA SessionVersions ==
    ASSUME AInv, NEW r \in Requests, SignIn(r) \/ SessionStep(r), UNCHANGED <<codeVars, historyVars>>
    PROVE  VersionMoves(r) /\ TokensGrow(r)
  <1> USE KnownTypes DEF VersionMoves, TokensGrow, Goto, Enter, Advance, Answer, Idle, Holding
  <1>m. OneMoves(r) /\ Standing(r)
    BY SessionMoves DEF codeVars, AInv
  <1>1. CASE SignIn(r)
    BY <1>m, <1>1 DEF SignIn, sessionVars, Blank
  <1>2. CASE CreateSession(r)
    BY <1>m, <1>2 DEF CreateSession, sessionVars, Blank
  <1>3. CASE StoreFirstToken(r)
    <2>1. pc[r] = "persist" /\ pc'[r] = "list" /\ local'[r] = Blank
      BY <1>3 DEF StoreFirstToken
    <2>2. r \notin DOMAIN tokens
      BY <1>m, <2>1 DEF Standing, PastToken
    <2>3. tokens' = Issued(r, [session |-> r, generation |-> 0, version |-> local[r].version,
                               parent |-> None])
      BY <1>3 DEF StoreFirstToken
    <2>4. TokensGrow(r)
      BY <2>1, <2>2, <2>3 DEF Issued
    <2>5. version' = version /\ ended' = ended
      BY <1>3 DEF StoreFirstToken
    <2>6. QED
      BY <2>1, <2>4, <2>5 DEF Blank
  <1>4. CASE ListSessions(r)
    <2>1. UNCHANGED <<version, tokens, ended>> /\ pc'[r] \in {"done", "trim"}
      BY <1>4 DEF ListSessions, sessionVars
    <2>2. local'[r].before = {}
      <3>1. local'[r] \in {Blank, [Blank EXCEPT !.surplus = Surplus]}
        BY <1>4 DEF ListSessions
      <3>2. QED
        BY <3>1 DEF Blank
    <2>3. QED
      BY <2>1, <2>2
  <1>5. CASE TrimSessions(r)
    BY <1>m, <1>5 DEF TrimSessions, sessionVars, Blank
  <1>6. CASE BeginRotation(r)
    <2>1. /\ pc[r] = "idle" /\ UNCHANGED <<version, tokens, ended>>
          /\ pc'[r] \in {"family", "lineage"} /\ local'[r].before \in {{}, Begun}
      <3>1. PICK t \in Delivered :
               \/ /\ pc'[r] = "lineage"
                  /\ local'[r] = [Blank EXCEPT !.token = t]
               \/ /\ pc'[r] = "family"
                  /\ local'[r] = [Blank EXCEPT !.session = tokens[t].session, !.before = Begun]
        BY <1>6 DEF BeginRotation
      <3>2. local'[r].before \in {{}, Begun}
        BY <3>1 DEF Blank
      <3>3. QED
        BY <1>6, <3>1, <3>2 DEF BeginRotation, sessionVars
    <2>2. QED
      BY <2>1
  <1>7. CASE ReadLineage(r)
    <2>1. /\ pc[r] = "lineage" /\ pc'[r] = "write" /\ UNCHANGED <<version, tokens, ended>>
          /\ local'[r] = [local[r] EXCEPT !.consumed =
                                             sessions[tokens[local[r].token].session].consumed]
      BY <1>7 DEF ReadLineage, sessionVars
    <2>2. local[r] \in Memory /\ sessions[tokens[local[r].token].session].consumed \in Seq(SignIns)
      BY <1>m, <2>1 DEF Standing
    <2>3. local'[r].before = local[r].before
      BY <2>1, <2>2, NotedToken
    <2>4. QED
      BY <2>1, <2>3
  <1>8. CASE WriteRotation(r)
    <2> DEFINE t == local[r].token
    <2>1. t \in DOMAIN tokens /\ pc[r] = "write" /\ pc'[r] = "done" /\ local'[r] = Blank
      BY <1>m, <1>8 DEF WriteRotation, Standing
    <2>2. r \notin DOMAIN tokens
      BY <1>m, <2>1 DEF Standing, PastToken
    <2>3. tokens' = Issued(r, [session |-> tokens[t].session, generation |-> tokens[t].generation + 1,
                               version |-> tokens[t].version, parent |-> t])
      BY <1>8 DEF WriteRotation
    <2>4. TokensGrow(r)
      BY <2>1, <2>2, <2>3 DEF Issued
    <2>5. version' = version /\ ended' = ended
      BY <1>8 DEF WriteRotation
    <2>6. QED
      BY <2>1, <2>4, <2>5 DEF Blank
  <1>9. CASE RevokeFamily(r)
    BY <1>m, <1>9 DEF RevokeFamily, sessionVars, Blank
  <1>10. CASE RevokeEveryone(r)
    BY <1>m, <1>10 DEF RevokeEveryone, sessionVars, Blank
  <1>11. CASE RaiseVersion(r)
    BY <1>m, <1>11 DEF RaiseVersion, sessionVars, Blank
  <1>12. CASE SignOut(r)
    BY <1>m, <1>12 DEF SignOut, sessionVars, Blank
  <1>13. CASE SignOutOthers(r)
    BY <1>m, <1>13 DEF SignOutOthers, sessionVars, Blank
  <1>14. CASE BeginSignOutAll(r)
    BY <1>m, <1>14 DEF BeginSignOutAll, sessionVars, Blank
  <1>15. CASE SweepSessions(r)
    BY <1>m, <1>15 DEF SweepSessions, sessionVars, Blank
  <1>16. CASE Fail(r)
    BY <1>m, <1>16 DEF Fail, sessionVars, Blank
  <1>17. QED
    BY <1>1, <1>2, <1>3, <1>4, <1>5, <1>6, <1>7, <1>8, <1>9, <1>10, <1>11, <1>12, <1>13, <1>14, <1>15, <1>16 DEF SessionStep

LEMMA CredentialVersions ==
    ASSUME AInv, NEW r \in Requests, AccountStep(r)
    PROVE  VersionMoves(r) /\ TokensGrow(r)
  <1> USE KnownTypes DEF VersionMoves, TokensGrow, Goto, Enter, Advance, Answer, Idle, Holding
  <1>1. CASE BeginSend(r)
    BY <1>1 DEF BeginSend, sessionVars, Blank
  <1>2. CASE MarkCodes(r)
    BY <1>2 DEF MarkCodes, sessionVars, Blank
  <1>3. CASE IssueCode(r)
    BY <1>3 DEF IssueCode, sessionVars, Blank
  <1>4. CASE BeginCode(r)
    <2>1. /\ pc[r] = "idle" /\ UNCHANGED <<version, tokens, ended>>
          /\ \/ pc'[r] \in {"spend", "count"} /\ local'[r] = Blank
             \/ pc'[r] = "consume" /\ local'[r] = [Blank EXCEPT !.version = version]
      BY <1>4 DEF BeginCode, sessionVars
    <2>2. QED
      BY <2>1 DEF Blank
  <1>5. CASE CountGuess(r)
    <2>1. pc'[r] \in {"done", "spend"} /\ local'[r] = Blank /\ UNCHANGED <<version, tokens, ended>>
      <3>1. CASE codes'[form[r].code].attempts >= MaxAttempts
        BY <1>5, <3>1 DEF CountGuess, sessionVars
      <3>2. CASE ~(codes'[form[r].code].attempts >= MaxAttempts)
        BY <1>5, <3>2 DEF CountGuess, sessionVars
      <3>3. QED
        BY <3>1, <3>2
    <2>2. QED
      BY <2>1 DEF Blank
  <1>6. CASE SpendCode(r)
    BY <1>6 DEF SpendCode, sessionVars, Blank
  <1>7. CASE ConsumeLoginCode(r)
    BY <1>7 DEF ConsumeLoginCode, sessionVars, Blank
  <1>8. CASE ResetPassword(r)
    <2>1. pc'[r] = "done" /\ local'[r] = Blank
      BY <1>8 DEF ResetPassword
    <2>2. \/ UNCHANGED <<version, tokens, ended>>
          \/ version' = version + 1 /\ tokens' = tokens /\ ended' = ended \cup UnderWay
      BY <1>8 DEF ResetPassword, ReplacePassword, sessionVars
    <2>3. QED
      BY <2>1, <2>2 DEF Blank
  <1>9. CASE BeginChange(r)
    BY <1>9 DEF BeginChange, sessionVars, Blank
  <1>10. CASE ChangePassword(r)
    <2>1. pc'[r] = "done" /\ local'[r] = Blank
      BY <1>10 DEF ChangePassword
    <2>2. \/ UNCHANGED <<version, tokens, ended>>
          \/ version' = version + 1 /\ tokens' = tokens /\ ended' = ended \cup UnderWay
      BY <1>10 DEF ChangePassword, ReplacePassword, sessionVars
    <2>3. QED
      BY <2>1, <2>2 DEF Blank
  <1>11. QED
    BY <1>1, <1>2, <1>3, <1>4, <1>5, <1>6, <1>7, <1>8, <1>9, <1>10 DEF AccountStep

\* A sign-in is outdated when it has begun and whatever it has, or will have, was signed
\* with an older version.
Outdated(s) ==
    /\ s \in Requests => pc[s] # "idle"
    /\ \A t \in DOMAIN tokens : tokens[t].session = s => tokens[t].version < version
    /\ s \in Requests => (pc[s] \in Holding => local[s].version < version)

\* No version is ahead of the account's, and what was ended, or is about to be swept by a
\* sign-out that has raised the version, is outdated.
VersionInv ==
    /\ \A t \in DOMAIN tokens : tokens[t].version <= version
    /\ \A r \in Requests : pc[r] \in Holding => local[r].version <= version
    /\ \A r \in Requests : \A s \in local[r].before : s \in Requests => pc[s] # "idle"
    /\ \A r \in Requests : pc[r] = "sweep" => \A s \in local[r].before : Outdated(s)
    /\ \A s \in ended : Outdated(s)

LEMMA InitVersions == AccountInit => VersionInv
  BY DEF AccountInit, Init, VersionInv, Outdated, FirstToken, Blank, Holding

\* An outdated sign-in stays outdated, and whatever has begun is outdated once the
\* version is raised.
LEMMA OutdatedStays ==
    ASSUME AInv, VersionInv, NEW r \in Requests, OneMoves(r), VersionMoves(r), TokensGrow(r), NEW s,
           s \in Requests => pc[s] # "idle", Outdated(s) \/ version' = version + 1
    PROVE  Outdated(s)'
  <1>a. version \in Nat /\ version' \in Nat /\ version' >= version
    BY DEF AInv, AccountTypeOK, RowsTyped, VersionMoves
  <1>1. s \in Requests => pc'[s] # "idle"
    BY KnownTypes DEF OneMoves
  <1>2. ASSUME NEW t \in DOMAIN tokens', tokens'[t].session = s
        PROVE  tokens'[t].version < version'
    <2>1. CASE version' = version + 1
      <3>1. tokens' = tokens
        BY <1>a, <2>1 DEF VersionMoves
      <3>2. QED
        BY <1>2, <1>a, <2>1, <3>1, KnownTypes DEF VersionInv
    <2>2. CASE version' # version + 1 /\ t \in DOMAIN tokens
      BY <1>2, <1>a, <2>2, KnownTypes DEF Outdated, VersionMoves, TokensGrow
    <2>3. CASE version' # version + 1 /\ t \notin DOMAIN tokens
      <3>1. Outdated(s) /\ version' = version
        BY <2>3 DEF VersionMoves
      <3>2. CASE pc[r] = "persist" /\ tokens'[t].session = r /\ tokens'[t].version = local[r].version
        BY <1>2, <3>1, <3>2 DEF Outdated, Holding
      <3>3. CASE /\ local[r].token \in DOMAIN tokens
                 /\ tokens'[t].session = tokens[local[r].token].session
                 /\ tokens'[t].version = tokens[local[r].token].version
        BY <1>2, <3>1, <3>3 DEF Outdated
      <3>4. QED
        BY <2>3, <3>2, <3>3 DEF TokensGrow
    <2>4. QED
      BY <2>1, <2>2, <2>3
  <1>3. ASSUME s \in Requests, pc'[s] \in Holding
        PROVE  local'[s].version < version'
    <2>1. CASE s = r
      <3>1. pc[r] \in Holding /\ local'[r].version = local[r].version /\ version' = version
        BY <1>a, <1>3, <2>1 DEF VersionMoves
      <3>2. QED
        BY <1>3, <1>a, <2>1, <3>1 DEF Outdated
    <2>2. CASE s # r
      <3>1. pc'[s] = pc[s] /\ local'[s] = local[s]
        BY <1>3, <2>2, KnownTypes DEF OneMoves
      <3>2. local[s].version \in Nat /\ local[s].version <= version
        BY <1>3, <3>1, KnownTypes DEF VersionInv
      <3>3. QED
        BY <1>3, <1>a, <3>1, <3>2 DEF Outdated
    <2>3. QED
      BY <2>1, <2>2
  <1>4. QED
    BY <1>1, <1>2, <1>3 DEF Outdated

LEMMA StepVersions ==
    ASSUME AInv, VersionInv, NEW r \in Requests, OneMoves(r), VersionMoves(r), TokensGrow(r)
    PROVE  VersionInv'
  <1>a. version \in Nat /\ version' \in Nat /\ version' >= version
    BY DEF AInv, AccountTypeOK, RowsTyped, VersionMoves
  <1>b. \A s \in Begun \cup UnderWay : s \in Requests => pc[s] # "idle"
    BY DEF AInv, Standing, PastCreation, Begun, UnderWay
  <1>c. /\ \A q \in Requests : q # r => /\ pc'[q] = pc[q] /\ local'[q] = local[q]
        /\ \A q \in Requests : pc[q] # "idle" => pc'[q] # "idle"
        /\ pc'[r] # "idle"
    BY KnownTypes DEF OneMoves
  <1>1. ASSUME NEW t \in DOMAIN tokens'
        PROVE  tokens'[t].version <= version'
    <2>1. CASE t \in DOMAIN tokens
      BY <1>a, <2>1, KnownTypes DEF VersionInv, TokensGrow
    <2>2. CASE t \notin DOMAIN tokens
      BY <1>a, <2>2, KnownTypes DEF VersionInv, TokensGrow, Holding
    <2>3. QED
      BY <2>1, <2>2
  <1>2. ASSUME NEW q \in Requests, pc'[q] \in Holding
        PROVE  local'[q].version <= version'
    <2>1. CASE q # r
      BY <1>a, <1>c, <1>2, <2>1, KnownTypes DEF VersionInv
    <2>2. CASE q = r
      BY <1>a, <1>2, <2>2, KnownTypes DEF VersionInv, VersionMoves
    <2>3. QED
      BY <2>1, <2>2
  <1>3. ASSUME NEW q \in Requests, NEW s \in local'[q].before
        PROVE  s \in Requests => pc[s] # "idle"
    <2>1. CASE q # r
      BY <1>c, <1>3, <2>1 DEF VersionInv
    <2>2. CASE q = r
      BY <1>b, <1>3, <2>2 DEF VersionInv, VersionMoves
    <2>3. QED
      BY <2>1, <2>2
  <1>4. ASSUME NEW q \in Requests, pc'[q] = "sweep", NEW s \in local'[q].before
        PROVE  Outdated(s)'
    <2>1. Outdated(s) \/ version' = version + 1
      <3>1. CASE q # r
        BY <1>c, <1>4, <3>1 DEF VersionInv
      <3>2. CASE q = r
        BY <1>4, <3>2 DEF VersionMoves
      <3>3. QED
        BY <3>1, <3>2
    <2>2. QED
      BY <1>3, <2>1, OutdatedStays
  <1>5. ASSUME NEW s \in ended'
        PROVE  Outdated(s)'
    <2>1. CASE s \in ended
      BY <2>1, OutdatedStays DEF VersionInv, Outdated
    <2>2. CASE s \in local[r].before /\ (pc[r] = "sweep" \/ version' = version + 1)
      BY <2>2, OutdatedStays DEF VersionInv
    <2>3. CASE s \in UnderWay /\ version' = version + 1
      BY <1>b, <2>3, OutdatedStays
    <2>4. QED
      BY <1>5, <2>1, <2>2, <2>3 DEF VersionMoves
  <1>6. QED
    BY <1>1, <1>2, <1>3, <1>4, <1>5, <1>c DEF VersionInv

LEMMA NextVersions ==
    ASSUME AInv, VersionInv, [AccountNext]_accountVars
    PROVE  VersionInv'
  <1>1. CASE CooldownPasses
    BY <1>1, AgedType DEF VersionInv, Outdated
  <1>2. CASE \E r \in Requests : AccountStep(r)
    BY <1>2, AccountMoves, CredentialVersions, StepVersions
  <1>3. CASE \E r \in Requests : (SignIn(r) \/ SessionStep(r)) /\ UNCHANGED <<codeVars, historyVars>>
    BY <1>3, SessionMoves, SessionVersions, StepVersions
  <1>4. CASE UNCHANGED accountVars
    BY <1>4 DEF VersionInv, Outdated, accountVars, vars, sessionVars, requestVars
  <1>5. QED
    BY <1>1, <1>2, <1>3, <1>4 DEF AccountNext

\* A sign-in that was under way when every session was to be ended: nothing of it works
\* once the revocation is answered.
THEOREM EndedSignInsStay == AccountSpec => []EndedSignInsStayDead
  <1>1. AccountInit => AInv /\ VersionInv
    BY InitTypes, InitVersions
  <1>2. AInv /\ VersionInv /\ [AccountNext]_accountVars => (AInv /\ VersionInv)'
    BY NextTypes, NextVersions
  <1>3. AInv /\ VersionInv => EndedSignInsStayDead
    <2> SUFFICES ASSUME AInv, VersionInv, NEW t \in DOMAIN tokens, tokens[t].session \in ended
                 PROVE  tokens[t].version # version
      BY DEF EndedSignInsStayDead, Presentable
    <2>1. tokens[t].version < version
      BY DEF VersionInv, Outdated
    <2>2. QED
      BY <2>1, KnownTypes DEF AInv, AccountTypeOK, RowsTyped
  <1>4. QED
    BY <1>1, <1>2, <1>3, PTL DEF AccountSpec

-----------------------------------------------------------------------------
(* Families of tokens: only rotations that overlapped trade the same one.  *)

\* What a step of a request does to the current tokens, and to the token it is trading.
FamilyMoves(r) ==
    /\ \A s \in Opened' \ Opened : sessions'[s].current = None
    /\ \A s \in Opened :
          \/ sessions'[s].current = sessions[s].current
          \/ sessions'[s].current = r /\ pc[r] \in {"persist", "write"}
    /\ pc[r] = "write" /\ r \in DOMAIN tokens' =>
          sessions'[tokens[local[r].token].session].current = r
    /\ pc'[r] \in {"lineage", "write"} =>
          \/ pc[r] = "lineage" /\ local'[r].token = local[r].token
          \/ /\ pc[r] = "idle" /\ local'[r].token \in DOMAIN tokens
             /\ sessions[tokens[local'[r].token].session].current = local'[r].token

LEMMA SessionFamilies ==
    ASSUME AInv, NEW r \in Requests, SignIn(r) \/ SessionStep(r), UNCHANGED <<codeVars, historyVars>>
    PROVE  FamilyMoves(r)
  <1> USE KnownTypes DEF FamilyMoves, Goto, Enter, Advance, Answer, Idle
  <1>m. OneMoves(r) /\ Standing(r) /\ (r \in DOMAIN tokens => pc[r] \in PastToken)
    BY SessionMoves DEF codeVars, AInv, Standing
  <1>s. /\ Opened = DOMAIN sessions
        /\ pc[r] = "write" => local[r].token \in DOMAIN tokens
    BY <1>m DEF Opened, Standing
  <1>1. CASE SignIn(r)
    <2>1. UNCHANGED <<sessions, tokens>> /\ pc'[r] \notin {"lineage", "write"}
      BY <1>m, <1>1 DEF SignIn, sessionVars
    <2>2. QED
      BY <1>m, <2>1 DEF Opened, PastToken
  <1>2. CASE CreateSession(r)
    <2>1. Opened' = Opened \cup {r} /\ r \notin Opened /\ pc[r] = "create" /\ pc'[r] = "persist"
      BY <1>m, <1>2 DEF CreateSession, Opened, Standing, PastCreation
    <2>2. \A s \in Opened' : sessions'[s] = IF s = r THEN NewSession ELSE sessions[s]
      BY <1>2, <2>1 DEF CreateSession
    <2>3. QED
      BY <2>1, <2>2 DEF NewSession
  <1>3. CASE StoreFirstToken(r)
    <2>1. r \in Opened /\ pc[r] = "persist" /\ pc'[r] = "list"
      BY <1>m, <1>3 DEF StoreFirstToken, Standing
    <2>2. sessions' = [sessions EXCEPT ![r].current = r]
      BY <1>3 DEF StoreFirstToken
    <2>3. /\ Opened' = Opened /\ sessions[r] \in Session
          /\ \A s \in Opened \ {r} : sessions'[s] = sessions[s]
          /\ sessions'[r] = [sessions[r] EXCEPT !.current = r]
      BY <2>1, <2>2 DEF Opened, AInv, AccountTypeOK, RowsTyped
    <2>4. sessions'[r].current = r
      BY <2>3 DEF Session
    <2>5. QED
      BY <2>1, <2>3, <2>4
  <1>4. CASE ListSessions(r)
    <2>1. UNCHANGED <<sessions, tokens>> /\ pc'[r] \notin {"lineage", "write"}
      BY <1>m, <1>4 DEF ListSessions, sessionVars
    <2>2. QED
      BY <1>m, <2>1 DEF Opened, PastToken
  <1>5. CASE TrimSessions(r)
    <2>1. PICK gone : sessions' = Revoked(gone)
      BY <1>5 DEF TrimSessions
    <2>2. Opened' = Opened /\ \A s \in Opened : sessions'[s].current = sessions[s].current
      BY <2>1, RevokedType DEF Opened
    <2>3. pc'[r] \notin {"lineage", "write"} /\ pc[r] # "write"
      BY <1>m, <1>5 DEF TrimSessions
    <2>4. QED
      BY <2>2, <2>3
  <1>6. CASE BeginRotation(r)
    <2>1. PICK t \in Delivered :
             \/ /\ pc'[r] = "lineage"
                /\ local'[r] = [Blank EXCEPT !.token = t]
                /\ ~Reused(t)
             \/ pc'[r] = "family"
      BY <1>6 DEF BeginRotation
    <2>2. pc[r] = "idle" /\ UNCHANGED <<sessions, tokens>> /\ Opened' = Opened
      BY <1>6 DEF BeginRotation, sessionVars, Opened
    <2>3. t \in DOMAIN tokens /\ t \in SignIns
      BY DEF Delivered, AInv, AccountTypeOK, RowsTyped
    <2>4. [Blank EXCEPT !.token = t].token = t
      BY <2>3, NotedToken
    <2>5. ~Reused(t) => sessions[tokens[t].session].current = t
      BY DEF Reused
    <2>6. CASE pc'[r] = "family"
      BY <2>2, <2>6
    <2>7. CASE local'[r] = [Blank EXCEPT !.token = t] /\ ~Reused(t)
      <3>1. local'[r].token = t
        BY <2>4, <2>7
      <3>2. QED
        BY <2>2, <2>3, <2>5, <2>7, <3>1
    <2>8. QED
      BY <2>1, <2>6, <2>7
  <1>7. CASE ReadLineage(r)
    <2>1. /\ pc[r] = "lineage" /\ pc'[r] = "write" /\ UNCHANGED <<sessions, tokens>>
          /\ Opened' = Opened
          /\ local'[r] = [local[r] EXCEPT !.consumed =
                                             sessions[tokens[local[r].token].session].consumed]
      BY <1>7 DEF ReadLineage, sessionVars, Opened
    <2>2. local[r] \in Memory /\ sessions[tokens[local[r].token].session].consumed \in Seq(SignIns)
      BY <1>m, <2>1 DEF Standing
    <2>3. local'[r].token = local[r].token
      BY <2>1, <2>2, NotedToken
    <2>4. QED
      BY <2>1, <2>3
  <1>8. CASE WriteRotation(r)
    <2> DEFINE t == local[r].token
               s == tokens[t].session
    <2>1. pc[r] = "write" /\ pc'[r] = "done" /\ t \in DOMAIN tokens /\ s \in Opened
      BY <1>s, <1>8 DEF WriteRotation
    <2>2. /\ \A x \in Opened \ {s} : sessions'[x] = sessions[x]
          /\ Opened' = Opened
          /\ sessions'[s] = [sessions[s] EXCEPT !.current = r,
                                !.generation = tokens[t].generation + 1,
                                !.consumed = Remembered(local[r].consumed, t)]
      BY <2>1, <1>8 DEF WriteRotation, Opened, AInv, AccountTypeOK, RowsTyped
    <2>3. sessions[s] \in Session
      BY <2>1 DEF AInv, AccountTypeOK, RowsTyped
    <2>4. sessions'[s].current = r
      BY <2>2, <2>3 DEF Session
    <2>5. QED
      BY <2>1, <2>2, <2>4
  <1>9. CASE RevokeFamily(r)
    <2>1. PICK gone : sessions' = Revoked(gone)
      BY <1>9 DEF RevokeFamily
    <2>2. Opened' = Opened /\ \A s \in Opened : sessions'[s].current = sessions[s].current
      BY <2>1, RevokedType DEF Opened
    <2>3. pc'[r] \notin {"lineage", "write"} /\ pc[r] # "write"
      BY <1>m, <1>9 DEF RevokeFamily
    <2>4. QED
      BY <2>2, <2>3
  <1>10. CASE RevokeEveryone(r)
    <2>1. PICK gone : sessions' = Revoked(gone)
      BY <1>10 DEF RevokeEveryone
    <2>2. Opened' = Opened /\ \A s \in Opened : sessions'[s].current = sessions[s].current
      BY <2>1, RevokedType DEF Opened
    <2>3. pc'[r] \notin {"lineage", "write"} /\ pc[r] # "write"
      BY <1>m, <1>10 DEF RevokeEveryone
    <2>4. QED
      BY <2>2, <2>3
  <1>11. CASE RaiseVersion(r)
    <2>1. UNCHANGED <<sessions, tokens>> /\ pc'[r] \notin {"lineage", "write"}
      BY <1>m, <1>11 DEF RaiseVersion, sessionVars
    <2>2. QED
      BY <1>m, <2>1 DEF Opened, PastToken
  <1>12. CASE SignOut(r)
    <2>1. PICK gone : sessions' = Revoked(gone)
      BY <1>12 DEF SignOut
    <2>2. Opened' = Opened /\ \A s \in Opened : sessions'[s].current = sessions[s].current
      BY <2>1, RevokedType DEF Opened
    <2>3. pc'[r] \notin {"lineage", "write"} /\ pc[r] # "write"
      BY <1>m, <1>12 DEF SignOut
    <2>4. QED
      BY <2>2, <2>3
  <1>13. CASE SignOutOthers(r)
    <2>1. PICK gone : sessions' = Revoked(gone)
      BY <1>13 DEF SignOutOthers
    <2>2. Opened' = Opened /\ \A s \in Opened : sessions'[s].current = sessions[s].current
      BY <2>1, RevokedType DEF Opened
    <2>3. pc'[r] \notin {"lineage", "write"} /\ pc[r] # "write"
      BY <1>m, <1>13 DEF SignOutOthers
    <2>4. QED
      BY <2>2, <2>3
  <1>14. CASE BeginSignOutAll(r)
    <2>1. UNCHANGED <<sessions, tokens>> /\ pc'[r] \notin {"lineage", "write"}
      BY <1>m, <1>14 DEF BeginSignOutAll, sessionVars
    <2>2. QED
      BY <1>m, <2>1 DEF Opened, PastToken
  <1>15. CASE SweepSessions(r)
    <2>1. PICK gone : sessions' = Revoked(gone)
      BY <1>15 DEF SweepSessions
    <2>2. Opened' = Opened /\ \A s \in Opened : sessions'[s].current = sessions[s].current
      BY <2>1, RevokedType DEF Opened
    <2>3. pc'[r] \notin {"lineage", "write"} /\ pc[r] # "write"
      BY <1>m, <1>15 DEF SweepSessions
    <2>4. QED
      BY <2>2, <2>3
  <1>16. CASE Fail(r)
    <2>1. UNCHANGED <<sessions, tokens>> /\ pc'[r] \notin {"lineage", "write"}
      BY <1>m, <1>16 DEF Fail, sessionVars
    <2>2. QED
      BY <1>m, <2>1 DEF Opened, PastToken
  <1>17. QED
    BY <1>1, <1>2, <1>3, <1>4, <1>5, <1>6, <1>7, <1>8, <1>9, <1>10, <1>11, <1>12, <1>13, <1>14, <1>15, <1>16 DEF SessionStep

LEMMA CredentialFamilies ==
    ASSUME AInv, NEW r \in Requests, AccountStep(r)
    PROVE  FamilyMoves(r)
  <1>1. sessions' = sessions \/ sessions' = Revoked(Opened)
    BY DEF AccountStep, BeginSend, MarkCodes, IssueCode, BeginCode, CountGuess, SpendCode,
           ConsumeLoginCode, ResetPassword, BeginChange, ChangePassword, ReplacePassword, sessionVars
  <1>2. Opened' = Opened /\ \A s \in Opened : sessions'[s].current = sessions[s].current
    BY <1>1, RevokedType DEF Opened
  <1>3. pc[r] # "write" /\ pc'[r] \notin {"lineage", "write"}
    BY KnownTypes DEF AccountStep, BeginSend, MarkCodes, IssueCode, BeginCode, CountGuess, SpendCode,
           ConsumeLoginCode, ResetPassword, BeginChange, ChangePassword,
           Goto, Enter, Advance, Answer, Idle
  <1>4. QED
    BY <1>2, <1>3 DEF FamilyMoves

\* No token that was traded is current, and no rotation is about to trade one that was
\* traded by a request that had been answered when it began.
ForkInv ==
    /\ \A t \in DOMAIN tokens : tokens[t].parent # None =>
          /\ tokens[t].parent \in DOMAIN tokens
          /\ tokens[tokens[t].parent].session = tokens[t].session
          /\ sessions[tokens[t].session].current # tokens[t].parent
    /\ \A r \in Requests : pc[r] \in {"lineage", "write"} =>
          \A p \in past[r] \cap DOMAIN tokens : tokens[p].parent # local[r].token
    /\ ForksOverlap

LEMMA InitForks == AccountInit => ForkInv
  BY DEF AccountInit, Init, ForkInv, ForksOverlap, FirstToken

LEMMA StepForks ==
    ASSUME AInv, ForkInv, NEW r \in Requests, OneMoves(r), TokensGrow(r), FamilyMoves(r)
    PROVE  ForkInv'
  <1>a. /\ \A q \in Requests : q # r => /\ pc'[q] = pc[q] /\ local'[q] = local[q]
                                         /\ past'[q] = past[q]
        /\ pc[r] # "idle" => past'[r] = past[r]
        /\ \A q \in Requests : r \notin past'[q]
        /\ \A q \in Requests : past'[q] \subseteq Requests
    BY KnownTypes DEF OneMoves, AInv, Answered
  <1>b. DOMAIN tokens \subseteq SignIns /\ None \notin SignIns
    BY SessionAssumption DEF AInv, AccountTypeOK, RowsTyped
  <1>c. ASSUME NEW t \in DOMAIN tokens', t \notin DOMAIN tokens, tokens'[t].parent # None
        PROVE  /\ t = r /\ pc[r] = "write" /\ tokens'[r].parent = local[r].token
               /\ local[r].token \in DOMAIN tokens /\ r \notin DOMAIN tokens
               /\ tokens'[r].session = tokens[local[r].token].session
    BY <1>c DEF TokensGrow
  <1>d. \A t \in DOMAIN tokens : t \in DOMAIN tokens' /\ tokens'[t] = tokens[t]
    BY DEF TokensGrow
  <1>1. ASSUME NEW t \in DOMAIN tokens', tokens'[t].parent # None
        PROVE  /\ tokens'[t].parent \in DOMAIN tokens'
               /\ tokens'[tokens'[t].parent].session = tokens'[t].session
               /\ sessions'[tokens'[t].session].current # tokens'[t].parent
    <2>1. CASE t \in DOMAIN tokens
      <3> DEFINE p == tokens[t].parent
                 s == tokens[t].session
      <3>1. /\ tokens'[t] = tokens[t] /\ p \in DOMAIN tokens /\ tokens'[p] = tokens[p]
            /\ tokens[p].session = s /\ sessions[s].current # p /\ p \in DOMAIN tokens'
            /\ s \in Opened
        BY <1>1, <1>d, <2>1, KnownTypes DEF ForkInv
      <3>2. pc[r] \in {"persist", "write"} => p # r
        BY <3>1 DEF AInv, Standing, PastToken
      <3>3. sessions'[s].current # p
        BY <3>1, <3>2 DEF FamilyMoves
      <3>4. QED
        BY <3>1, <3>3
    <2>2. CASE t \notin DOMAIN tokens
      <3>1. sessions'[tokens[local[r].token].session].current = r
        BY <1>1, <1>c, <2>2 DEF FamilyMoves
      <3>2. QED
        BY <1>1, <1>c, <1>d, <2>2, <3>1
    <2>3. QED
      BY <2>1, <2>2
  <1>2. ASSUME NEW q \in Requests, pc'[q] \in {"lineage", "write"},
               NEW p \in past'[q] \cap DOMAIN tokens'
        PROVE  tokens'[p].parent # local'[q].token
    <2>1. p # r /\ p \in DOMAIN tokens /\ tokens'[p] = tokens[p]
      BY <1>a, <1>d, <1>2 DEF TokensGrow
    <2>2. CASE q # r
      BY <1>a, <1>2, <2>1, <2>2 DEF ForkInv
    <2>3. CASE q = r /\ pc[r] = "lineage"
      BY <1>a, <1>2, <2>1, <2>3 DEF ForkInv, FamilyMoves
    <2>4. CASE q = r /\ pc[r] # "lineage"
      <3>1. /\ local'[r].token \in DOMAIN tokens
            /\ sessions[tokens[local'[r].token].session].current = local'[r].token
        BY <1>2, <2>4 DEF FamilyMoves
      <3>2. QED
        BY <1>b, <2>1, <2>4, <3>1 DEF ForkInv
    <2>5. QED
      BY <2>2, <2>3, <2>4
  <1>3. ASSUME NEW p \in DOMAIN tokens' \ {Earlier}, NEW q \in DOMAIN tokens' \ {Earlier},
               p # q, tokens'[p].parent = tokens'[q].parent, tokens'[p].parent # None
        PROVE  p \notin past'[q]
    <2>0. p \in Requests /\ q \in Requests
      BY <1>b, <1>3 DEF SignIns, TokensGrow
    <2>1. CASE p = r
      BY <1>a, <2>0, <2>1
    <2>2. CASE p # r /\ q \in DOMAIN tokens
      <3>1. p \in DOMAIN tokens /\ tokens'[p] = tokens[p] /\ tokens'[q] = tokens[q]
        BY <1>d, <1>3, <2>2 DEF TokensGrow
      <3>2. past'[q] = past[q]
        BY <1>a, <2>0, <2>2 DEF AInv, Standing, PastToken
      <3>3. /\ p \in DOMAIN tokens \ {Earlier} /\ q \in DOMAIN tokens \ {Earlier}
            /\ tokens[p].parent = tokens[q].parent /\ tokens[p].parent # None
        BY <1>3, <2>2, <3>1
      <3>4. p \notin past[q]
        BY <1>3, <3>3 DEF ForkInv, ForksOverlap
      <3>5. QED
        BY <3>2, <3>4
    <2>3. CASE p # r /\ q \notin DOMAIN tokens
      <3>1. p \in DOMAIN tokens /\ tokens'[p] = tokens[p]
        BY <1>d, <1>3, <2>3 DEF TokensGrow
      <3>2. q = r /\ pc[r] = "write" /\ tokens'[q].parent = local[r].token
        BY <1>c, <1>3, <2>3
      <3>3. past'[r] = past[r]
        BY <1>a, <3>2
      <3>4. QED
        BY <1>3, <3>1, <3>2, <3>3 DEF ForkInv
    <2>4. QED
      BY <2>1, <2>2, <2>3
  <1>4. QED
    BY <1>1, <1>2, <1>3 DEF ForkInv, ForksOverlap

LEMMA NextForks ==
    ASSUME AInv, ForkInv, [AccountNext]_accountVars
    PROVE  ForkInv'
  <1>1. CASE CooldownPasses
    BY <1>1, AgedType DEF ForkInv, ForksOverlap
  <1>2. CASE \E r \in Requests : AccountStep(r)
    BY <1>2, AccountMoves, CredentialVersions, CredentialFamilies, StepForks
  <1>3. CASE \E r \in Requests : (SignIn(r) \/ SessionStep(r)) /\ UNCHANGED <<codeVars, historyVars>>
    BY <1>3, SessionMoves, SessionVersions, SessionFamilies, StepForks
  <1>4. CASE UNCHANGED accountVars
    BY <1>4 DEF ForkInv, ForksOverlap, accountVars, vars, sessionVars, requestVars
  <1>5. QED
    BY <1>1, <1>2, <1>3, <1>4 DEF AccountNext

\* One refresh token is traded twice: never by a rotation that begins when the other was
\* answered.
THEOREM ForksOverlapAlways == AccountSpec => []ForksOverlap
  <1>1. AccountInit => AInv /\ ForkInv
    BY InitTypes, InitForks
  <1>2. AInv /\ ForkInv /\ [AccountNext]_accountVars => (AInv /\ ForkInv)'
    BY NextTypes, NextForks
  <1>3. AInv /\ ForkInv => ForksOverlap
    BY DEF ForkInv
  <1>4. QED
    BY <1>1, <1>2, <1>3, PTL DEF AccountSpec

-----------------------------------------------------------------------------
(* The limit of sessions.                                                  *)

\* Which of two sessions was active last orders them.
SinceInv ==
    /\ \A s \in Opened : s \notin since[s]
    /\ \A s, t \in Opened : s # t => s \in since[t] \/ t \in since[s]
    /\ \A s, t \in Opened : s \in since[t] => since[s] \subseteq since[t]

Trimming == {r \in Requests : pc[r] = "trim"}

\* The sessions that some of the requests about to trim will revoke.
Doomed(R) == UNION {local[r].surplus : r \in R}

\* Whichever of the requests that are about to trim do so, the limit holds then.
LimitInv ==
    \A R \in SUBSET Trimming :
        Cardinality(Live \ Doomed(R)) <= MaxSessions + Cardinality(Unlimited \ R)

\* Sessions and requests are finitely many.
LEMMA FiniteRows ==
    ASSUME AInv
    PROVE  /\ IsFiniteSet(SignIns) /\ IsFiniteSet(Requests) /\ IsFiniteSet(Opened)
           /\ \A S \in SUBSET SignIns : IsFiniteSet(S) /\ Cardinality(S) \in Nat
           /\ \A S \in SUBSET SignIns : \A T \in SUBSET S : Cardinality(T) <= Cardinality(S)
  <1>1. IsFiniteSet(SignIns) /\ IsFiniteSet(Requests)
    BY SessionAssumption, FS_AddElement DEF SignIns
  <1>2. Opened \subseteq SignIns
    BY DEF AInv, AccountTypeOK, RowsTyped
  <1>3. \A S \in SUBSET SignIns : IsFiniteSet(S) /\ Cardinality(S) \in Nat
    BY <1>1, FS_Subset, FS_CardinalityType
  <1>4. \A S \in SUBSET SignIns : \A T \in SUBSET S : Cardinality(T) <= Cardinality(S)
    BY <1>3, FS_Subset
  <1>5. QED
    BY <1>1, <1>2, <1>3, <1>4

\* The sessions that a request keeps when it lists them are within the limit.
LEMMA KeptFit ==
    ASSUME AInv, SinceInv
    PROVE  Cardinality(Live \ Surplus) <= MaxSessions
  <1> DEFINE K == Live \ Surplus
  <1>1. /\ K \subseteq Opened /\ IsFiniteSet(K) /\ Live \subseteq SignIns /\ K \subseteq Live
        /\ since \in [Opened -> SUBSET Opened]
    BY FiniteRows, FS_Subset DEF Live, AInv, AccountTypeOK, RowsTyped
  <1>2. MaxSessions \in Nat \ {0}
    BY SessionAssumption
  <1>3. CASE K = {}
    BY <1>2, <1>3, FS_EmptySet
  <1>4. CASE K # {}
    <2>1. PICK s \in K : K \ {s} \subseteq since[s]
      <3> HIDE DEF K
      <3>1. /\ \A s \in K : s \notin since[s]
            /\ \A s, t \in K : s # t => s \in since[t] \/ t \in since[s]
            /\ \A s, t \in K : s \in since[t] => since[s] \subseteq since[t]
        BY <1>1 DEF SinceInv
      <3>2. QED
        BY <1>1, <1>4, <3>1, FirstInOrder
    <2>2. K \ {s} \subseteq Ahead(s) /\ Ahead(s) \subseteq SignIns /\ s \in Live
      BY <1>1, <2>1 DEF Ahead
    <2>3. /\ Cardinality(Ahead(s)) \in Nat /\ Cardinality(K \ {s}) <= Cardinality(Ahead(s))
          /\ ~(Cardinality(Ahead(s)) >= MaxSessions)
      BY <2>2, FiniteRows DEF Surplus
    <2>4. Cardinality(K \ {s}) = Cardinality(K) - 1 /\ Cardinality(K) \in Nat
      BY <1>1, FS_RemoveElement, FS_CardinalityType
    <2>5. QED
      BY <1>2, <2>3, <2>4
  <1>5. QED
    BY <1>3, <1>4

\* What a step of a request does to the order of the sessions.
SinceMoves(r) ==
    \/ Opened' = Opened /\ since' = since
    \/ \E s \in Opened \cup {r} : Opened' = Opened \cup {s} /\ since' = Touched(s)

\* And to the sessions that are live and those about to be trimmed.
LimitMoves(r) ==
    \/ /\ Live' \subseteq Live /\ Opened' = Opened /\ pc'[r] # "trim"
       /\ pc'[r] = "done" => pc[r] \notin {"persist", "list", "trim", "lost"}
       /\ pc[r] \in {"persist", "list", "trim", "lost"} =>
             pc'[r] \in {"persist", "list", "trim", "lost"}
    \/ /\ r \notin Opened /\ Opened' = Opened \cup {r} /\ Live' \subseteq Live \cup {r}
       /\ pc[r] = "create" /\ pc'[r] = "persist"
    \/ /\ Live' = Live /\ Opened' = Opened /\ pc[r] = "list"
       /\ \/ Surplus = {} /\ pc'[r] = "done"
          \/ pc'[r] = "trim" /\ local'[r].surplus = Surplus
    \/ /\ Live' \subseteq Live \ local[r].surplus /\ Opened' = Opened
       /\ pc[r] = "trim" /\ pc'[r] = "done"

LEMMA SessionLimits ==
    ASSUME AInv, NEW r \in Requests, SignIn(r) \/ SessionStep(r), UNCHANGED <<codeVars, historyVars>>
    PROVE  SinceMoves(r) /\ LimitMoves(r)
  <1> USE KnownTypes DEF Goto, Enter, Advance, Answer, Idle
  <1>m. OneMoves(r) /\ Standing(r) /\ sessions \in [Opened -> Session]
    BY SessionMoves DEF codeVars, AInv, AccountTypeOK, RowsTyped
  <1>r. ASSUME NEW gone, sessions' = Revoked(gone)
        PROVE  Opened' = Opened /\ Live' \subseteq Live \ gone
    BY <1>r, RevokedType DEF Opened, Live
  <1>1. CASE SignIn(r)
    <2>1. /\ UNCHANGED <<sessions, since>> /\ pc'[r] # "trim"
          /\ pc[r] \in {"idle", "lineage", "bump"}
      BY <1>m, <1>1 DEF SignIn, sessionVars
    <2>2. QED
      BY <2>1 DEF SinceMoves, LimitMoves, Opened, Live
  <1>2. CASE CreateSession(r)
    <2>1. Opened' = Opened \cup {r} /\ r \notin Opened /\ pc[r] = "create" /\ pc'[r] = "persist"
      BY <1>m, <1>2 DEF CreateSession, Opened, Standing, PastCreation
    <2>2. \A s \in Opened' : sessions'[s] = IF s = r THEN NewSession ELSE sessions[s]
      BY <1>2, <2>1 DEF CreateSession
    <2>3. Live' \subseteq Live \cup {r} /\ since' = Touched(r)
      BY <1>2, <2>1, <2>2 DEF CreateSession, Live
    <2>4. QED
      BY <2>1, <2>3 DEF SinceMoves, LimitMoves
  <1>3. CASE StoreFirstToken(r)
    <2>1. r \in Opened /\ pc[r] = "persist" /\ pc'[r] = "list" /\ since' = Touched(r)
      BY <1>m, <1>3 DEF StoreFirstToken, Standing
    <2>2. sessions' = [sessions EXCEPT ![r].current = r]
      BY <1>3 DEF StoreFirstToken
    <2>3. /\ Opened' = Opened /\ sessions[r] \in Session
          /\ \A s \in Opened \ {r} : sessions'[s] = sessions[s]
          /\ sessions'[r] = [sessions[r] EXCEPT !.current = r]
      BY <1>m, <2>1, <2>2 DEF Opened
    <2>4. sessions'[r].live = sessions[r].live
      BY <2>3 DEF Session
    <2>5. Live' \subseteq Live
      BY <2>3, <2>4 DEF Live
    <2>6. QED
      BY <2>1, <2>3, <2>5 DEF SinceMoves, LimitMoves
  <1>4. CASE ListSessions(r)
    <2>1. UNCHANGED <<sessions, since>> /\ pc[r] = "list"
      BY <1>m, <1>4 DEF ListSessions, sessionVars
    <2>2. \/ Surplus = {} /\ pc'[r] = "done"
          \/ pc'[r] = "trim" /\ local'[r] = [Blank EXCEPT !.surplus = Surplus]
      BY <1>4 DEF ListSessions
    <2>3. [Blank EXCEPT !.surplus = Surplus].surplus = Surplus
      BY DEF Blank
    <2>4. \/ Surplus = {} /\ pc'[r] = "done"
          \/ pc'[r] = "trim" /\ local'[r].surplus = Surplus
      BY <2>2, <2>3
    <2>5. QED
      BY <2>1, <2>4 DEF SinceMoves, LimitMoves, Opened, Live
  <1>5. CASE TrimSessions(r)
    <2>1. /\ sessions' = Revoked(local[r].surplus) /\ since' = since
          /\ pc[r] = "trim" /\ pc'[r] = "done"
      BY <1>5 DEF TrimSessions
    <2>2. QED
      BY <1>r, <2>1 DEF SinceMoves, LimitMoves
  <1>6. CASE BeginRotation(r)
    <2>1. /\ UNCHANGED <<sessions, since>> /\ pc'[r] # "trim"
          /\ pc[r] \in {"idle", "lineage", "bump"}
      BY <1>m, <1>6 DEF BeginRotation, sessionVars
    <2>2. QED
      BY <2>1 DEF SinceMoves, LimitMoves, Opened, Live
  <1>7. CASE ReadLineage(r)
    <2>1. /\ UNCHANGED <<sessions, since>> /\ pc'[r] # "trim"
          /\ pc[r] \in {"idle", "lineage", "bump"}
      BY <1>m, <1>7 DEF ReadLineage, sessionVars
    <2>2. QED
      BY <2>1 DEF SinceMoves, LimitMoves, Opened, Live
  <1>8. CASE WriteRotation(r)
    <2> DEFINE t == local[r].token
               s == tokens[t].session
    <2>1. pc[r] = "write" /\ pc'[r] = "done" /\ t \in DOMAIN tokens
      BY <1>m, <1>8 DEF WriteRotation, Standing
    <2>a. s \in Opened
      BY <2>1
    <2>2. /\ \A x \in Opened \ {s} : sessions'[x] = sessions[x]
          /\ Opened' = Opened
          /\ sessions'[s] = [sessions[s] EXCEPT !.current = r,
                                !.generation = tokens[t].generation + 1,
                                !.consumed = Remembered(local[r].consumed, t)]
      BY <1>m, <2>a, <1>8 DEF WriteRotation, Opened
    <2>3. sessions[s] \in Session
      BY <1>m, <2>a
    <2>4. sessions'[s].live = sessions[s].live
      BY <2>2, <2>3 DEF Session
    <2>5. Live' \subseteq Live
      BY <2>2, <2>4 DEF Live
    <2>6. since' = Touched(s)
      BY <1>8 DEF WriteRotation
    <2>7. SinceMoves(r)
      BY <2>a, <2>2, <2>6 DEF SinceMoves
    <2>8. QED
      BY <2>1, <2>2, <2>5, <2>7 DEF LimitMoves
  <1>9. CASE RevokeFamily(r)
    <2>1. PICK gone : sessions' = Revoked(gone)
      BY <1>9 DEF RevokeFamily
    <2>2. /\ since' = since /\ pc'[r] # "trim"
          /\ pc[r] \in {"idle", "family", "everyone", "sweep"}
      BY <1>m, <1>9 DEF RevokeFamily
    <2>3. QED
      BY <1>r, <2>1, <2>2 DEF SinceMoves, LimitMoves
  <1>10. CASE RevokeEveryone(r)
    <2>1. PICK gone : sessions' = Revoked(gone)
      BY <1>10 DEF RevokeEveryone
    <2>2. /\ since' = since /\ pc'[r] # "trim"
          /\ pc[r] \in {"idle", "family", "everyone", "sweep"}
      BY <1>m, <1>10 DEF RevokeEveryone
    <2>3. QED
      BY <1>r, <2>1, <2>2 DEF SinceMoves, LimitMoves
  <1>11. CASE RaiseVersion(r)
    <2>1. /\ UNCHANGED <<sessions, since>> /\ pc'[r] # "trim"
          /\ pc[r] \in {"idle", "lineage", "bump"}
      BY <1>m, <1>11 DEF RaiseVersion, sessionVars
    <2>2. QED
      BY <2>1 DEF SinceMoves, LimitMoves, Opened, Live
  <1>12. CASE SignOut(r)
    <2>1. PICK gone : sessions' = Revoked(gone)
      BY <1>12 DEF SignOut
    <2>2. /\ since' = since /\ pc'[r] # "trim"
          /\ pc[r] \in {"idle", "family", "everyone", "sweep"}
      BY <1>m, <1>12 DEF SignOut
    <2>3. QED
      BY <1>r, <2>1, <2>2 DEF SinceMoves, LimitMoves
  <1>13. CASE SignOutOthers(r)
    <2>1. PICK gone : sessions' = Revoked(gone)
      BY <1>13 DEF SignOutOthers
    <2>2. /\ since' = since /\ pc'[r] # "trim"
          /\ pc[r] \in {"idle", "family", "everyone", "sweep"}
      BY <1>m, <1>13 DEF SignOutOthers
    <2>3. QED
      BY <1>r, <2>1, <2>2 DEF SinceMoves, LimitMoves
  <1>14. CASE BeginSignOutAll(r)
    <2>1. /\ UNCHANGED <<sessions, since>> /\ pc'[r] # "trim"
          /\ pc[r] \in {"idle", "lineage", "bump"}
      BY <1>m, <1>14 DEF BeginSignOutAll, sessionVars
    <2>2. QED
      BY <2>1 DEF SinceMoves, LimitMoves, Opened, Live
  <1>15. CASE SweepSessions(r)
    <2>1. PICK gone : sessions' = Revoked(gone)
      BY <1>15 DEF SweepSessions
    <2>2. /\ since' = since /\ pc'[r] # "trim"
          /\ pc[r] \in {"idle", "family", "everyone", "sweep"}
      BY <1>m, <1>15 DEF SweepSessions
    <2>3. QED
      BY <1>r, <2>1, <2>2 DEF SinceMoves, LimitMoves
  <1>16. CASE Fail(r)
    <2>1. UNCHANGED <<sessions, since>> /\ pc'[r] = "lost"
      BY <1>m, <1>16 DEF Fail, sessionVars
    <2>2. QED
      BY <2>1 DEF SinceMoves, LimitMoves, Opened, Live
  <1>17. QED
    BY <1>1, <1>2, <1>3, <1>4, <1>5, <1>6, <1>7, <1>8, <1>9, <1>10, <1>11, <1>12, <1>13, <1>14, <1>15, <1>16 DEF SessionStep

LEMMA CredentialLimits ==
    ASSUME AInv, NEW r \in Requests, AccountStep(r)
    PROVE  SinceMoves(r) /\ LimitMoves(r)
  <1>1. (sessions' = sessions \/ sessions' = Revoked(Opened)) /\ since' = since
    BY DEF AccountStep, BeginSend, MarkCodes, IssueCode, BeginCode, CountGuess, SpendCode,
           ConsumeLoginCode, ResetPassword, BeginChange, ChangePassword, ReplacePassword, sessionVars
  <1>2. Opened' = Opened /\ Live' \subseteq Live
    <2>1. CASE sessions' = sessions
      BY <2>1 DEF Opened, Live
    <2>2. CASE sessions' = Revoked(Opened)
      BY <2>2, RevokedType DEF Opened, Live
    <2>3. QED
      BY <1>1, <2>1, <2>2
  <1>3. /\ pc[r] \notin {"persist", "list", "trim", "lost"}
        /\ pc'[r] # "trim"
    BY KnownTypes DEF AccountStep, BeginSend, MarkCodes, IssueCode, BeginCode, CountGuess, SpendCode,
           ConsumeLoginCode, ResetPassword, BeginChange, ChangePassword,
           Goto, Enter, Advance, Answer, Idle
  <1>4. QED
    BY <1>1, <1>2, <1>3 DEF SinceMoves, LimitMoves

LEMMA InitLimits == AccountInit => SinceInv /\ LimitInv
  <1> SUFFICES ASSUME AccountInit
               PROVE  SinceInv /\ LimitInv
    OBVIOUS
  <1>1. Opened = {Earlier} /\ Trimming = {} /\ Live \subseteq {Earlier} /\ AInv
    BY InitTypes DEF AccountInit, Init, Opened, Trimming, Live
  <1>2. SinceInv
    BY <1>1 DEF AccountInit, Init, SinceInv
  <1>3. ASSUME NEW R \in SUBSET Trimming
        PROVE  Cardinality(Live \ Doomed(R)) <= MaxSessions + Cardinality(Unlimited \ R)
    <2>1. Live \ Doomed(R) \subseteq {Earlier} /\ {Earlier} \subseteq SignIns
          /\ Unlimited \ R \subseteq SignIns
      BY <1>1 DEF SignIns, Unlimited
    <2>2. /\ Cardinality(Live \ Doomed(R)) <= 1 /\ Cardinality(Unlimited \ R) \in Nat
          /\ Cardinality(Live \ Doomed(R)) \in Nat
      BY <1>1, <2>1, FiniteRows, FS_Singleton
    <2>3. QED
      BY <2>2, SessionAssumption
  <1>4. QED
    BY <1>2, <1>3 DEF LimitInv

LEMMA StepSince ==
    ASSUME AInv, SinceInv, NEW r \in Requests, SinceMoves(r)
    PROVE  SinceInv'
  <1>1. CASE Opened' = Opened /\ since' = since
    BY <1>1 DEF SinceInv
  <1>2. ASSUME NEW s \in Opened \cup {r}, Opened' = Opened \cup {s}, since' = Touched(s)
        PROVE  SinceInv'
    <2>1. /\ since'[s] = {}
          /\ \A x \in Opened \ {s} : since'[x] = since[x] \cup {s}
      BY <1>2 DEF Touched
    <2>2. since \in [Opened -> SUBSET Opened]
      BY DEF AInv, AccountTypeOK, RowsTyped
    <2>3. \A x \in Opened' : x \notin since'[x]
      BY <1>2, <2>1 DEF SinceInv
    <2>4. \A x, y \in Opened' : x # y => x \in since'[y] \/ y \in since'[x]
      BY <1>2, <2>1 DEF SinceInv
    <2>5. ASSUME NEW x \in Opened', NEW y \in Opened', x \in since'[y]
          PROVE  since'[x] \subseteq since'[y]
      <3>1. CASE x = s
        BY <2>1, <3>1
      <3>2. CASE x # s
        <4>1. y # s
          BY <2>1, <2>5
        <4>2. x \in Opened /\ y \in Opened /\ x \in since[y]
          BY <1>2, <2>1, <2>5, <3>2, <4>1
        <4>3. QED
          BY <2>1, <3>2, <4>1, <4>2 DEF SinceInv
      <3>3. QED
        BY <3>1, <3>2
    <2>6. QED
      BY <2>3, <2>4, <2>5 DEF SinceInv
  <1>3. QED
    BY <1>1, <1>2 DEF SinceMoves

LEMMA StepLimit ==
    ASSUME AInv, SinceInv, LimitInv, NEW r \in Requests, OneMoves(r), LimitMoves(r), AInv'
    PROVE  LimitInv'
  <1> SUFFICES ASSUME NEW R \in SUBSET Trimming'
               PROVE  Cardinality(Live' \ Doomed(R)') <= MaxSessions + Cardinality(Unlimited' \ R)
    BY DEF LimitInv
  <1>a. /\ pc'[r] \in AccountSteps
        /\ \A q \in Requests : q # r => /\ pc'[q] = pc[q] /\ local'[q] = local[q]
    BY KnownTypes DEF OneMoves, AInv, AccountTypeOK
  <1>b. /\ Live \subseteq SignIns /\ Live' \subseteq SignIns /\ Unlimited \subseteq SignIns
        /\ Unlimited' \subseteq SignIns /\ R \subseteq Requests /\ Opened \subseteq SignIns
        /\ Opened' \subseteq SignIns
    BY DEF Live, Unlimited, AInv, AccountTypeOK, RowsTyped, Trimming
  <1>c. \A S \in SUBSET SignIns : IsFiniteSet(S) /\ Cardinality(S) \in Nat
    BY FiniteRows
  <1>d. \A S \in SUBSET SignIns : \A T \in SUBSET S : Cardinality(T) <= Cardinality(S)
    BY FiniteRows
  <1>e. r \notin R => R \in SUBSET Trimming /\ Doomed(R)' = Doomed(R)
    BY <1>a, <1>b DEF Trimming, Doomed
  <1>f. MaxSessions \in Nat
    BY SessionAssumption
  \* Fewer sessions live, and no request that has yet to enforce the limit less.
  <1>g. ASSUME NEW Q \in SUBSET Trimming, Live' \ Doomed(R)' \subseteq Live \ Doomed(Q),
               Unlimited \ Q \subseteq Unlimited' \ R
        PROVE  Cardinality(Live' \ Doomed(R)') <= MaxSessions + Cardinality(Unlimited' \ R)
    <2>1. Cardinality(Live \ Doomed(Q)) <= MaxSessions + Cardinality(Unlimited \ Q)
      BY DEF LimitInv
    <2>2. /\ Live \ Doomed(Q) \in SUBSET SignIns /\ Unlimited' \ R \in SUBSET SignIns
          /\ Unlimited \ Q \in SUBSET SignIns /\ Live' \ Doomed(R)' \in SUBSET SignIns
      BY <1>b
    <2>3. /\ Cardinality(Live' \ Doomed(R)') <= Cardinality(Live \ Doomed(Q))
          /\ Cardinality(Unlimited \ Q) <= Cardinality(Unlimited' \ R)
      BY <1>d, <1>g, <2>2
    <2>4. /\ Cardinality(Live' \ Doomed(R)') \in Nat /\ Cardinality(Live \ Doomed(Q)) \in Nat
          /\ Cardinality(Unlimited \ Q) \in Nat /\ Cardinality(Unlimited' \ R) \in Nat
      BY <1>c, <2>2
    <2>5. QED
      BY <1>f, <2>1, <2>3, <2>4
  <1>1. CASE /\ Live' \subseteq Live /\ Opened' = Opened /\ pc'[r] # "trim"
             /\ pc'[r] = "done" => pc[r] \notin {"persist", "list", "trim", "lost"}
             /\ pc[r] \in {"persist", "list", "trim", "lost"} =>
                   pc'[r] \in {"persist", "list", "trim", "lost"}
    <2>1. r \notin R
      BY <1>1 DEF Trimming
    <2>2. Unlimited \ R \subseteq Unlimited' \ R
      BY <1>a, <1>b, <1>1 DEF Unlimited, SignIns
    <2>3. QED
      BY <1>1, <1>e, <1>g, <2>1, <2>2
  <1>2. CASE /\ r \notin Opened /\ Opened' = Opened \cup {r} /\ Live' \subseteq Live \cup {r}
             /\ pc[r] = "create" /\ pc'[r] = "persist"
    <2>1. r \notin R
      BY <1>2 DEF Trimming
    <2>2. Unlimited' \ R = (Unlimited \ R) \cup {r} /\ r \notin Unlimited \ R
      BY <1>a, <1>b, <1>2, <2>1, SessionAssumption DEF Unlimited, SignIns
    <2>3. /\ Cardinality(Unlimited' \ R) = Cardinality(Unlimited \ R) + 1
          /\ Cardinality(Unlimited \ R) \in Nat
      BY <1>b, <1>c, <2>2, FS_AddElement
    <2>4. Cardinality(Live \ Doomed(R)) <= MaxSessions + Cardinality(Unlimited \ R)
      BY <1>e, <2>1 DEF LimitInv
    <2>5. Live' \ Doomed(R)' \subseteq (Live \ Doomed(R)) \cup {r}
      BY <1>2, <1>e, <2>1
    <2>6. /\ Cardinality((Live \ Doomed(R)) \cup {r}) <= Cardinality(Live \ Doomed(R)) + 1
          /\ Cardinality((Live \ Doomed(R)) \cup {r}) \in Nat /\ Cardinality(Live \ Doomed(R)) \in Nat
          /\ (Live \ Doomed(R)) \cup {r} \in SUBSET SignIns
      <3>1. Live \ Doomed(R) \in SUBSET SignIns /\ (Live \ Doomed(R)) \cup {r} \in SUBSET SignIns
        BY <1>b DEF SignIns
      <3>2. IsFiniteSet(Live \ Doomed(R))
        BY <1>c, <3>1
      <3>3. QED
        BY <1>c, <3>1, <3>2, FS_AddElement
    <2>7. /\ Cardinality(Live' \ Doomed(R)') <= Cardinality((Live \ Doomed(R)) \cup {r})
          /\ Cardinality(Live' \ Doomed(R)') \in Nat
      BY <1>b, <1>c, <1>d, <2>5, <2>6
    <2>8. QED
      BY <1>f, <2>3, <2>4, <2>6, <2>7
  \* The request that lists the sessions keeps no more than the limit allows.
  <1>h. ASSUME Live' \ Doomed(R)' \subseteq Live \ Surplus
        PROVE  Cardinality(Live' \ Doomed(R)') <= MaxSessions + Cardinality(Unlimited' \ R)
    <2>1. Cardinality(Live' \ Doomed(R)') <= Cardinality(Live \ Surplus)
      BY <1>b, <1>d, <1>h
    <2>2. /\ Cardinality(Live \ Surplus) \in Nat /\ Cardinality(Live' \ Doomed(R)') \in Nat
          /\ Cardinality(Unlimited' \ R) \in Nat
      BY <1>b, <1>c
    <2>3. QED
      BY <1>f, <2>1, <2>2, KeptFit
  <1>3. CASE Live' = Live /\ pc[r] = "list" /\ Surplus = {}
    BY <1>3, <1>h
  <1>4. CASE /\ Live' = Live /\ Opened' = Opened /\ pc[r] = "list"
             /\ pc'[r] = "trim" /\ local'[r].surplus = Surplus
    <2>1. CASE r \in R
      <3>1. Surplus \subseteq Doomed(R)'
        BY <1>4, <2>1 DEF Doomed
      <3>2. QED
        BY <1>4, <1>h, <3>1
    <2>2. CASE r \notin R
      <3>1. Unlimited \ R \subseteq Unlimited' \ R
        BY <1>a, <1>b, <1>4 DEF Unlimited, SignIns
      <3>2. QED
        BY <1>4, <1>e, <1>g, <2>2, <3>1
    <2>3. QED
      BY <2>1, <2>2
  <1>5. CASE /\ Live' \subseteq Live \ local[r].surplus /\ Opened' = Opened
             /\ pc[r] = "trim" /\ pc'[r] = "done"
    <2>1. r \notin R
      BY <1>5 DEF Trimming
    <2> DEFINE Q == R \cup {r}
    <2>2. Q \in SUBSET Trimming
      BY <1>5, <1>e, <2>1 DEF Trimming
    <2>3. Live' \ Doomed(R)' \subseteq Live \ Doomed(Q)
      BY <1>5, <1>e, <2>1 DEF Doomed
    <2>4. Unlimited \ Q \subseteq Unlimited' \ R
      BY <1>a, <1>b, <1>5 DEF Unlimited, SignIns
    <2> HIDE DEF Q
    <2>5. QED
      BY <1>g, <2>2, <2>3, <2>4
  <1>6. QED
    BY <1>1, <1>2, <1>3, <1>4, <1>5 DEF LimitMoves

LEMMA NextLimits ==
    ASSUME AInv, SinceInv, LimitInv, [AccountNext]_accountVars
    PROVE  SinceInv' /\ LimitInv'
  <1>1. CASE CooldownPasses
    BY <1>1, AgedType DEF SinceInv, LimitInv, Live, Opened, Doomed, Trimming, Unlimited
  <1>2. CASE \E r \in Requests : AccountStep(r)
    BY <1>2, AccountMoves, CredentialLimits, StepSince, StepLimit, NextTypes
  <1>3. CASE \E r \in Requests : (SignIn(r) \/ SessionStep(r)) /\ UNCHANGED <<codeVars, historyVars>>
    BY <1>3, SessionMoves, SessionLimits, StepSince, StepLimit, NextTypes
  <1>4. CASE UNCHANGED accountVars
    BY <1>4 DEF SinceInv, LimitInv, Live, Opened, Doomed, Trimming, Unlimited,
                accountVars, vars, sessionVars, requestVars
  <1>5. QED
    BY <1>1, <1>2, <1>3, <1>4 DEF AccountNext

\* Sign-ins overlap, each revoking from a list that is out of date: there are never more
\* live sessions than the limit allows and sign-ins that have yet to enforce it.
THEOREM SessionsWithinLimit == AccountSpec => []LimitHolds
  <1>1. AccountInit => AInv /\ SinceInv /\ LimitInv
    BY InitTypes, InitLimits
  <1>2. AInv /\ SinceInv /\ LimitInv /\ [AccountNext]_accountVars => (AInv /\ SinceInv /\ LimitInv)'
    BY NextTypes, NextLimits
  <1>3. LimitInv => LimitHolds
    <2>1. Live \ Doomed({}) = Live /\ Unlimited \ {} = Unlimited /\ {} \in SUBSET Trimming
      BY DEF Doomed
    <2>2. QED
      BY <2>1 DEF LimitInv, LimitHolds
  <1>4. QED
    BY <1>1, <1>2, <1>3, PTL DEF AccountSpec

-----------------------------------------------------------------------------
(* Codes: what every step does to them.                                    *)

\* What a step of a request does to the codes and to what it has read of them.
CodeMoves(r) ==
    /\ \A c \in Codes : /\ c \in Codes' /\ codes'[c].purpose = codes[c].purpose
                        /\ codes'[c].recent = codes[c].recent
                        /\ codes[c].used => codes'[c].used
    /\ \A c \in Codes' \ Codes :
          /\ c = r /\ pc[r] = "issue"
          /\ codes'[r].purpose = form[r].purpose /\ codes'[r].attempts = 0
          /\ \A d \in Codes \cap form[r].marked : codes'[d].used
    /\ pc'[r] = "mark" => pc[r] = "idle" /\ \A c \in OfPurpose(form'[r].purpose) : ~codes[c].recent
    /\ pc'[r] = "issue" =>
          /\ pc[r] = "mark" /\ form'[r].purpose = form[r].purpose
          /\ \A c \in OfPurpose(form[r].purpose) : codes'[c].used \/ c \in form'[r].marked
    /\ pc'[r] \in Entering =>
          \/ /\ pc[r] = "idle" /\ form'[r].code \in Codes /\ ~codes[form'[r].code].used
             /\ pc'[r] # "spend" => codes[form'[r].code].attempts < MaxAttempts
          \/ pc[r] = "count" /\ pc'[r] = "spend" /\ form'[r] = form[r]

\* And to the histories of what was accepted and of what was counted.
AnswerMoves(r) ==
    /\ pc[r] = "spend" => pc'[r] \in {"done", "lost"}
    /\ \/ accepted' = accepted
       \/ /\ accepted' = accepted \cup {<<form[r].code, r>>}
          /\ pc[r] = "consume" /\ codes'[form[r].code].used
    /\ \/ wrong' = wrong /\ \A c \in Codes : codes'[c].attempts = codes[c].attempts
       \/ /\ wrong' = wrong \cup {<<form[r].code, r>>}
          /\ pc[r] = "count" /\ pc'[r] \in {"spend", "done"}
          /\ \A c \in Codes : codes'[c].attempts =
                                 codes[c].attempts + (IF c = form[r].code THEN 1 ELSE 0)

\* And to the password.
PasswordMoves(r) ==
    \/ UNCHANGED <<password, void, changes>>
    \/ /\ pc[r] = "consume" /\ form[r].code \in Codes /\ ~codes[form[r].code].used
       /\ password' = form[r].code /\ codes'[form[r].code].used /\ pc'[r] = "done"
       /\ changes' = changes
       /\ void' = void \cup OfPurpose("PASSWORD_RESET")
       /\ \A c \in OfPurpose("PASSWORD_RESET") : codes'[c].used
    \/ /\ pc[r] = "change" /\ password' = r /\ password = form[r].password /\ pc'[r] = "done"
       /\ changes' = changes \cup {[by |-> r, proved |-> password]}
       /\ void' = void \cup OfPurpose("PASSWORD_RESET")
       /\ \A c \in OfPurpose("PASSWORD_RESET") : codes'[c].used

\* A step of the sessions leaves the codes alone.
LEMMA SessionCodes ==
    ASSUME AInv, NEW r \in Requests, SignIn(r) \/ SessionStep(r), UNCHANGED <<codeVars, historyVars>>
    PROVE  CodeMoves(r) /\ AnswerMoves(r) /\ PasswordMoves(r)
  <1>1. /\ pc'[r] \notin {"mark", "issue"} \cup Entering
        /\ pc[r] = "spend" => pc'[r] \in {"done", "lost"}
    BY KnownTypes DEF SessionStep, SignIn, CreateSession, StoreFirstToken, ListSessions, TrimSessions,
           BeginRotation, ReadLineage, WriteRotation, RevokeFamily, RevokeEveryone, RaiseVersion,
           SignOut, SignOutOthers, BeginSignOutAll, SweepSessions, Fail, Goto, Enter, Advance,
           Answer, Idle, Entering
  <1>2. QED
    BY <1>1 DEF CodeMoves, AnswerMoves, PasswordMoves, codeVars, historyVars, Codes

LEMMA CredentialCodes ==
    ASSUME AInv, NEW r \in Requests, AccountStep(r)
    PROVE  CodeMoves(r) /\ AnswerMoves(r) /\ PasswordMoves(r)
  <1> USE KnownTypes DEF CodeMoves, AnswerMoves, PasswordMoves, Goto, Enter, Advance, Answer, Idle, Fill,
                         Entering
  <1>m. OneMoves(r) /\ Standing(r)
    BY AccountMoves DEF AInv
  <1>1. CASE BeginSend(r)
    <2>1. PICK p \in Purposes : /\ MaySend(p) /\ form'[r] = [Empty EXCEPT !.purpose = p]
                                /\ pc[r] = "idle" /\ pc'[r] = "mark"
      BY <1>1 DEF BeginSend
    <2>2. form'[r].purpose = p
      BY <2>1 DEF Empty
    <2>3. UNCHANGED <<codes, accepted, wrong, void, changes, password>> /\ Codes' = Codes
      BY <1>1 DEF BeginSend, historyVars, Codes
    <2>4. QED
      BY <2>1, <2>2, <2>3 DEF MaySend
  <1>2. CASE MarkCodes(r)
    <2> DEFINE p == form[r].purpose
    <2>1. /\ pc[r] = "mark" /\ pc'[r] = "issue"
          /\ UNCHANGED <<accepted, wrong, void, changes, password>>
      BY <1>2 DEF MarkCodes, historyVars
    <2>2. CASE p = "LOGIN"
      <3>1. codes' = Used(Unused(p)) /\ form'[r] = form[r]
        BY <1>2, <2>2 DEF MarkCodes
      <3>2. Codes' = Codes
        BY <3>1, UsedType DEF Codes
      <3>3. \A c \in OfPurpose(p) : codes'[c].used
        <4> TAKE c \in OfPurpose(p)
        <4>1. c \in Codes /\ (codes[c].used \/ c \in Unused(p))
          BY DEF Unused, OfPurpose
        <4>2. Used(Unused(p))[c].used = (codes[c].used \/ c \in Unused(p))
          BY <4>1, UsedType
        <4>3. QED
          BY <3>1, <4>1, <4>2
      <3>4. QED
        BY <2>1, <3>1, <3>2, <3>3, UsedType
    <2>3. CASE p # "LOGIN"
      <3>1. codes' = codes /\ form'[r] = [form[r] EXCEPT !.marked = Unused(p)] /\ Codes' = Codes
        BY <1>2, <2>3 DEF MarkCodes, Codes
      <3>2. form[r] \in Forms
        OBVIOUS
      <3>3. form'[r].marked = Unused(p) /\ form'[r].purpose = p
        BY <3>1, <3>2 DEF Forms
      <3>4. \A c \in OfPurpose(p) : codes[c].used \/ c \in form'[r].marked
        BY <3>3 DEF Unused, OfPurpose
      <3>5. QED
        BY <2>1, <3>1, <3>3, <3>4
    <2>4. QED
      BY <2>2, <2>3
  <1>3. CASE IssueCode(r)
    <2>1. /\ pc[r] = "issue" /\ pc'[r] = "done"
          /\ UNCHANGED <<accepted, wrong, void, changes, password>>
      BY <1>3 DEF IssueCode, historyVars
    <2>2. /\ r \notin Codes /\ Codes' = Codes \cup {r}
          /\ codes'[r] = NewCode(form[r].purpose)
      BY <1>3, IssuedType
    <2>3. codes'[r].purpose = form[r].purpose /\ codes'[r].attempts = 0
      BY <2>2 DEF NewCode
    <2>4. \A c \in Codes : /\ codes'[c].purpose = codes[c].purpose
                           /\ codes'[c].used = (codes[c].used \/ c \in form[r].marked)
                           /\ codes'[c].attempts = codes[c].attempts
                           /\ codes'[c].recent = codes[c].recent
      BY <1>3, IssuedType
    <2>5. QED
      BY <2>1, <2>2, <2>3, <2>4
  <1>4. CASE BeginCode(r)
    <2>1. PICK p \in Purposes, c \in Codes :
             /\ c \in Unused(p) /\ form'[r] = [Empty EXCEPT !.purpose = p, !.code = c]
             /\ pc[r] = "idle" /\ pc'[r] \in Entering
             /\ pc'[r] # "spend" => codes[c].attempts < MaxAttempts
      BY <1>4 DEF BeginCode
    <2>2. form'[r].code = c /\ ~codes[c].used
      BY <2>1 DEF Empty, Unused
    <2>3. UNCHANGED <<codes, accepted, wrong, void, changes, password>> /\ Codes' = Codes
      BY <1>4 DEF BeginCode, historyVars, Codes
    <2>4. QED
      BY <2>1, <2>2, <2>3
  <1>5. CASE CountGuess(r)
    <2> DEFINE c == form[r].code
    <2>1. /\ c \in Codes /\ pc[r] = "count" /\ codes' = [codes EXCEPT ![c].attempts = @ + 1]
          /\ wrong' = wrong \cup {<<c, r>>} /\ UNCHANGED <<accepted, void, changes, password>>
      BY <1>m, <1>5 DEF CountGuess, Standing
    <2>2. \/ pc'[r] = "done"
          \/ pc'[r] = "spend" /\ form'[r] = form[r]
      <3>1. CASE codes'[c].attempts >= MaxAttempts
        BY <1>5, <3>1 DEF CountGuess
      <3>2. CASE ~(codes'[c].attempts >= MaxAttempts)
        BY <1>5, <3>2 DEF CountGuess
      <3>3. QED
        BY <3>1, <3>2
    <2>3. Codes' = Codes
      BY <2>1 DEF Codes
    <2>4. \A d \in Codes : /\ codes'[d].purpose = codes[d].purpose
                           /\ codes'[d].used = codes[d].used
                           /\ codes'[d].recent = codes[d].recent
                           /\ codes'[d].attempts = codes[d].attempts + (IF d = c THEN 1 ELSE 0)
      BY <2>1, CountedType
    <2>5. QED
      BY <2>1, <2>2, <2>3, <2>4
  <1>6. CASE SpendCode(r)
    <2>1. /\ codes' = Used({form[r].code}) /\ pc'[r] = "done"
          /\ UNCHANGED <<accepted, wrong, void, changes, password>>
      BY <1>6 DEF SpendCode, historyVars
    <2>2. Codes' = Codes
      BY <2>1, UsedType DEF Codes
    <2>3. QED
      BY <2>1, <2>2, UsedType
  <1>7. CASE ConsumeLoginCode(r)
    <2>1. /\ codes' = Used({form[r].code}) /\ pc[r] = "consume" /\ pc'[r] = "create"
          /\ UNCHANGED <<wrong, void, changes, password>>
          /\ accepted' = accepted \cup {<<form[r].code, r>>} /\ form[r].code \in Codes
      BY <1>m, <1>7 DEF ConsumeLoginCode, Standing
    <2>a. Codes' = Codes
      BY <2>1, UsedType DEF Codes
    <2>b. Used({form[r].code})[form[r].code].used
      <3> DEFINE gone == {form[r].code}
      <3>1. form[r].code \in gone
        OBVIOUS
      <3> HIDE DEF gone
      <3>2. Used(gone)[form[r].code].used = (codes[form[r].code].used \/ form[r].code \in gone)
        BY <2>1, UsedType
      <3>3. Used(gone)[form[r].code].used
        BY <3>1, <3>2
      <3>4. QED
        BY <3>3 DEF gone
    <2>2. Codes' = Codes /\ codes'[form[r].code].used
      BY <2>1, <2>a, <2>b
    <2>3. QED
      BY <2>1, <2>2, UsedType
  <1>8. CASE ResetPassword(r)
    <2> DEFINE c == form[r].code
    <2>1. /\ pc[r] = "consume" /\ pc'[r] = "done" /\ UNCHANGED <<wrong, changes>>
          /\ c \in Codes /\ codes[c].purpose = "PASSWORD_RESET"
      BY <1>m, <1>8 DEF ResetPassword, Standing
    <2>2. CASE codes[c].used
      <3>1. UNCHANGED <<codes, accepted, void, password>> /\ Codes' = Codes
        BY <1>8, <2>2 DEF ResetPassword, Codes
      <3>2. QED
        BY <2>1, <3>1
    <2>3. CASE ~codes[c].used
      <3>1. /\ codes' = Used(OfPurpose("PASSWORD_RESET")) /\ password' = c
            /\ void' = void \cup OfPurpose("PASSWORD_RESET")
            /\ accepted' = accepted \cup {<<c, r>>}
        BY <1>8, <2>3 DEF ResetPassword, ReplacePassword
      <3>2. /\ Codes' = Codes
            /\ \A d \in OfPurpose("PASSWORD_RESET") : codes'[d].used
        BY <3>1, UsedType DEF Codes, OfPurpose
      <3>3. codes'[c].used
        BY <2>1, <3>2 DEF OfPurpose
      <3>4. CodeMoves(r)
        BY <2>1, <3>1, <3>2, UsedType
      <3>5. AnswerMoves(r)
        BY <2>1, <3>1, <3>3, UsedType
      <3>6. PasswordMoves(r)
        BY <2>1, <2>3, <3>1, <3>2, <3>3
      <3>7. QED
        BY <3>4, <3>5, <3>6
    <2>4. QED
      BY <2>2, <2>3
  <1>9. CASE BeginChange(r)
    <2>1. /\ pc[r] = "idle" /\ pc'[r] = "change" /\ Codes' = Codes
          /\ UNCHANGED <<codes, accepted, wrong, void, changes, password>>
      BY <1>9 DEF BeginChange, historyVars, Codes
    <2>2. QED
      BY <2>1
  <1>10. CASE ChangePassword(r)
    <2>1. pc[r] = "change" /\ pc'[r] = "done" /\ UNCHANGED <<accepted, wrong>>
      BY <1>10 DEF ChangePassword
    <2>2. CASE password # form[r].password
      <3>1. UNCHANGED <<codes, void, changes, password>> /\ Codes' = Codes
        BY <1>10, <2>2 DEF ChangePassword, Codes
      <3>2. QED
        BY <2>1, <3>1
    <2>3. CASE password = form[r].password
      <3>1. /\ codes' = Used(OfPurpose("PASSWORD_RESET")) /\ password' = r
            /\ void' = void \cup OfPurpose("PASSWORD_RESET")
            /\ changes' = changes \cup {[by |-> r, proved |-> form[r].password]}
        BY <1>10, <2>3 DEF ChangePassword, ReplacePassword
      <3>2. /\ Codes' = Codes
            /\ \A d \in OfPurpose("PASSWORD_RESET") : codes'[d].used
        BY <3>1, UsedType DEF Codes, OfPurpose
      <3>3. CodeMoves(r)
        BY <2>1, <3>1, <3>2, UsedType
      <3>4. AnswerMoves(r)
        BY <2>1, <3>1, UsedType
      <3>5. PasswordMoves(r)
        BY <2>1, <2>3, <3>1, <3>2
      <3>6. QED
        BY <3>3, <3>4, <3>5
    <2>4. QED
      BY <2>2, <2>3
  <1>11. QED
    BY <1>1, <1>2, <1>3, <1>4, <1>5, <1>6, <1>7, <1>8, <1>9, <1>10 DEF AccountStep

-----------------------------------------------------------------------------
(* Codes: accepted once, dead when replaced, rare, and out of guesses.     *)

\* What all of these proofs use of a step.
LEMMA MoveFacts ==
    ASSUME AInv, NEW r \in Requests, OneMoves(r)
    PROVE  /\ \A q \in Requests : q # r => /\ pc'[q] = pc[q] /\ form'[q] = form[q]
                                            /\ past'[q] = past[q]
           /\ pc[r] # "idle" => past'[r] = past[r]
           /\ pc[r] = "idle" => past'[r] = Answered
           /\ \A q \in Requests : r \notin past'[q] /\ past'[q] \subseteq Requests
           /\ \A q \in Requests : pc[q] # "idle" => pc'[q] # "idle"
           /\ pc'[r] # "idle" /\ pc[r] # "done" /\ pc[r] # "lost"
  BY KnownTypes DEF OneMoves, AInv, Answered

\* What the credentials' histories hold.
LEMMA HistoryTypes ==
    ASSUME AInv
    PROVE  /\ accepted \subseteq Codes \X Requests /\ wrong \subseteq Codes \X Requests
           /\ Codes \subseteq Requests /\ void \subseteq Codes
           /\ \A a \in accepted : a[1] \in Codes /\ a[2] \in Requests /\ a = <<a[1], a[2]>>
           /\ \A w \in wrong : w[1] \in Codes /\ w[2] \in Requests /\ w = <<w[1], w[2]>>
           /\ \A r \in Requests : pc[r] \in Entering => form[r].code \in Codes
           /\ \A r \in Codes : pc[r] = "done"
  BY DEF AInv, AccountTypeOK, Standing

\* A code that was accepted is used, and no request can still be accepted for a code when
\* another had been answered for it before it began.
CodeInv ==
    /\ \A a \in accepted : codes[a[1]].used /\ pc[a[2]] # "idle"
    /\ \A r \in Requests : pc[r] \in Entering =>
          \A a \in accepted : a[1] = form[r].code => a[2] \notin past[r]
    /\ CodesWorkOnce

LEMMA StepCode ==
    ASSUME AInv, CodeInv, NEW r \in Requests, OneMoves(r), CodeMoves(r), AnswerMoves(r)
    PROVE  CodeInv'
  <1> USE MoveFacts, HistoryTypes
  <1>1. ASSUME NEW a \in accepted', a \notin accepted
        PROVE  a = <<form[r].code, r>> /\ pc[r] = "consume" /\ codes'[form[r].code].used
    BY <1>1 DEF AnswerMoves
  <1>2. ASSUME NEW a \in accepted'
        PROVE  codes'[a[1]].used /\ pc'[a[2]] # "idle" /\ a[2] \in Requests
    <2>1. CASE a \in accepted
      BY <2>1 DEF CodeInv, CodeMoves
    <2>2. CASE a \notin accepted
      BY <1>1, <2>2
    <2>3. QED
      BY <2>1, <2>2
  <1>3. ASSUME NEW q \in Requests, pc'[q] \in Entering, NEW a \in accepted', a[1] = form'[q].code
        PROVE  a[2] \notin past'[q]
    <2>1. CASE a \notin accepted
      BY <1>1, <2>1
    <2>2. CASE a \in accepted /\ q # r
      BY <1>3, <2>2 DEF CodeInv
    <2>3. CASE a \in accepted /\ q = r /\ pc[r] = "idle"
      BY <1>3, <2>3 DEF CodeInv, CodeMoves, Entering
    <2>4. CASE a \in accepted /\ q = r /\ pc[r] # "idle"
      <3>1. pc[r] = "count" /\ form'[r] = form[r] /\ past'[r] = past[r]
        BY <1>3, <2>4 DEF CodeMoves
      <3>2. QED
        BY <1>3, <2>4, <3>1 DEF CodeInv, Entering
    <2>5. QED
      BY <2>1, <2>2, <2>3, <2>4
  <1>4. ASSUME NEW a \in accepted', NEW b \in accepted', a[1] = b[1], a[2] # b[2]
        PROVE  a[2] \notin past'[b[2]]
    <2>1. CASE a \notin accepted
      BY <1>1, <1>2, <2>1
    <2>2. CASE a \in accepted /\ b \in accepted
      <3>1. past'[b[2]] = past[b[2]]
        BY <2>2 DEF CodeInv
      <3>2. QED
        BY <1>4, <2>2, <3>1 DEF CodeInv, CodesWorkOnce
    <2>3. CASE a \in accepted /\ b \notin accepted
      <3>1. b[1] = form[r].code /\ b[2] = r /\ pc[r] = "consume" /\ past'[r] = past[r]
        BY <1>1, <2>3
      <3>2. QED
        BY <1>4, <2>3, <3>1 DEF CodeInv, Entering
    <2>4. QED
      BY <2>1, <2>2, <2>3
  <1>5. QED
    BY <1>2, <1>3, <1>4 DEF CodeInv, CodesWorkOnce

\* Once a code is sent, those of its purpose that others had been sent before it was
\* asked for are used, or will be when it is sent.
ReplaceInv ==
    /\ \A a \in accepted : pc[a[2]] # "idle"
    /\ \A r \in Requests : pc[r] = "issue" =>
          \A c \in past[r] \cap OfPurpose(form[r].purpose) : codes[c].used \/ c \in form[r].marked
    /\ \A c \in Codes : \A d \in past[c] \cap OfPurpose(codes[c].purpose) : codes[d].used
    /\ \A r \in Requests : pc[r] \in Entering =>
          \A c \in past[r] \cap OfPurpose(codes[form[r].code].purpose) : form[r].code \notin past[c]
    /\ ReplacedCodesDie

LEMMA StepReplace ==
    ASSUME AInv, ReplaceInv, NEW r \in Requests, OneMoves(r), CodeMoves(r), AnswerMoves(r), AInv'
    PROVE  ReplaceInv'
  <1> USE MoveFacts, HistoryTypes
  <1>0. \A c \in Codes' : c # r => c \in Codes /\ codes'[c].purpose = codes[c].purpose
    BY DEF CodeMoves
  <1>1. ASSUME NEW q \in Requests, pc'[q] = "issue", NEW c \in past'[q] \cap Codes',
               codes'[c].purpose = form'[q].purpose
        PROVE  codes'[c].used \/ c \in form'[q].marked
    <2>1. c \in Codes /\ codes[c].purpose = form'[q].purpose
      BY <1>0, <1>1
    <2>2. CASE q = r
      BY <1>1, <2>1, <2>2 DEF CodeMoves, OfPurpose
    <2>3. CASE q # r
      <3>1. codes[c].used \/ c \in form[q].marked
        BY <1>1, <2>1, <2>3 DEF ReplaceInv, OfPurpose
      <3>2. QED
        BY <2>1, <2>3, <3>1 DEF CodeMoves
    <2>4. QED
      BY <2>2, <2>3
  <1>2. ASSUME NEW c \in Codes', NEW d \in past'[c] \cap Codes', codes'[d].purpose = codes'[c].purpose
        PROVE  codes'[d].used
    <2>1. CASE c \in Codes
      <3>1. past'[c] = past[c] /\ codes'[c].purpose = codes[c].purpose /\ d # r
        BY <1>2, <2>1 DEF CodeMoves
      <3>2. d \in past[c] \cap OfPurpose(codes[c].purpose) /\ d \in Codes
        BY <1>0, <1>2, <3>1 DEF OfPurpose
      <3>3. QED
        BY <2>1, <3>2 DEF ReplaceInv, CodeMoves
    <2>2. CASE c \notin Codes
      <3>1. c = r /\ pc[r] = "issue" /\ codes'[c].purpose = form[r].purpose /\ past'[r] = past[r]
        BY <1>2, <2>2 DEF CodeMoves
      <3>2. d \in past[r] \cap OfPurpose(form[r].purpose) /\ d \in Codes
        BY <1>0, <1>2, <3>1 DEF OfPurpose
      <3>3. codes[d].used \/ d \in form[r].marked
        BY <3>1, <3>2 DEF ReplaceInv
      <3>4. QED
        BY <1>2, <2>2, <3>2, <3>3 DEF CodeMoves
    <2>3. QED
      BY <2>1, <2>2
  <1>3. ASSUME NEW q \in Requests, pc'[q] \in Entering,
               NEW c \in past'[q] \cap Codes', codes'[c].purpose = codes'[form'[q].code].purpose
        PROVE  form'[q].code \notin past'[c]
    <2> DEFINE x == form'[q].code
    <2>0. c # r /\ c \in Codes /\ past'[c] = past[c]
      BY <1>0, <1>3
    <2>1. CASE q # r
      <3>1. x \in Codes /\ x = form[q].code /\ codes'[x].purpose = codes[x].purpose /\ past'[q] = past[q]
        BY <1>3, <2>1 DEF CodeMoves
      <3>2. QED
        <4>1. c \in past[q] \cap OfPurpose(codes[form[q].code].purpose) /\ pc[q] \in Entering
          BY <1>0, <1>3, <2>0, <2>1, <3>1 DEF OfPurpose
        <4>2. QED
          BY <2>0, <2>1, <3>1, <4>1 DEF ReplaceInv
    <2>2. CASE q = r /\ pc[r] = "idle"
      <3>1. x \in Codes /\ ~codes[x].used /\ codes'[x].purpose = codes[x].purpose
        BY <1>3, <2>2 DEF CodeMoves
      <3>2. codes[c].purpose = codes[x].purpose
        BY <1>0, <1>3, <2>0, <3>1
      <3>3. x \in past[c] => x \in OfPurpose(codes[c].purpose)
        BY <3>1, <3>2 DEF OfPurpose
      <3>4. QED
        BY <2>0, <3>1, <3>3 DEF ReplaceInv
    <2>3. CASE q = r /\ pc[r] # "idle"
      <3>1. pc[r] = "count" /\ form'[r] = form[r] /\ past'[r] = past[r]
        BY <1>3, <2>3 DEF CodeMoves
      <3>2. x \in Codes /\ x = form[r].code /\ codes'[x].purpose = codes[x].purpose
        BY <2>3, <3>1 DEF CodeMoves, Entering
      <3>3. QED
        <4>1. c \in past[r] \cap OfPurpose(codes[form[r].code].purpose) /\ pc[r] \in Entering
          BY <1>0, <1>3, <2>0, <2>3, <3>1, <3>2 DEF OfPurpose, Entering
        <4>2. QED
          BY <2>0, <3>2, <4>1 DEF ReplaceInv
    <2>4. QED
      BY <2>1, <2>2, <2>3
  <1>4. ASSUME NEW a \in accepted'
        PROVE  /\ pc'[a[2]] # "idle"
               /\ \A c \in past'[a[2]] \cap Codes' : codes'[c].purpose = codes'[a[1]].purpose =>
                     a[1] \notin past'[c]
    <2>1. CASE a \in accepted
      <3>1. a[1] \in Codes /\ a[2] \in Requests /\ pc[a[2]] # "idle" /\ past'[a[2]] = past[a[2]]
        BY <2>1 DEF ReplaceInv
      <3>2. ASSUME NEW c \in past'[a[2]] \cap Codes', codes'[c].purpose = codes'[a[1]].purpose
            PROVE  a[1] \notin past'[c]
        <4>1. c # r /\ c \in Codes /\ past'[c] = past[c]
          BY <3>1, <3>2 DEF CodeMoves
        <4>2. codes[c].purpose = codes[a[1]].purpose
          BY <3>1, <3>2, <4>1 DEF CodeMoves
        <4>3. QED
          BY <2>1, <3>1, <3>2, <4>1, <4>2 DEF ReplaceInv, ReplacedCodesDie
      <3>3. QED
        BY <3>1, <3>2
    <2>2. CASE a \notin accepted
      <3>1. a = <<form[r].code, r>> /\ pc[r] = "consume"
        BY <2>2 DEF AnswerMoves
      <3>2. a[1] = form[r].code /\ a[2] = r /\ a[1] \in Codes /\ past'[r] = past[r]
        BY <3>1 DEF Entering
      <3>3. ASSUME NEW c \in past'[a[2]] \cap Codes', codes'[c].purpose = codes'[a[1]].purpose
            PROVE  a[1] \notin past'[c]
        <4>1. c # r /\ c \in Codes /\ past'[c] = past[c]
          BY <3>2, <3>3 DEF CodeMoves
        <4>2. codes[c].purpose = codes[a[1]].purpose
          BY <3>2, <3>3, <4>1 DEF CodeMoves
        <4>3. c \in past[r] \cap OfPurpose(codes[form[r].code].purpose)
          BY <3>2, <3>3, <4>1, <4>2 DEF OfPurpose
        <4>4. QED
          BY <3>1, <3>2, <4>1, <4>3 DEF ReplaceInv, Entering
      <3>4. QED
        BY <3>2, <3>3
    <2>3. QED
      BY <2>1, <2>2
  <1>5. QED
    <2>1. \A q \in Requests : pc'[q] = "issue" =>
             \A c \in past'[q] \cap OfPurpose(form[q].purpose)' : codes'[c].used \/ c \in form'[q].marked
      BY <1>1 DEF OfPurpose
    <2>2. \A c \in Codes' : \A d \in past'[c] \cap OfPurpose(codes[c].purpose)' : codes'[d].used
      BY <1>2 DEF OfPurpose
    <2>3. \A q \in Requests : pc'[q] \in Entering =>
             \A c \in past'[q] \cap OfPurpose(codes[form[q].code].purpose)' :
                form'[q].code \notin past'[c]
      BY <1>3 DEF OfPurpose
    <2>4. QED
      BY <1>4, <2>1, <2>2, <2>3 DEF ReplaceInv, ReplacedCodesDie

\* A request that is about to send a code began when no code of its purpose was recent.
CooldownInv ==
    /\ \A r \in Requests : pc[r] \in {"mark", "issue"} =>
          \A c \in past[r] \cap OfPurpose(form[r].purpose) : ~codes[c].recent
    /\ OneCodePerCooldown

LEMMA StepCooldown ==
    ASSUME AInv, CooldownInv, NEW r \in Requests, OneMoves(r), CodeMoves(r), AInv'
    PROVE  CooldownInv'
  <1> USE MoveFacts, HistoryTypes
  <1>0. \A c \in Codes' : c # r => c \in Codes /\ codes'[c].purpose = codes[c].purpose
    BY DEF CodeMoves
  <1>1. ASSUME NEW q \in Requests, pc'[q] \in {"mark", "issue"}, NEW c \in past'[q] \cap Codes',
               codes'[c].purpose = form'[q].purpose
        PROVE  ~codes'[c].recent
    <2>1. /\ c \in Codes /\ codes[c].purpose = form'[q].purpose
          /\ codes'[c].recent = codes[c].recent
      BY <1>0, <1>1 DEF CodeMoves
    <2>2. CASE q # r
      BY <1>1, <2>1, <2>2 DEF CooldownInv, OfPurpose
    <2>3. CASE q = r /\ pc'[r] = "mark"
      BY <2>1, <2>3 DEF CodeMoves, OfPurpose
    <2>4. CASE q = r /\ pc'[r] = "issue"
      <3>1. pc[r] = "mark" /\ form'[r].purpose = form[r].purpose /\ past'[r] = past[r]
        BY <2>4 DEF CodeMoves
      <3>2. QED
        BY <1>1, <2>1, <2>4, <3>1 DEF CooldownInv, OfPurpose
    <2>5. QED
      BY <1>1, <2>2, <2>3, <2>4
  <1>2. ASSUME NEW c \in Codes', NEW d \in Codes', c # d, codes'[c].purpose = codes'[d].purpose,
               codes'[c].recent, codes'[d].recent
        PROVE  c \notin past'[d]
    <2>1. CASE c \notin Codes
      <3>1. c = r /\ d \in Requests
        BY <2>1, <1>2 DEF CodeMoves
      <3>2. QED
        BY <3>1
    <2>2. CASE c \in Codes /\ d \in Codes
      BY <1>2, <2>2 DEF CooldownInv, OneCodePerCooldown, CodeMoves
    <2>3. CASE c \in Codes /\ d \notin Codes
      <3>1. d = r /\ pc[r] = "issue" /\ codes'[d].purpose = form[r].purpose /\ past'[r] = past[r]
        BY <1>2, <2>3 DEF CodeMoves
      <3>2. c \in OfPurpose(form[r].purpose) /\ codes[c].recent
        BY <1>2, <2>3, <3>1 DEF CodeMoves, OfPurpose
      <3>3. QED
        BY <3>1, <3>2 DEF CooldownInv
    <2>4. QED
      BY <2>1, <2>2, <2>3
  <1>3. QED
    <2>1. \A q \in Requests : pc'[q] \in {"mark", "issue"} =>
             \A c \in past'[q] \cap OfPurpose(form[q].purpose)' : ~codes'[c].recent
      BY <1>1 DEF OfPurpose
    <2>2. QED
      BY <1>2, <2>1 DEF CooldownInv, OneCodePerCooldown

\* The wrong guesses at a code, and those that had been answered when a request began.
WrongAt(c) == {w \in wrong : w[1] = c}
WrongBefore(c, r) == {w \in wrong : w[1] = c /\ w[2] \in past[r]}

\* The counter of a code counts the wrong guesses at it, and a request may only be
\* accepted or counted when fewer than the limit had been answered before it began.
GuessInv ==
    /\ \A w \in wrong : pc[w[2]] \in {"spend", "done", "lost"}
    /\ \A g \in accepted : pc[g[2]] # "idle"
    /\ \A c \in Codes : codes[c].attempts = Cardinality(WrongAt(c))
    /\ \A r \in Requests : pc[r] \in {"count", "consume"} =>
          Cardinality(WrongBefore(form[r].code, r)) < MaxAttempts
    /\ GuessesRunOut

LEMMA FiniteGuesses ==
    ASSUME AInv
    PROVE  IsFiniteSet(wrong) /\ \A c : IsFiniteSet(WrongAt(c))
  <1>1. IsFiniteSet(Codes) /\ IsFiniteSet(Requests)
    BY FiniteRows, HistoryTypes, FS_Subset
  <1>2. IsFiniteSet(Codes \X Requests)
    BY <1>1, FS_Product
  <1>3. IsFiniteSet(wrong)
    BY <1>2, HistoryTypes, FS_Subset
  <1>4. \A c : IsFiniteSet(WrongAt(c))
    BY <1>3, FS_Subset DEF WrongAt
  <1>5. QED
    BY <1>3, <1>4

LEMMA StepGuess ==
    ASSUME AInv, GuessInv, NEW r \in Requests, OneMoves(r), CodeMoves(r), AnswerMoves(r), AInv'
    PROVE  GuessInv'
  <1> USE MoveFacts, HistoryTypes
  <1>1. ASSUME NEW w \in wrong', w \notin wrong
        PROVE  w = <<form[r].code, r>> /\ pc[r] = "count" /\ pc'[r] \in {"spend", "done"}
    BY <1>1 DEF AnswerMoves
  <1>2. ASSUME NEW w \in wrong'
        PROVE  pc'[w[2]] \in {"spend", "done", "lost"}
    <2>1. CASE w \in wrong
      <3>1. pc[w[2]] \in {"spend", "done", "lost"} /\ w[2] \in Requests
        BY <2>1 DEF GuessInv
      <3>2. CASE w[2] # r
        BY <3>1, <3>2
      <3>3. CASE w[2] = r
        <4>1. pc[r] = "spend"
          BY <3>1, <3>3
        <4>2. pc'[r] \in {"done", "lost"}
          BY <4>1 DEF AnswerMoves
        <4>3. QED
          BY <3>3, <4>2
      <3>4. QED
        BY <3>2, <3>3
    <2>2. CASE w \notin wrong
      BY <1>1, <2>2
    <2>3. QED
      BY <2>1, <2>2
  <1>3. ASSUME NEW c \in Codes'
        PROVE  codes'[c].attempts = Cardinality(WrongAt(c)')
    <2>1. CASE c \notin Codes
      <3>1. c = r /\ pc[r] = "issue" /\ codes'[c].attempts = 0
        BY <1>3, <2>1 DEF CodeMoves
      <3>2. WrongAt(c)' = {}
        BY <1>1, <2>1, <3>1 DEF WrongAt
      <3>3. QED
        BY <3>1, <3>2, FS_EmptySet
    <2>2. CASE c \in Codes /\ wrong' = wrong /\ \A d \in Codes : codes'[d].attempts = codes[d].attempts
      BY <2>2 DEF GuessInv, WrongAt
    <2>3. CASE /\ c \in Codes /\ wrong' = wrong \cup {<<form[r].code, r>>} /\ pc[r] = "count"
               /\ \A d \in Codes : codes'[d].attempts =
                                      codes[d].attempts + (IF d = form[r].code THEN 1 ELSE 0)
      <3>1. <<form[r].code, r>> \notin wrong
        BY <2>3 DEF GuessInv
      <3>2. codes[c].attempts = Cardinality(WrongAt(c)) /\ codes[c].attempts \in Nat
        BY <2>3, KnownTypes DEF GuessInv
      <3>3. CASE c = form[r].code
        <4>1. WrongAt(c)' = WrongAt(c) \cup {<<c, r>>} /\ <<c, r>> \notin WrongAt(c)
          BY <2>3, <3>1, <3>3 DEF WrongAt
        <4>2. Cardinality(WrongAt(c)') = Cardinality(WrongAt(c)) + 1
          <5> DEFINE S == WrongAt(c)
          <5>1. IsFiniteSet(S) /\ <<c, r>> \notin S /\ WrongAt(c)' = S \cup {<<c, r>>}
            BY <4>1, FiniteGuesses
          <5> HIDE DEF S
          <5>2. Cardinality(S \cup {<<c, r>>}) = Cardinality(S) + 1
            BY <5>1, FS_AddElement
          <5>3. QED
            BY <5>1, <5>2 DEF S
        <4>3. QED
          BY <2>3, <3>2, <3>3, <4>2
      <3>4. CASE c # form[r].code
        <4>1. WrongAt(c)' = WrongAt(c)
          BY <2>3, <3>4 DEF WrongAt
        <4>2. QED
          BY <2>3, <3>2, <3>4, <4>1
      <3>5. QED
        BY <3>3, <3>4
    <2>4. QED
      BY <2>1, <2>2, <2>3 DEF AnswerMoves
  <1>4. ASSUME NEW q \in Requests, past'[q] = past[q], NEW c
        PROVE  WrongBefore(c, q)' = WrongBefore(c, q)
    <2>1. \A w \in wrong' : w[2] \in past[q] => w \in wrong
      BY <1>1, <1>4
    <2>2. wrong \subseteq wrong'
      BY DEF AnswerMoves
    <2>3. QED
      BY <1>4, <2>1, <2>2 DEF WrongBefore
  <1>5. ASSUME NEW q \in Requests, pc'[q] \in {"count", "consume"}
        PROVE  Cardinality(WrongBefore(form[q].code, q)') < MaxAttempts
    <2>1. CASE q # r
      <3>1. WrongBefore(form[q].code, q)' = WrongBefore(form[q].code, q)
        BY <1>4, <2>1 DEF WrongBefore
      <3>2. QED
        BY <1>5, <2>1, <3>1 DEF GuessInv
    <2>2. CASE q = r
      <3> DEFINE x == form'[r].code
      <3>1. pc[r] = "idle" /\ x \in Codes /\ codes[x].attempts < MaxAttempts /\ wrong' = wrong
        BY <1>5, <2>2 DEF CodeMoves, AnswerMoves, Entering
      <3>2. codes[x].attempts = Cardinality(WrongAt(x)) /\ codes[x].attempts \in Nat
        BY <3>1, KnownTypes DEF GuessInv
      <3>3. WrongBefore(form[q].code, q)' \in SUBSET WrongAt(x)
        BY <2>2, <3>1 DEF WrongBefore, WrongAt
      <3> HIDE DEF x
      <3>4. /\ Cardinality(WrongBefore(form[q].code, q)') <= Cardinality(WrongAt(x))
            /\ Cardinality(WrongBefore(form[q].code, q)') \in Nat
        BY <3>3, FiniteGuesses, FS_Subset, FS_CardinalityType
      <3>5. QED
        BY <3>1, <3>2, <3>4, AccountAssumption
    <2>3. QED
      BY <2>1, <2>2
  <1>6. ASSUME NEW g \in accepted' \cup wrong'
        PROVE  /\ g \in accepted' => pc'[g[2]] # "idle"
               /\ Cardinality(WrongBefore(g[1], g[2])') < MaxAttempts
    <2>1. CASE g \in accepted \cup wrong
      <3>1. pc[g[2]] # "idle" /\ g[2] \in Requests
        BY <2>1 DEF GuessInv
      <3>2. WrongBefore(g[1], g[2])' = WrongBefore(g[1], g[2])
        BY <1>4, <3>1
      <3>3. Cardinality(WrongBefore(g[1], g[2])) < MaxAttempts
        BY <2>1 DEF GuessInv, GuessesRunOut, WrongBefore
      <3>4. QED
        BY <3>1, <3>2, <3>3
    <2>2. CASE g \notin accepted \cup wrong
      <3>1. g = <<form[r].code, r>> /\ pc[r] \in {"count", "consume"}
        BY <1>6, <2>2 DEF AnswerMoves
      <3>2. g[1] = form[r].code /\ g[2] = r /\ past'[r] = past[r]
        BY <3>1
      <3>3. WrongBefore(g[1], g[2])' = WrongBefore(form[r].code, r)
        BY <1>4, <3>2
      <3>4. QED
        BY <3>1, <3>2, <3>3 DEF GuessInv
    <2>3. QED
      BY <2>1, <2>2
  <1>7. GuessesRunOut'
    BY <1>6 DEF GuessesRunOut, WrongBefore
  <1>8. QED
    BY <1>2, <1>3, <1>5, <1>6, <1>7 DEF GuessInv

-----------------------------------------------------------------------------
(* The password.                                                           *)

Proved == {change.proved : change \in changes}

\* The password is not one that a change has proved, nor is a code that is unused; every
\* reset code that existed when it last changed is used.
PasswordInv ==
    /\ password \in Requests => pc[password] = "done"
    /\ \A x \in Proved \cap Requests : pc[x] = "done"
    /\ password \notin Proved
    /\ \A c \in Codes : ~codes[c].used => c # password /\ c \notin Proved
    /\ \A c \in void : codes[c].used
    /\ OneChangePerPassword

LEMMA StepPassword ==
    ASSUME AInv, PasswordInv, NEW r \in Requests, OneMoves(r), CodeMoves(r), PasswordMoves(r), AInv'
    PROVE  PasswordInv'
  <1> USE MoveFacts, HistoryTypes
  <1>0. /\ \A q \in Requests : pc[q] = "done" => pc'[q] = "done"
        /\ pc[r] # "done" /\ r \notin Codes
        /\ \A c \in Codes' : ~codes'[c].used =>
              c = r \/ (c \in Codes /\ ~codes[c].used)
        /\ OfPurpose("PASSWORD_RESET") \subseteq Codes
        /\ \A c \in Codes : codes[c].used => codes'[c].used
    BY DEF CodeMoves, OfPurpose
  <1>1. CASE UNCHANGED <<password, void, changes>>
    <2>1. Proved' = Proved /\ OneChangePerPassword'
      BY <1>1 DEF Proved, PasswordInv, OneChangePerPassword
    <2>2. r # password /\ r \notin Proved
      BY <1>0 DEF PasswordInv
    <2>3. \A c \in Codes' : ~codes'[c].used => c # password' /\ c \notin Proved'
      BY <1>0, <1>1, <2>1, <2>2 DEF PasswordInv
    <2>4. QED
      BY <1>0, <1>1, <2>1, <2>3 DEF PasswordInv
  <1>2. CASE /\ pc[r] = "consume" /\ form[r].code \in Codes /\ ~codes[form[r].code].used
             /\ password' = form[r].code /\ codes'[form[r].code].used /\ pc'[r] = "done"
             /\ changes' = changes
             /\ void' = void \cup OfPurpose("PASSWORD_RESET")
             /\ \A c \in OfPurpose("PASSWORD_RESET") : codes'[c].used
    <2>1. Proved' = Proved /\ OneChangePerPassword'
      BY <1>2 DEF Proved, PasswordInv, OneChangePerPassword
    <2>2. r \notin Proved /\ pc'[form[r].code] = "done" /\ form[r].code \notin Proved
      BY <1>0, <1>2 DEF PasswordInv
    <2>a. Codes' = Codes
      BY <1>2 DEF CodeMoves
    <2>3. \A c \in Codes' : ~codes'[c].used => c # password' /\ c \notin Proved'
      BY <1>0, <1>2, <2>1, <2>2, <2>a DEF PasswordInv
    <2>4. \A c \in void' : codes'[c].used
      BY <1>0, <1>2 DEF PasswordInv
    <2>5. QED
      BY <1>0, <1>2, <2>1, <2>2, <2>3, <2>4 DEF PasswordInv
  <1>3. CASE /\ pc[r] = "change" /\ password' = r /\ password = form[r].password /\ pc'[r] = "done"
             /\ changes' = changes \cup {[by |-> r, proved |-> password]}
             /\ void' = void \cup OfPurpose("PASSWORD_RESET")
             /\ \A c \in OfPurpose("PASSWORD_RESET") : codes'[c].used
    <2> DEFINE new == [by |-> r, proved |-> password]
    <2>1. new.proved = password
      OBVIOUS
    <2>2. changes' = changes \cup {new}
      BY <1>3
    <2> HIDE DEF new
    <2>3. Proved' = Proved \cup {password}
      BY <2>1, <2>2 DEF Proved
    <2>4. OneChangePerPassword'
      <3>1. \A change \in changes : change.proved # password
        BY DEF PasswordInv, Proved
      <3>2. QED
        BY <2>1, <2>2, <3>1 DEF PasswordInv, OneChangePerPassword
    <2>5. r # password /\ r \notin Proved
      BY <1>0 DEF PasswordInv
    <2>a. Codes' = Codes
      BY <1>3 DEF CodeMoves
    <2>6. \A c \in Codes' : ~codes'[c].used => c # password' /\ c \notin Proved'
      BY <1>0, <1>3, <2>3, <2>5, <2>a DEF PasswordInv
    <2>7. \A c \in void' : codes'[c].used
      BY <1>0, <1>3 DEF PasswordInv
    <2>8. QED
      BY <1>0, <1>3, <2>3, <2>4, <2>5, <2>6, <2>7 DEF PasswordInv
  <1>4. QED
    BY <1>1, <1>2, <1>3 DEF PasswordMoves

-----------------------------------------------------------------------------
(* The theorems about credentials.                                         *)

CredentialInv == AInv /\ CodeInv /\ ReplaceInv /\ CooldownInv /\ GuessInv /\ PasswordInv

LEMMA InitCredentials == AccountInit => CredentialInv
  <1> SUFFICES ASSUME AccountInit
               PROVE  CredentialInv
    OBVIOUS
  <1>1. Codes = {} /\ accepted = {} /\ wrong = {} /\ void = {} /\ changes = {} /\ password = Earlier
        /\ \A r \in Requests : pc[r] = "idle"
    BY DEF AccountInit, Init, Codes
  <1>2. AInv
    BY InitTypes
  <1>3. CodeInv /\ ReplaceInv /\ CooldownInv
    BY <1>1 DEF CodeInv, CodesWorkOnce, ReplaceInv, ReplacedCodesDie, CooldownInv, OneCodePerCooldown,
                Entering
  <1>4. GuessInv
    BY <1>1 DEF GuessInv, GuessesRunOut
  <1>5. PasswordInv
    BY <1>1, SessionAssumption DEF PasswordInv, Proved, OneChangePerPassword
  <1>6. QED
    BY <1>2, <1>3, <1>4, <1>5 DEF CredentialInv

LEMMA NextCredentials ==
    ASSUME CredentialInv, [AccountNext]_accountVars
    PROVE  CredentialInv'
  <1> USE DEF CredentialInv
  <1>0. AInv'
    BY NextTypes
  <1>1. CASE CooldownPasses
    <2>1. /\ Codes' = Codes
          /\ \A c \in Codes : /\ codes'[c].purpose = codes[c].purpose
                              /\ codes'[c].used = codes[c].used
                              /\ codes'[c].attempts = codes[c].attempts
                              /\ codes'[c].recent = FALSE
          /\ UNCHANGED <<pc, past, password, form, accepted, wrong, void, changes>>
      BY <1>1, AgedType
    <2>2. CodeInv'
      BY <2>1, HistoryTypes DEF CodeInv, CodesWorkOnce
    <2>3. ReplaceInv'
      <3>1. \A p : OfPurpose(p)' = OfPurpose(p)
        BY <2>1 DEF OfPurpose
      <3>2. \A r \in Requests : OfPurpose(form[r].purpose)' = OfPurpose(form[r].purpose)
        BY <2>1 DEF OfPurpose
      <3>3. \A c \in Codes : OfPurpose(codes[c].purpose)' = OfPurpose(codes[c].purpose)
        BY <2>1 DEF OfPurpose
      <3>4. \A r \in Requests : pc[r] \in Entering => form[r].code \in Codes
        BY HistoryTypes
      <3>5. \A r \in Requests : pc[r] \in Entering =>
               OfPurpose(codes[form[r].code].purpose)' = OfPurpose(codes[form[r].code].purpose)
        BY <2>1, <3>4 DEF OfPurpose
      <3>6. \A p : OfPurpose(p) \subseteq Codes
        BY DEF OfPurpose
      <3>7. QED
        BY <2>1, <3>2, <3>3, <3>5, <3>6, HistoryTypes DEF ReplaceInv, ReplacedCodesDie
    <2>4. CooldownInv'
      BY <2>1 DEF CooldownInv, OneCodePerCooldown, OfPurpose
    <2>5. GuessInv'
      <3>1. /\ \A c \in Codes : WrongAt(c)' = WrongAt(c)
            /\ \A r \in Requests : WrongBefore(form[r].code, r)' = WrongBefore(form[r].code, r)
        BY <2>1 DEF WrongAt, WrongBefore
      <3>2. QED
        BY <2>1, <3>1 DEF GuessInv, GuessesRunOut
    <2>6. PasswordInv'
      BY <2>1, HistoryTypes DEF PasswordInv, Proved, OneChangePerPassword
    <2>7. QED
      BY <1>0, <2>2, <2>3, <2>4, <2>5, <2>6
  <1>2. ASSUME NEW r \in Requests, OneMoves(r), CodeMoves(r), AnswerMoves(r), PasswordMoves(r)
        PROVE  CredentialInv'
    BY <1>0, <1>2, StepCode, StepReplace, StepCooldown, StepGuess, StepPassword
  <1>3. CASE \E r \in Requests : AccountStep(r)
    BY <1>2, <1>3, AccountMoves, CredentialCodes
  <1>4. CASE \E r \in Requests : (SignIn(r) \/ SessionStep(r)) /\ UNCHANGED <<codeVars, historyVars>>
    BY <1>2, <1>4, SessionMoves, SessionCodes
  <1>5. CASE UNCHANGED accountVars
    <2>1. UNCHANGED <<pc, past, password, codes, form, accepted, wrong, void, changes>>
      BY <1>5 DEF accountVars, vars, requestVars, codeVars, historyVars
    <2>2. CodeInv' /\ ReplaceInv' /\ CooldownInv'
      BY <2>1 DEF CodeInv, CodesWorkOnce, ReplaceInv, ReplacedCodesDie, CooldownInv, OneCodePerCooldown,
                  OfPurpose, Codes
    <2>3. GuessInv'
      BY <2>1 DEF GuessInv, GuessesRunOut, WrongAt, WrongBefore, Codes
    <2>4. PasswordInv'
      BY <2>1 DEF PasswordInv, Proved, OneChangePerPassword, Codes
    <2>5. QED
      BY <1>0, <2>2, <2>3, <2>4
  <1>6. QED
    BY <1>1, <1>3, <1>4, <1>5 DEF AccountNext

LEMMA Credentials == AccountSpec => []CredentialInv
  BY InitCredentials, NextCredentials, PTL DEF AccountSpec

\* A code is entered by two who know it: only requests that overlapped are both accepted.
THEOREM CodesWorkOnceAlways == AccountSpec => []CodesWorkOnce
  <1>1. CredentialInv => CodesWorkOnce
    BY DEF CredentialInv, CodeInv
  <1>2. QED
    BY <1>1, Credentials, PTL

\* A code that was replaced is never accepted from a request that begins when the new one
\* has been sent.
THEOREM ReplacedCodesStayDead == AccountSpec => []ReplacedCodesDie
  <1>1. CredentialInv => ReplacedCodesDie
    BY DEF CredentialInv, ReplaceInv
  <1>2. QED
    BY <1>1, Credentials, PTL

\* No guess is accepted, nor a wrong one counted, from a request that begins when as many
\* wrong ones as the limit have been answered.
THEOREM GuessesRunOutAlways == AccountSpec => []GuessesRunOut
  <1>1. CredentialInv => GuessesRunOut
    BY DEF CredentialInv, GuessInv
  <1>2. QED
    BY <1>1, Credentials, PTL

\* Only overlapping requests send two codes of one purpose within a cooldown.
THEOREM OneCodePerCooldownAlways == AccountSpec => []OneCodePerCooldown
  <1>1. CredentialInv => OneCodePerCooldown
    BY DEF CredentialInv, CooldownInv
  <1>2. QED
    BY <1>1, Credentials, PTL

\* Of the changes that proved the same password only one is accepted.
THEOREM OneChangePerPasswordAlways == AccountSpec => []OneChangePerPassword
  <1>1. CredentialInv => OneChangePerPassword
    BY DEF CredentialInv, PasswordInv
  <1>2. QED
    BY <1>1, Credentials, PTL

\* A reset code that existed when the password changed never changes it afterwards.
THEOREM OldCodesChangeNothing == AccountSpec => CodesDieWithThePassword
  <1>1. ASSUME CredentialInv, [AccountNext]_accountVars
        PROVE  [password' # password => password' \notin void]_accountVars
    <2>1. ASSUME NEW r \in Requests, PasswordMoves(r), OneMoves(r), password' # password
          PROVE  password' \notin void
      <3>1. CASE password' = form[r].code /\ form[r].code \in Codes /\ ~codes[form[r].code].used
        BY <1>1, <3>1 DEF CredentialInv, PasswordInv
      <3>2. CASE password' = r
        BY <1>1, <2>1, <3>2, HistoryTypes DEF CredentialInv, OneMoves
      <3>3. QED
        BY <2>1, <3>1, <3>2 DEF PasswordMoves
    <2>2. CASE CooldownPasses
      BY <1>1, <2>2, AgedType DEF CredentialInv
    <2>3. CASE \E r \in Requests : AccountStep(r)
      BY <1>1, <2>1, <2>3, AccountMoves, CredentialCodes DEF CredentialInv
    <2>4. CASE \E r \in Requests : (SignIn(r) \/ SessionStep(r)) /\ UNCHANGED <<codeVars, historyVars>>
      BY <1>1, <2>1, <2>4, SessionMoves, SessionCodes DEF CredentialInv
    <2>5. QED
      BY <1>1, <2>2, <2>3, <2>4 DEF AccountNext
  <1>2. QED
    BY <1>1, Credentials, PTL DEF AccountSpec, CodesDieWithThePassword
=============================================================================
