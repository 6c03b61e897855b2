--------------------------- MODULE AccountsProofs ---------------------------
(***************************************************************************)
(* What Accounts guarantees for all events, seeds and clients: a session        *)
(* keeps its account, a processed event can be logged in with, and calls name    *)
(* their owner.                                                            *)
(*                                                                         *)
(* The argument is the two unique keys of auth_users, which the upsert of the  *)
(* projector keeps, and that it never changes an id, a login or a role.       *)
(***************************************************************************)
EXTENDS Accounts, TLAPS

\* The table: rows with a subject, and the two unique keys.
Table ==
  /\ accounts \subseteq Accounts
  /\ \A a \in accounts : Owned(a)
  /\ \A a, b \in accounts : a.id = b.id \/ (a.login = b.login /\ a.role = b.role) => a = b

\* Who holds a token: its claims name an account and have its subject.
Session(c) ==
  session[c] # Nothing =>
    /\ session[c].role = "student" => session[c].diploma \in Diplomas
    /\ session[c].role = "university" => session[c].university \in Universities
    /\ \E a \in accounts : /\ a.id = session[c].userId
                           /\ a.login = session[c].login /\ a.role = session[c].role

\* An account bound to a number that was written is bound by such a write.
Bound ==
  /\ processed \subseteq Events
  /\ ProcessedCanLogIn

IInv == Table /\ (\A c \in Clients : Session(c)) /\ Bound /\ CallsNameTheirOwner

-----------------------------------------------------------------------------
\* The upsert keeps both keys, and every account keeps its id, login and role.
LEMMA UpsertKeepsTable ==
  ASSUME Table, NEW e \in Events, UpsertStudent(e)
  PROVE  /\ Table'
         /\ \A a \in accounts : \E b \in accounts' :
              b.id = a.id /\ b.login = a.login /\ b.role = a.role
         /\ \A a \in accounts : a.role = "student" /\ a.login # Number[e] => a \in accounts'
         /\ \E a \in accounts' : /\ a.login = Number[e] /\ a.role = "student"
                                 /\ a.diploma = Diploma[e]
<1> DEFINE same == {a \in accounts : a.login = Number[e] /\ a.role = "student"}
           rebound(a) == [a EXCEPT !.diploma = Diploma[e]]
<1>1. Diploma[e] \in Diplomas /\ Number[e] \in Logins /\ Diploma[e] # Nothing
  BY EventsAssumption, NothingAssumption
<1>2. CASE same = {}
  <2>1. accounts' = accounts \union {StudentRow(e)} /\ \A a \in accounts : a.id # Diploma[e]
    BY <1>2 DEF UpsertStudent
  <2>2. /\ StudentRow(e) \in Accounts /\ Owned(StudentRow(e))
        /\ StudentRow(e).id = Diploma[e] /\ StudentRow(e).login = Number[e]
        /\ StudentRow(e).role = "student" /\ StudentRow(e).diploma = Diploma[e]
    BY <1>1 DEF StudentRow, Accounts, Owned, Ids, Roles
  <2>3. \A a \in accounts : ~(a.login = Number[e] /\ a.role = "student")
    BY <1>2
  <2>4. Table'
    BY <2>1, <2>2, <2>3 DEF Table, Owned
  <2>5. QED BY <2>1, <2>2, <2>4 DEF Table
<1>3. CASE same # {}
  <2>1. accounts' = (accounts \ same) \union {rebound(a) : a \in same}
    BY <1>3 DEF UpsertStudent
  <2>2. \A a \in same : /\ rebound(a) \in Accounts /\ Owned(rebound(a))
                        /\ rebound(a).id = a.id /\ rebound(a).login = a.login
                        /\ rebound(a).role = a.role /\ rebound(a).diploma = Diploma[e]
    BY <1>1 DEF Table, Accounts, Owned
  <2>3. PICK s \in same : TRUE
    BY <1>3
  <2>4. same = {s} /\ s \in accounts /\ s.login = Number[e] /\ s.role = "student"
    BY <2>3 DEF Table
  <2>5. accounts' = (accounts \ {s}) \union {rebound(s)}
    BY <2>1, <2>4
  <2>6. /\ rebound(s) \in Accounts /\ Owned(rebound(s))
        /\ rebound(s).id = s.id /\ rebound(s).login = s.login
        /\ rebound(s).role = s.role /\ rebound(s).diploma = Diploma[e]
    BY <2>2, <2>4
  <2> HIDE DEF same, rebound
  <2>7. Table'
    BY <2>4, <2>5, <2>6 DEF Table, Owned
  <2>8. \A a \in accounts : \E b \in accounts' :
          b.id = a.id /\ b.login = a.login /\ b.role = a.role
    BY <2>5, <2>6
  <2>9. \A a \in accounts : a.role = "student" /\ a.login # Number[e] => a \in accounts'
    BY <2>4, <2>5
  <2>10. rebound(s) \in accounts' /\ rebound(s).login = Number[e] /\ rebound(s).role = "student"
    BY <2>4, <2>5, <2>6
  <2>11. QED BY <2>6, <2>7, <2>8, <2>9, <2>10 DEF Table
<1>4. QED BY <1>2, <1>3

\* A step that leaves the table alone keeps what is said about it.
LEMMA TableFrame ==
  ASSUME IInv, UNCHANGED <<accounts, processed, written>>
  PROVE  Table' /\ Bound'
BY DEF IInv, Table, Bound, ProcessedCanLogIn

\* The projection of an event keeps IInv: sessions still find their account.
LEMMA ProjectStep ==
  ASSUME IInv, NEW e \in Events, Project(e) PROVE IInv'
<1>1. /\ e \notin processed /\ processed' \subseteq processed \union {e}
      /\ UNCHANGED <<session, asked>>
  BY DEF Project
<1>2. CallsNameTheirOwner'
  BY <1>1 DEF IInv, CallsNameTheirOwner
<1>3. CASE ~Complete[e] /\ UNCHANGED <<accounts, written>>
  <2>1. Table'
    BY <1>3 DEF IInv, Table
  <2>2. ASSUME NEW c \in Clients PROVE Session(c)'
    BY <1>1, <1>3 DEF IInv, Session
  <2>3. Bound'
    BY <1>1, <1>3 DEF IInv, Bound, ProcessedCanLogIn
  <2>4. QED BY <1>2, <2>1, <2>2, <2>3 DEF IInv
<1>4. CASE Complete[e] /\ UpsertStudent(e)
  <2>1. Table
    BY DEF IInv
  <2>2. /\ Table'
        /\ \A a \in accounts : \E b \in accounts' :
             b.id = a.id /\ b.login = a.login /\ b.role = a.role
        /\ \A a \in accounts : a.role = "student" /\ a.login # Number[e] => a \in accounts'
        /\ \E a \in accounts' : /\ a.login = Number[e] /\ a.role = "student"
                                /\ a.diploma = Diploma[e]
    BY <1>4, <2>1, UpsertKeepsTable
  <2>3. written' = written \union {<<Diploma[e], Number[e]>>}
    BY <1>4 DEF UpsertStudent
  <2>4. ASSUME NEW c \in Clients PROVE Session(c)'
    BY <1>1, <2>2 DEF IInv, Session
  <2>5. ASSUME NEW f \in processed', Complete[f]
        PROVE  \E a \in accounts' : /\ a.login = Number[f] /\ a.role = "student"
                                    /\ <<a.diploma, Number[f]>> \in written'
    <3>1. CASE Number[f] = Number[e]
      BY <2>2, <2>3, <3>1
    <3>2. CASE Number[f] # Number[e]
      <4>1. f \in processed
        BY <1>1, <3>2
      <4>2. PICK a \in accounts : /\ a.login = Number[f] /\ a.role = "student"
                                  /\ <<a.diploma, Number[f]>> \in written
        BY <2>5, <4>1 DEF IInv, Bound, ProcessedCanLogIn
      <4>3. QED BY <2>2, <2>3, <3>2, <4>2
    <3>3. QED BY <3>1, <3>2
  <2>6. Bound'
    BY <1>1, <2>5 DEF IInv, Bound, ProcessedCanLogIn
  <2>7. QED BY <1>2, <2>2, <2>4, <2>6 DEF IInv
<1>5. QED BY <1>3, <1>4 DEF Project

\* A login takes the claims from an account, which has a subject.
LEMMA LoginStep ==
  ASSUME IInv, NEW c \in Clients, Login(c) PROVE IInv'
<1>1. PICK a \in accounts : session' = [session EXCEPT ![c] = Claims(a)]
  BY DEF Login
<1>2. UNCHANGED <<accounts, processed, written, asked>>
  BY DEF Login, tables
<1>3. Table' /\ Bound'
  BY <1>2, TableFrame
<1>4. a \in Accounts /\ Owned(a)
  BY DEF IInv, Table
<1>5. /\ Claims(a).userId = a.id /\ Claims(a).login = a.login /\ Claims(a).role = a.role
      /\ Claims(a).diploma = a.diploma /\ Claims(a).university = a.university
  BY DEF Claims
<1>6. ASSUME NEW d \in Clients PROVE Session(d)'
  <2>1. CASE session'[d] = session[d]
    BY <1>2, <2>1 DEF IInv, Session
  <2>2. CASE session'[d] = Claims(a)
    BY <1>2, <1>4, <1>5, <2>2 DEF Session, Accounts, Owned
  <2>3. session'[d] = session[d] \/ session'[d] = Claims(a)
    BY <1>1
  <2>4. QED BY <2>1, <2>2, <2>3
<1>7. CallsNameTheirOwner'
  BY <1>2 DEF IInv, CallsNameTheirOwner
<1>8. QED BY <1>3, <1>6, <1>7 DEF IInv

\* A call to the registry is made in the name of a session with the right role.
LEMMA AskStep ==
  ASSUME IInv, NEW c \in Clients, AskStudent(c) \/ AskUniversity(c) \/ CreateLink(c)
  PROVE  IInv'
<1>1. UNCHANGED <<accounts, processed, written, session>>
  BY DEF AskStudent, AskUniversity, CreateLink, tables
<1>2. Table' /\ Bound'
  BY <1>1, TableFrame
<1>3. ASSUME NEW d \in Clients PROVE Session(d)'
  BY <1>1 DEF IInv, Session
<1>4. CallsNameTheirOwner'
  <2>1. Session(c)
    BY DEF IInv
  <2>2. CASE AskUniversity(c)
    BY <2>1, <2>2 DEF AskUniversity, Ask, Admitted, Live, Session, CallsNameTheirOwner
  <2>3. CASE AskStudent(c) \/ CreateLink(c)
    BY <2>1, <2>3 DEF AskStudent, CreateLink, Ask, Admitted, Live, Session, CallsNameTheirOwner
  <2>4. QED BY <2>2, <2>3
<1>5. QED BY <1>2, <1>3, <1>4 DEF IInv

\* Initially the table holds the seeds, and nobody has a session.
LEMMA InitIInv == Init => IInv
<1> SUFFICES ASSUME Init PROVE IInv
  OBVIOUS
<1>1. Table
  BY SeedsAssumption DEF Init, Table
<1>2. \A c \in Clients : Session(c)
  BY DEF Init, Session
<1>3. Bound /\ CallsNameTheirOwner
  BY DEF Init, Bound, ProcessedCanLogIn, CallsNameTheirOwner
<1>4. QED BY <1>1, <1>2, <1>3 DEF IInv

\* No step of a client, of the projector or of the clock breaks IInv.
LEMMA NextIInv == IInv /\ [Next]_vars => IInv'
<1> SUFFICES ASSUME IInv, [Next]_vars PROVE IInv'
  OBVIOUS
<1>1. CASE UNCHANGED vars \/ Tick
  <2>1. UNCHANGED <<accounts, processed, written, session, asked>>
    BY <1>1 DEF vars, tables, Tick
  <2>2. Table' /\ Bound'
    BY <2>1, TableFrame
  <2>3. ASSUME NEW c \in Clients PROVE Session(c)'
    BY <2>1 DEF IInv, Session
  <2>4. QED BY <2>1, <2>2, <2>3 DEF IInv, CallsNameTheirOwner
<1>2. ASSUME NEW e \in Events, Project(e) PROVE IInv'
  BY <1>2, ProjectStep
<1>3. ASSUME NEW c \in Clients, Request(c) PROVE IInv'
  BY <1>1, <1>3, LoginStep, AskStep DEF Request, Refuse
<1>4. QED BY <1>1, <1>2, <1>3 DEF Next

\* IInv holds in every reachable state.
LEMMA Invariance == Spec => []IInv
BY InitIInv, NextIInv, PTL DEF Spec

-----------------------------------------------------------------------------
\* Every session finds its account, for any events in any order: Me never refuses
\* a token that Parse accepts.
THEOREM SessionsKeepAccounts == Spec => []SessionKeepsItsAccount
<1>1. IInv => SessionKeepsItsAccount
  BY DEF IInv, Table, Session, SessionKeepsItsAccount, Profile
<1>2. QED BY <1>1, Invariance, PTL

\* A processed event can be logged in with, for any events in any order, seeded
\* accounts and corrected numbers included.
THEOREM ProcessedHasAccount == Spec => []ProcessedCanLogIn
<1>1. IInv => ProcessedCanLogIn
  BY DEF IInv, Bound
<1>2. QED BY <1>1, Invariance, PTL

\* No call reaches the registry without a subject of the caller's role.
THEOREM CallsAreOwned == Spec => []CallsNameTheirOwner
<1>1. IInv => CallsNameTheirOwner
  BY DEF IInv
<1>2. QED BY <1>1, Invariance, PTL
-----------------------------------------------------------------------------
(***************************************************************************)
(* The kinds of the variables, and the account of links.                     *)
(***************************************************************************)

\* The upsert writes rows of auth_users, and remembers the diploma and its number.
LEMMA UpsertTypes ==
  ASSUME TypeOK, NEW e \in Events, UpsertStudent(e)
  PROVE  accounts' \subseteq Accounts /\ written' \subseteq Diplomas \X Logins
<1>1. Diploma[e] \in Diplomas /\ Number[e] \in Logins
  BY EventsAssumption
<1>2. StudentRow(e) \in Accounts
  BY <1>1 DEF StudentRow, Accounts, Ids, Roles
<1>3. \A a \in Accounts : [a EXCEPT !.diploma = Diploma[e]] \in Accounts
  BY <1>1 DEF Accounts
<1>4. accounts' \subseteq Accounts
  BY <1>2, <1>3 DEF UpsertStudent, TypeOK
<1>5. written' \subseteq Diplomas \X Logins
  BY <1>1 DEF UpsertStudent, TypeOK
<1>6. QED BY <1>4, <1>5

\* A request is made with claims, and what it asks for is one of them.
LEMMA AskTypes ==
  ASSUME TypeOK, NEW c \in Clients, NEW r \in Roles, Ask(c, r)
  PROVE  asked' \in Roles \X (Diplomas \union Universities \union {Nothing})
<1>1. session[c] \in TokenClaims
  BY DEF Ask, Admitted, Live, TypeOK
<1>2. /\ session[c].diploma \in Diplomas \union {Nothing}
      /\ session[c].university \in Universities \union {Nothing}
  BY <1>1 DEF TokenClaims
<1>3. QED BY <1>2 DEF Ask

\* What is known of the links: every answer that was lost is paid for by a fault.
LEMMA CreateLinkKeepsAccount ==
  ASSUME TypeOK, LinksAreAccounted, NEW c \in Clients, CreateLink(c)
  PROVE  /\ calls' \in 0..MaxCalls /\ made' \in Nat /\ told' \in 0..made'
         /\ faults' \in 0..MaxFaults
         /\ LinksAreAccounted'
<1>1. PICK out \in {"ok", "lost", "failed"} :
        /\ Call(out)
        /\ made' = made + (IF out = "failed" THEN 0 ELSE 1)
        /\ told' = told + (IF out = "ok" THEN 1 ELSE 0)
  BY DEF CreateLink
<1>2. calls' = calls + 1 /\ calls < MaxCalls /\ MaxCalls \in Nat /\ MaxFaults \in Nat
  BY BoundsAssumption DEF CreateLink
<1>3. /\ calls \in 0..MaxCalls /\ made \in Nat /\ told \in 0..made /\ faults \in 0..MaxFaults
      /\ made <= calls /\ made - told <= MaxFaults - faults
  BY DEF TypeOK, LinksAreAccounted
<1>4. CASE out = "ok"
  BY <1>1, <1>2, <1>3, <1>4 DEF Call, LinksAreAccounted
<1>5. CASE out = "lost"
  BY <1>1, <1>2, <1>3, <1>5 DEF Call, LinksAreAccounted
<1>6. CASE out = "failed"
  BY <1>1, <1>2, <1>3, <1>6 DEF Call, LinksAreAccounted
<1>7. QED BY <1>1, <1>4, <1>5, <1>6

Accounted == TypeOK /\ LinksAreAccounted

LEMMA InitAccounted == Init => Accounted
BY SeedsAssumption, BoundsAssumption DEF Init, Accounted, TypeOK, LinksAreAccounted

\* No step of a client, of the projector or of the clock breaks Accounted.
LEMMA NextAccounted == Accounted /\ [Next]_vars => Accounted'
<1> SUFFICES ASSUME TypeOK, LinksAreAccounted, [Next]_vars PROVE TypeOK' /\ LinksAreAccounted'
  BY DEF Accounted
<1>1. CASE UNCHANGED vars
  BY <1>1 DEF vars, tables, links, TypeOK, LinksAreAccounted
<1>2. CASE Tick
  BY <1>2, BoundsAssumption DEF Tick, tables, links, TypeOK, LinksAreAccounted
<1>3. ASSUME NEW e \in Events, Project(e) PROVE TypeOK' /\ LinksAreAccounted'
  <2>1. accounts' \subseteq Accounts /\ written' \subseteq Diplomas \X Logins
    BY <1>3, UpsertTypes DEF Project, TypeOK
  <2>2. processed' \subseteq Events /\ UNCHANGED <<session, clock, links, asked, faults>>
    BY <1>3 DEF Project, TypeOK
  <2>3. QED BY <2>1, <2>2 DEF TypeOK, LinksAreAccounted, links
<1>4. ASSUME NEW c \in Clients, Login(c) PROVE TypeOK' /\ LinksAreAccounted'
  <2>1. PICK a \in accounts : session' = [session EXCEPT ![c] = Claims(a)]
    BY <1>4 DEF Login
  <2>2. a \in Accounts /\ clock + TokenTTL \in 0..MaxTime
    BY <1>4, BoundsAssumption DEF Login, TypeOK
  <2>3. Claims(a) \in TokenClaims
    BY <2>2 DEF Claims, TokenClaims, Accounts
  <2>4. session' \in [Clients -> TokenClaims \union {Nothing}]
    BY <2>1, <2>3 DEF TypeOK
  <2>5. QED BY <1>4, <2>4 DEF Login, tables, links, TypeOK, LinksAreAccounted
<1>5. ASSUME NEW c \in Clients, AskStudent(c) \/ AskUniversity(c)
      PROVE  TypeOK' /\ LinksAreAccounted'
  <2>1. asked' \in Roles \X (Diplomas \union Universities \union {Nothing})
    BY <1>5, AskTypes DEF AskStudent, AskUniversity, Roles
  <2>2. UNCHANGED <<tables, session, clock, links, faults>>
    BY <1>5 DEF AskStudent, AskUniversity
  <2>3. QED BY <2>1, <2>2 DEF tables, links, TypeOK, LinksAreAccounted
<1>6. ASSUME NEW c \in Clients, CreateLink(c) PROVE TypeOK' /\ LinksAreAccounted'
  <2>1. asked' \in Roles \X (Diplomas \union Universities \union {Nothing})
    BY <1>6, AskTypes DEF CreateLink, Roles
  <2>2. /\ calls' \in 0..MaxCalls /\ made' \in Nat /\ told' \in 0..made'
        /\ faults' \in 0..MaxFaults /\ LinksAreAccounted'
    BY <1>6, CreateLinkKeepsAccount
  <2>3. UNCHANGED <<tables, session, clock>>
    BY <1>6 DEF CreateLink
  <2>4. QED BY <2>1, <2>2, <2>3 DEF tables, TypeOK
<1>7. QED BY <1>1, <1>2, <1>3, <1>4, <1>5, <1>6 DEF Next, Request, Refuse

\* Type correctness of accounts, sessions and calls.
THEOREM TypeCorrect == Spec => []TypeOK
<1>1. Accounted => TypeOK
  BY DEF Accounted
<1>2. QED BY <1>1, InitAccounted, NextAccounted, PTL DEF Spec

\* For any number of calls, the registry holds no more links than were asked for,
\* and every link that no student knows of took a lost answer.
THEOREM LinksAreKnown == Spec => []LinksAreAccounted
<1>1. Accounted => LinksAreAccounted
  BY DEF Accounted
<1>2. QED BY <1>1, InitAccounted, NextAccounted, PTL DEF Spec
=============================================================================
