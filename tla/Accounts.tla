------------------------------ MODULE Accounts ------------------------------
(***************************************************************************)
(* Accounts and sessions of the private API: the projector writes a student   *)
(* account under the number of each diploma it projects, a login takes a       *)
(* snapshot of the account into a signed token, and the calls made with the    *)
(* token act on the registry in the name of that snapshot.                    *)
(*                                                                         *)
(* Events are delivered in any order and any number of times until they are    *)
(* marked processed, which is all that Consumer and Pipeline leave to rely on. *)
(* Definitions introduced by "Mistake:" are not part of the specification.   *)
(***************************************************************************)
EXTENDS Naturals

CONSTANTS
  Clients,       \* browsers
  Events,        \* diploma lifecycle events
  Diplomas,      \* diploma ids, in the events and in the registry
  Logins,        \* diploma numbers, and logins of seeded accounts
  Universities,
  Diploma, Number,  \* of an event
  Complete,      \* Complete[e]: id, number and name of e are not blank
  Seeds,         \* accounts inserted by the migrations
  SeedIds,       \* their ids
  Nothing,       \* a null column, a client without a session
  TokenTTL,      \* AuthConfig.TokenTTL
  MaxTime,       \* bound of the clock
  MaxCalls,      \* bound: calls to make a share link
  MaxFaults      \* bound: registry calls that fail

Roles == {"university", "student", "hr"}
Ids == Diplomas \union SeedIds

\* A row of auth_users; the columns tell the role's subject.
Accounts ==
  [id : Ids, login : Logins, role : Roles,
   diploma : Diplomas \union {Nothing}, university : Universities \union {Nothing}]

Owned(a) ==
  /\ a.role = "student" => a.diploma # Nothing
  /\ a.role = "university" => a.university # Nothing

ASSUME EventsAssumption ==
  /\ Diploma \in [Events -> Diplomas] /\ Number \in [Events -> Logins]
  /\ Complete \in [Events -> BOOLEAN]
ASSUME SeedsAssumption ==
  /\ Seeds \subseteq Accounts /\ \A a \in Seeds : a.id \in SeedIds /\ Owned(a)
  /\ \A a, b \in Seeds : a # b => a.id # b.id /\ <<a.login, a.role>> # <<b.login, b.role>>
ASSUME NothingAssumption ==
  /\ Nothing \notin Diplomas \union Universities /\ SeedIds \intersect Diplomas = {}
ASSUME BoundsAssumption ==
  {TokenTTL, MaxTime, MaxCalls, MaxFaults} \subseteq Nat /\ TokenTTL > 0

VARIABLES
  accounts,   \* table auth_users
  processed,  \* processed_events
  session,    \* session[c]: the claims of the token c holds
  clock,
  calls, made, told,  \* history: calls to make a share link, links made in the
                      \* registry, links whose token reached the student
  asked,      \* history: in whose name the registry was last called
  written,    \* history: <<diploma, number>> of the accounts written
  faults      \* remaining budget of failing calls

tables   == <<accounts, processed, written>>
links    == <<calls, made, told>>
vars     == <<tables, session, clock, links, asked, faults>>

Init ==
  /\ accounts = Seeds
  /\ processed = {} /\ written = {}
  /\ session = [c \in Clients |-> Nothing]
  /\ clock = 0
  /\ calls = 0 /\ made = 0 /\ told = 0
  /\ asked = Nothing
  /\ faults = MaxFaults

-----------------------------------------------------------------------------
StudentRow(e) ==
  [id |-> Diploma[e], login |-> Number[e], role |-> "student",
   diploma |-> Diploma[e], university |-> Nothing]

\* Mistake: the primary key of an existing account is overwritten.
UpsertNewId(e) ==
  LET same == {a \in accounts : a.login = Number[e] /\ a.role = "student"}
  IN /\ \A a \in accounts \ same : a.id # Diploma[e]
     /\ accounts' = (accounts \ same) \union {StudentRow(e)}
     /\ written' = written \union {<<Diploma[e], Number[e]>>}

\* Mistake: on conflict do nothing.
UpsertOrNothing(e) ==
  /\ accounts' =
       IF \E a \in accounts : \/ a.login = Number[e] /\ a.role = "student"
                              \/ a.id = Diploma[e]
       THEN accounts ELSE accounts \union {StudentRow(e)}
  /\ written' = written \union {<<Diploma[e], Number[e]>>}

\* UpsertStudentAuthUser: the account of the login is bound to the diploma and
\* keeps its id; a new one must not find its id taken by another login.
UpsertStudent(e) ==
  LET same == {a \in accounts : a.login = Number[e] /\ a.role = "student"}
  IN /\ same = {} => \A a \in accounts : a.id # Diploma[e]
     /\ accounts' =
          IF same = {} THEN accounts \union {StudentRow(e)}
          ELSE (accounts \ same) \union {[a EXCEPT !.diploma = Diploma[e]] : a \in same}
     /\ written' = written \union {<<Diploma[e], Number[e]>>}

\* Handle of a diploma event as far as accounts go; the mark may not be reached.
Project(e) ==
  /\ e \notin processed
  /\ \/ Complete[e] /\ UpsertStudent(e)
     \/ ~Complete[e] /\ UNCHANGED <<accounts, written>>
  /\ processed' \in {processed, processed \union {e}}
  /\ UNCHANGED <<session, clock, links, asked, faults>>

-----------------------------------------------------------------------------
\* Mistake: two claims are swapped.
ClaimsSwapped(a) ==
  [userId |-> a.id, login |-> a.login, role |-> a.role,
   diploma |-> a.university, university |-> a.diploma, expires |-> clock + TokenTTL]

\* Issue: the claims are the account as it is now.
Claims(a) ==
  [userId |-> a.id, login |-> a.login, role |-> a.role,
   diploma |-> a.diploma, university |-> a.university, expires |-> clock + TokenTTL]

\* Login with the right password; any other leaves no trace.
Login(c) ==
  /\ clock + TokenTTL <= MaxTime
  /\ \E a \in accounts : session' = [session EXCEPT ![c] = Claims(a)]
  /\ UNCHANGED <<tables, clock, links, asked, faults>>

\* Mistake: the expiry of a token is not checked.
LiveForEver(c) == session[c] # Nothing

\* Parse accepts the token of c.
Live(c) == session[c] # Nothing /\ clock < session[c].expires

\* Mistake: a route is not wrapped in RequirePrivateRole.
AdmittedInAnyRole(c, r) == Live(c)

\* NewPrivateAuth and RequirePrivateRole let a request of c pass.
Admitted(c, r) == Live(c) /\ session[c].role = r

\* FindByID of Me.
Profile(c) == {a \in accounts : a.id = session[c].userId}

\* doJSON: the call succeeds, or fails with or without having taken effect.
Call(out) ==
  \/ out = "ok" /\ faults' = faults
  \/ out \in {"lost", "failed"} /\ faults > 0 /\ faults' = faults - 1

\* A call in the name of the session: diplomaId or universityId is its claim.
Ask(c, r) ==
  /\ Admitted(c, r)
  /\ asked' = <<r, IF r = "student" THEN session[c].diploma ELSE session[c].university>>

\* GetDiploma and DeleteShareLink of a student.
AskStudent(c) ==
  /\ Ask(c, "student")
  /\ UNCHANGED <<tables, session, clock, links, faults>>

\* The six requests of a university; what they change in the registry comes back
\* as events.
AskUniversity(c) ==
  /\ Ask(c, "university")
  /\ UNCHANGED <<tables, session, clock, links, faults>>

\* Mistake: a call whose answer was lost is made once more.
CreateTwice(c) ==
  /\ Ask(c, "student") /\ calls < MaxCalls
  /\ \E out \in {"ok", "lost", "failed"} :
       /\ Call(out)
       /\ made' = made + (IF out = "lost" THEN 2 ELSE 1)
       /\ told' = told + 1
  /\ calls' = calls + 1
  /\ UNCHANGED <<tables, session, clock>>

\* CreateShareLink: the registry makes a link each time a call reaches it, and
\* the student learns its token from the answer.
CreateLink(c) ==
  /\ Ask(c, "student") /\ calls < MaxCalls
  /\ \E out \in {"ok", "lost", "failed"} :
       /\ Call(out)
       /\ made' = made + (IF out = "failed" THEN 0 ELSE 1)
       /\ told' = told + (IF out = "ok" THEN 1 ELSE 0)
  /\ calls' = calls + 1
  /\ UNCHANGED <<tables, session, clock>>

\* A request without a token that passes is answered 401 or 403.
Refuse(c) ==
  /\ \E r \in Roles : ~Admitted(c, r)
  /\ UNCHANGED vars

Tick ==
  /\ clock < MaxTime
  /\ clock' = clock + 1
  /\ UNCHANGED <<tables, session, links, asked, faults>>

-----------------------------------------------------------------------------
Request(c) ==
  \/ Login(c) \/ AskStudent(c) \/ AskUniversity(c) \/ CreateLink(c)
  \/ Refuse(c)

Next ==
  \/ \E e \in Events : Project(e)
  \/ \E c \in Clients : Request(c)
  \/ Tick

Spec == Init /\ [][Next]_vars

\* Time passes.
FairSpec == Spec /\ WF_vars(Tick)

-----------------------------------------------------------------------------
TokenClaims ==
  [userId : Ids, login : Logins, role : Roles, diploma : Diplomas \union {Nothing},
   university : Universities \union {Nothing}, expires : 0..MaxTime]

\* The variables hold values of the expected kind.
TypeOK ==
  /\ accounts \subseteq Accounts /\ processed \subseteq Events
  /\ session \in [Clients -> TokenClaims \union {Nothing}]
  /\ clock \in 0..MaxTime
  /\ calls \in 0..MaxCalls /\ made \in Nat /\ told \in 0..made
  /\ asked \in (Roles \X (Diplomas \union Universities \union {Nothing})) \union {Nothing}
  /\ written \subseteq (Diplomas \X Logins) /\ faults \in 0..MaxFaults

\* The profile request of a session finds the account the session was opened
\* for, whatever was projected since: accounts are rebound to other diplomas,
\* they never disappear or change their id.
SessionKeepsItsAccount ==
  \A c \in Clients : session[c] # Nothing =>
    /\ \E a \in Profile(c) : a.login = session[c].login /\ a.role = session[c].role
    /\ \A a, b \in Profile(c) : a = b

\* Once a complete diploma event is marked processed, a student can log in under
\* its number, and gets a diploma that was projected under that number: never
\* the demonstration diploma of a migration, and never no account at all.
ProcessedCanLogIn ==
  \A e \in processed : Complete[e] =>
    \E a \in accounts : /\ a.login = Number[e] /\ a.role = "student"
                        /\ <<a.diploma, Number[e]>> \in written

\* The registry is asked by students about a diploma and by universities about a
\* university: no session reaches it without a subject, or with the other
\* role's.
CallsNameTheirOwner ==
  asked # Nothing =>
    asked \in ({"student"} \X Diplomas) \union ({"university"} \X Universities)

\* A call makes at most one link, and a link whose token nobody learnt takes a
\* lost answer.
LinksAreAccounted ==
  /\ made <= calls
  /\ made - told <= MaxFaults - faults

\* A session that works on another diploma than its account is bound to (the
\* account was rebound after the login) comes to an end.
Stale(c) == Live(c) /\ \E a \in Profile(c) : a.diploma # session[c].diploma
StaleSessionsEnd == \A c \in Clients : Stale(c) ~> ~Stale(c)
=============================================================================
