---------------------------- MODULE AdminAccounts ----------------------------
(* The accounts of the administration and their sessions.  The database has *)
(* one connection, so a transaction is one step; a handler of the HTTP API   *)
(* is several, and sessions are kept in memory beside the table.             *)
EXTENDS Naturals, FiniteSets

CONSTANTS
    Users,        \* account names
    AdminCalls,   \* concurrent HTTP requests
    MaxSessions   \* sessions ever created

ASSUME AdminAssumption == MaxSessions \in Nat /\ Users # {}

VARIABLES
    users,      \* table users
    sessions,   \* adminsession.Manager
    call,       \* the requests
    created     \* counts sessions

adminVars == <<users, sessions, call, created>>

UserRoles == {"admin", "member"}
Absent == [role |-> "none", disabled |-> FALSE]

Idle == [at |-> "idle", user |-> CHOOSE u \in Users : TRUE, row |-> Absent]

-----------------------------------------------------------------------------
AdminInit ==
    /\ users = [u \in Users |-> Absent]
    /\ sessions = {}
    /\ call = [c \in AdminCalls |-> Idle]
    /\ created = 0

Exists(u) == users[u] # Absent
EnabledAdmin(u) == users[u].role = "admin" /\ ~users[u].disabled

Finish(c) == call' = [call EXCEPT ![c] = Idle]

-----------------------------------------------------------------------------
(* createInitialAdmin: the table is empty; hashing the password takes a      *)
(* while; then the row is inserted.                                          *)
Setup(c, u) ==
    /\ call[c].at = "idle" /\ \A v \in Users : ~Exists(v)
    /\ call' = [call EXCEPT ![c] = [at |-> "insert", user |-> u, row |-> [role |-> "admin", disabled |-> FALSE]]]
    /\ UNCHANGED <<users, sessions, created>>

(* requireRole: an administrator's session opens the users API.              *)
Authorised == \E s \in sessions : s.role = "admin"

CreateUser(c, u, row) ==
    /\ call[c].at = "idle" /\ Authorised
    /\ call' = [call EXCEPT ![c] = [at |-> "insert", user |-> u, row |-> row]]
    /\ UNCHANGED <<users, sessions, created>>

(* Repository.Create: an existing name is a constraint error.                *)
Insert(c) ==
    /\ call[c].at = "insert"
    /\ users' = IF Exists(call[c].user) THEN users
                ELSE [users EXCEPT ![call[c].user] = call[c].row]
    /\ Finish(c)
    /\ UNCHANGED <<sessions, created>>

(* enabledAdminCount, the account itself excluded.                           *)
(* Mutant: it is not.                                                        *)
AnyEnabledAdmin(u) == \E v \in Users : EnabledAdmin(v)

OtherEnabledAdmin(u) == \E v \in Users \ {u} : EnabledAdmin(v)

(* Repository.Patch: one transaction; the sessions are removed after it, in  *)
(* a step of its own, when the role changed, the account is disabled or the  *)
(* password is new.                                                          *)
Patch(c, u, row, password) ==
    /\ call[c].at = "idle" /\ Authorised /\ Exists(u)
    /\ LET loses == users[u].role = "admin" /\ (row.role # "admin" \/ row.disabled)
           done == ~loses \/ OtherEnabledAdmin(u)
       IN  /\ users' = IF done THEN [users EXCEPT ![u] = row] ELSE users
           /\ call' = IF done /\ (row.disabled \/ row.role # users[u].role \/ password)
                        THEN [call EXCEPT ![c] = [Idle EXCEPT !.at = "revoke", !.user = u]] ELSE call
    /\ UNCHANGED <<sessions, created>>

DeleteUser(c, u) ==
    /\ call[c].at = "idle" /\ Authorised /\ Exists(u)
    /\ users[u].role = "admin" => OtherEnabledAdmin(u)
    /\ users' = [users EXCEPT ![u] = Absent]
    /\ call' = [call EXCEPT ![c] = [Idle EXCEPT !.at = "revoke", !.user = u]]
    /\ UNCHANGED <<sessions, created>>

(* removeSessionsForUser.                                                    *)
Revoke(c) ==
    /\ call[c].at = "revoke"
    /\ sessions' = {s \in sessions : s.user # call[c].user}
    /\ Finish(c)
    /\ UNCHANGED <<users, created>>

(* handleAdminLogin: the row is read and the password compared; the session  *)
(* is created with the role that was read.                                   *)
Authenticate(c, u) ==
    /\ call[c].at = "idle" /\ Exists(u) /\ ~users[u].disabled
    /\ call' = [call EXCEPT ![c] = [at |-> "login", user |-> u, row |-> users[u]]]
    /\ UNCHANGED <<users, sessions, created>>

CreateSession(c) ==
    /\ call[c].at = "login" /\ created < MaxSessions
    /\ created' = created + 1
    /\ sessions' = sessions \cup {[id |-> created', user |-> call[c].user, role |-> call[c].row.role]}
    /\ Finish(c)
    /\ UNCHANGED <<users>>

(* Logout, or an expired session met by Get.                                 *)
EndSession ==
    /\ \E s \in sessions : sessions' = sessions \ {s}
    /\ UNCHANGED <<users, created, call>>

AdminNext ==
    \/ \E c \in AdminCalls :
         \/ \E u \in Users :
              \/ Setup(c, u) \/ DeleteUser(c, u) \/ Authenticate(c, u)
              \/ \E row \in [role : UserRoles, disabled : BOOLEAN] :
                   CreateUser(c, u, row) \/ \E password \in BOOLEAN : Patch(c, u, row, password)
         \/ Insert(c) \/ Revoke(c) \/ CreateSession(c)
    \/ EndSession

AdminSpec == AdminInit /\ [][AdminNext]_adminVars

-----------------------------------------------------------------------------
(* Types of the accounts, of the sessions and of the requests.               *)
AdminTypeOK ==
    /\ users \in [Users -> [role : UserRoles \cup {"none"}, disabled : BOOLEAN]]
    /\ sessions \subseteq [id : 1 .. MaxSessions, user : Users, role : UserRoles \cup {"none"}]
    /\ call \in [AdminCalls -> [at : {"idle", "insert", "revoke", "login"}, user : Users,
                             row : [role : UserRoles \cup {"none"}, disabled : BOOLEAN]]]
    /\ created \in 0 .. MaxSessions

(* The administration never locks itself out: once there is an account,      *)
(* whatever patches and deletions overlap, one enabled administrator is      *)
(* left.                                                                     *)
LastAdminStays == (\E u \in Users : Exists(u)) => \E u \in Users : EnabledAdmin(u)
=============================================================================
