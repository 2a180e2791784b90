--------------------------- MODULE AccountsProofs ---------------------------
(***************************************************************************)
(* For any users, passwords, clients, files to start from and bounds: what *)
(* the run accounts shows of users, sessions, memory and file.             *)
(***************************************************************************)
EXTENDS Accounts, FiniteSetTheorems, TLAPS

\* Nothing is under way while the process is down; loading writes the file, and
\* serves nobody.
Phases ==
    /\ up # "up" => \A c \in Clients : pc[c] = "idle"
    /\ pc[Boot] = IF up = "loading" THEN "saving" ELSE "idle"
    /\ up # "up" => sessions = NoSession

\* From the first write on there is somebody, with a hashed password.
Somebody ==
    up \in {"loading", "up"} =>
        DOMAIN users # {} /\ \A u \in DOMAIN users : users[u].hashed

\* Who is in the middle of a login is a user, or was removed meanwhile; only
\* who adds a user finds that there is one.
Logins ==
    \A c \in Clients :
        /\ pc[c] = "authenticated" /\ c \notin slipped => req[c].user \in DOMAIN users
        /\ pc[c] = "exists" => req[c].op = "add"

\* A table agrees with everything that was answered.
Agrees(table) ==
    \A u \in Users :
        /\ acked[u] = "absent" => u \notin DOMAIN table
        /\ acked[u] \in Passwords => u \in DOMAIN table /\ table[u] = Hashed(acked[u])

\* What a request about to be answered asked for is in force.
InForce(c) ==
    IF req[c].op = "remove" THEN req[c].user \notin DOMAIN users
    ELSE req[c].user \in DOMAIN users /\ users[req[c].user] = Hashed(req[c].pass)

\* Memory, file and answers: a torn file is one being written or one that was
\* hurt, and before anything was written nothing was answered.
File ==
    /\ disk.state = "torn" => hurt \/ ~Free
    /\ disk.state = "none" => disk.users = <<>>
    /\ disk.users = <<>> => \A u \in Users : acked[u] = "?"
    /\ Agrees(disk.users)
    /\ up \in {"loading", "up"} => Agrees(users)
    /\ \A c \in Clients : pc[c] = "saving" => InForce(c)

IInv ==
    /\ TypeOK /\ Phases /\ Somebody /\ Logins /\ File
    /\ NoOrphanSession /\ MemoryIsSaved /\ StoredHashed /\ StartsUnlessHurt

-----------------------------------------------------------------------------
(* Tables, requests *)

LEMMA EmptyTable == /\ <<>> \in Tables /\ DOMAIN <<>> = {}
                    /\ \A t \in Tables : DOMAIN t = {} => t = <<>>
  BY DEF Tables

LEMMA TableFacts ==
    ASSUME NEW t \in Tables
    PROVE  /\ DOMAIN t \subseteq Users
           /\ \A u \in DOMAIN t : t[u] \in [pass : Passwords, hashed : BOOLEAN]
  BY DEF Tables

LEMMA MadeTable ==
    ASSUME NEW D \in SUBSET Users, NEW t \in [D -> [pass : Passwords, hashed : BOOLEAN]]
    PROVE  t \in Tables /\ DOMAIN t = D
  BY DEF Tables

LEMMA HashedFacts ==
    ASSUME NEW p \in Passwords
    PROVE  /\ Hashed(p) \in [pass : Passwords, hashed : BOOLEAN]
           /\ Hashed(p).pass = p /\ Hashed(p).hashed
  BY DEF Hashed

LEMMA OnlyAdminFacts ==
    /\ OnlyAdmin \in Tables /\ DOMAIN OnlyAdmin = {Admin}
    /\ \A u \in DOMAIN OnlyAdmin : OnlyAdmin[u].hashed
  <1>1. OnlyAdmin \in [{Admin} -> [pass : Passwords, hashed : BOOLEAN]]
    BY HashedFacts, AccountsAssumption DEF OnlyAdmin, AccountsAssumption
  <1>2. Hashed(Default).hashed
    BY HashedFacts, AccountsAssumption DEF AccountsAssumption
  <1> QED
    BY <1>1, <1>2, MadeTable, AccountsAssumption DEF OnlyAdmin, AccountsAssumption

\* Every entry hashed, as load() does it.
LEMMA UpgradedFacts ==
    ASSUME NEW t \in Tables,
           NEW h, h = [u \in DOMAIN t |-> Hashed(t[u].pass)]
    PROVE  /\ h \in Tables /\ DOMAIN h = DOMAIN t
           /\ \A u \in DOMAIN t : h[u].hashed
           /\ \A u \in DOMAIN t, p \in Passwords : t[u] = Hashed(p) => h[u] = Hashed(p)
  <1>1. \A u \in DOMAIN t : t[u].pass \in Passwords
    BY TableFacts
  <1>2. h \in [DOMAIN t -> [pass : Passwords, hashed : BOOLEAN]]
    BY <1>1, HashedFacts
  <1>3. h \in Tables /\ DOMAIN h = DOMAIN t
    BY <1>2, MadeTable, TableFacts
  <1>4. \A u \in DOMAIN t : h[u].hashed
    BY <1>1, HashedFacts
  <1>5. \A u \in DOMAIN t, p \in Passwords : t[u] = Hashed(p) => h[u] = Hashed(p)
    BY HashedFacts
  <1> QED
    BY <1>3, <1>4, <1>5

LEMMA WithFacts ==
    ASSUME users \in Tables, NEW u \in Users, NEW p \in Passwords
    PROVE  /\ With(u, p) \in Tables
           /\ DOMAIN With(u, p) = DOMAIN users \cup {u}
           /\ With(u, p)[u] = Hashed(p)
           /\ \A v \in DOMAIN users : v # u => With(u, p)[v] = users[v]
  <1>1. With(u, p) \in [DOMAIN users \cup {u} -> [pass : Passwords, hashed : BOOLEAN]]
    BY HashedFacts, TableFacts DEF With
  <1>2. DOMAIN users \cup {u} \in SUBSET Users
    BY TableFacts
  <1>3. With(u, p) \in Tables
    BY <1>1, <1>2, MadeTable
  <1> QED
    BY <1>1, <1>3 DEF With

LEMMA RestrictFacts ==
    ASSUME users \in Tables, NEW u
    PROVE  /\ Restrict(users, DOMAIN users \ {u}) \in Tables
           /\ DOMAIN Restrict(users, DOMAIN users \ {u}) = DOMAIN users \ {u}
           /\ \A v \in DOMAIN users \ {u} : Restrict(users, DOMAIN users \ {u})[v] = users[v]
  <1> DEFINE t == Restrict(users, DOMAIN users \ {u})
  <1>1. t \in [DOMAIN users \ {u} -> [pass : Passwords, hashed : BOOLEAN]]
    BY TableFacts DEF Restrict
  <1>2. t \in Tables
    BY <1>1, MadeTable, TableFacts
  <1> QED
    BY <1>1, <1>2 DEF Restrict

LEMMA RequestFacts ==
    ASSUME NEW r \in Requests
    PROVE  r.user \in Users /\ r.pass \in Passwords
  BY AccountsAssumption DEF AccountsAssumption, Requests, NoRequest

LEMMA NoRequestIsRequest == NoRequest \in Requests
  BY DEF Requests

LEMMA LoginIsRequest ==
    ASSUME NEW u \in Users
    PROVE  [op |-> "login", user |-> u, pass |-> Default] \in Requests
  BY AccountsAssumption DEF AccountsAssumption, Requests

-----------------------------------------------------------------------------
(* The invariant *)

LEMMA InitIInv == Init => IInv
  <1> SUFFICES ASSUME Init PROVE IInv
    OBVIOUS
  <1> USE AccountsAssumption DEF AccountsAssumption, Init
  <1>1. TypeOK
    <2>1. users \in Tables
      BY EmptyTable
    <2>2. disk \in [state : {"none", "whole", "torn", "alien"}, users : Tables]
      BY EmptyTable
    <2>3. /\ sessions \in [Tokens -> Users \cup {"nobody"}]
          /\ issued \in 0..MaxTokens /\ cookie \in [Clients -> 0..issued]
          /\ slipped \subseteq Clients \cup Tokens
      BY DEF NoSession
    <2>4. req \in [Clients -> Requests]
      BY NoRequestIsRequest
    <2>5. /\ pc \in [Clients \cup {Boot} -> {"idle", "authenticated", "authorised", "exists", "saving"}]
          /\ \A a, b \in DOMAIN pc : pc[a] = "saving" /\ pc[b] = "saving" => a = b
      OBVIOUS
    <2>6. /\ acked \in [Users -> Passwords \cup {"?", "absent"}]
          /\ up \in {"down", "loading", "up", "dead"} /\ unsaved \in BOOLEAN /\ hurt \in BOOLEAN
      OBVIOUS
    <2> QED
      BY <2>1, <2>2, <2>3, <2>4, <2>5, <2>6 DEF TypeOK
  <1>2. Phases /\ Somebody /\ Logins
    BY DEF Phases, Somebody, Logins, Boot
  <1>3. File
    BY EmptyTable DEF File, Agrees, Boot
  <1>4. NoOrphanSession /\ MemoryIsSaved /\ StoredHashed /\ StartsUnlessHurt
    BY DEF NoOrphanSession, MemoryIsSaved, StoredHashed, StartsUnlessHurt, NoSession, Tokens
  <1> QED
    BY <1>1, <1>2, <1>3, <1>4 DEF IInv

\* A change of the users by a client, saved or not: it must leave somebody,
\* everybody hashed, touch one user only, put in force what was asked for, and
\* end the sessions of who is gone.
LEMMA ReplaceKeeps ==
    ASSUME IInv, up = "up", Free,
           NEW c \in Clients, pc[c] \in {"authorised", "exists"},
           NEW table \in Tables, DOMAIN table # {}, \A u \in DOMAIN table : table[u].hashed,
           \A u \in Users \ {req[c].user} :
               /\ u \in DOMAIN table <=> u \in DOMAIN users
               /\ u \in DOMAIN users => table[u] = users[u],
           IF req[c].op = "remove" THEN req[c].user \notin DOMAIN table
           ELSE req[c].user \in DOMAIN table /\ table[req[c].user] = Hashed(req[c].pass),
           NEW gone,
           \A u \in DOMAIN users : u # gone => u \in DOMAIN table,
           sessions' \in [Tokens -> Users \cup {"nobody"}],
           \A t \in Tokens : sessions'[t] # "nobody" => sessions'[t] = sessions[t] /\ sessions[t] # gone,
           Replace(c, table, gone)
    PROVE  IInv'
  <1> USE AccountsAssumption DEF AccountsAssumption
  <1>1. /\ users' = table /\ UNCHANGED <<up, issued, cookie, crashes, hurt>>
        /\ acked' = [acked EXCEPT ![req[c].user] = "?"]
        /\ slipped' = slipped \cup {d \in Clients : pc[d] = "authenticated" /\ req[d].user = gone}
    BY DEF Replace, Save
  <1>2. \/ /\ disk' = [disk EXCEPT !.state = "torn"] /\ UNCHANGED unsaved
           /\ pc' = [pc EXCEPT ![c] = "saving"] /\ req' = req
        \/ /\ unsaved' = TRUE /\ UNCHANGED disk
           /\ pc' = [pc EXCEPT ![c] = "idle"] /\ req' = [req EXCEPT ![c] = NoRequest]
    BY DEF Replace, Save, IInv, TypeOK, Boot
  <1>3. req[c].user \in Users
    BY RequestFacts DEF IInv, TypeOK
  <1>4. disk \in [state : {"none", "whole", "torn", "alien"}, users : Tables] /\ pc[Boot] = "idle"
    BY DEF IInv, TypeOK, Phases
  <1>5. TypeOK'
    <2> USE DEF IInv, TypeOK
    <2>1. disk' \in [state : {"none", "whole", "torn", "alien"}, users : Tables]
      BY <1>2, <1>4
    <2>2. req' \in [Clients -> Requests]
      BY <1>2, NoRequestIsRequest
    <2>3. /\ pc' \in [Clients \cup {Boot} -> {"idle", "authenticated", "authorised", "exists", "saving"}]
          /\ \A a, b \in DOMAIN pc' : pc'[a] = "saving" /\ pc'[b] = "saving" => a = b
      BY <1>2 DEF Free
    <2>4. acked' \in [Users -> Passwords \cup {"?", "absent"}] /\ unsaved' \in BOOLEAN
      BY <1>1, <1>2
    <2>5. slipped' \subseteq Clients \cup Tokens
      BY <1>1
    <2> QED
      BY <1>1, <2>1, <2>2, <2>3, <2>4, <2>5
  <1>6. Phases' /\ Somebody'
    BY <1>1, <1>2 DEF IInv, TypeOK, Phases, Somebody, Boot
  <1>7. Logins'
    <2> SUFFICES ASSUME NEW d \in Clients
                 PROVE  /\ pc'[d] = "authenticated" /\ d \notin slipped' => req'[d].user \in DOMAIN table
                        /\ pc'[d] = "exists" => req'[d].op = "add"
      BY <1>1 DEF Logins
    <2>1. CASE d = c
      BY <2>1, <1>2 DEF IInv, TypeOK
    <2>2. CASE d # c
      <3>1. pc'[d] = pc[d] /\ req'[d] = req[d]
        BY <2>2, <1>2 DEF IInv, TypeOK
      <3> QED
        BY <3>1, <1>1 DEF IInv, Logins
    <2> QED
      BY <2>1, <2>2
  <1>8. Agrees(disk.users)' /\ Agrees(users)'
    <2>1. disk'.users = disk.users
      BY <1>2, <1>4
    <2>2. /\ acked'[req[c].user] = "?"
          /\ \A u \in Users \ {req[c].user} : acked'[u] = acked[u]
      BY <1>1, <1>3 DEF IInv, TypeOK
    <2>3. "?" # "absent" /\ "?" \notin Passwords
      OBVIOUS
    <2>4. Agrees(disk.users)'
      BY <2>1, <2>2, <2>3 DEF IInv, File, Agrees
    <2>5. Agrees(users)'
      BY <1>1, <2>2, <2>3 DEF IInv, File, Agrees
    <2> QED
      BY <2>4, <2>5
  <1>9. File'
    <2>1. \A d \in Clients : pc'[d] = "saving" => d = c /\ InForce(d)'
      BY <1>1, <1>2 DEF IInv, TypeOK, Free, InForce
    <2>2. disk'.state = "torn" => hurt' \/ ~Free'
      BY <1>1, <1>2, <1>4 DEF IInv, TypeOK, Free, File
    <2>3. disk'.state = "none" => disk'.users = <<>>
      BY <1>2, <1>4 DEF IInv, File
    <2>4. disk'.users = <<>> => \A u \in Users : acked'[u] = "?"
      BY <1>1, <1>2, <1>3, <1>4 DEF IInv, TypeOK, File
    <2> QED
      BY <1>8, <2>1, <2>2, <2>3, <2>4 DEF File
  <1>10. NoOrphanSession'
    BY <1>1 DEF IInv, NoOrphanSession
  <1>11. MemoryIsSaved'
    BY <1>1, <1>2 DEF IInv, TypeOK, MemoryIsSaved, Free
  <1>12. StoredHashed' /\ StartsUnlessHurt'
    BY <1>1, <1>2, <1>4 DEF IInv, StoredHashed, StartsUnlessHurt
  <1> QED
    BY <1>5, <1>6, <1>7, <1>9, <1>10, <1>11, <1>12 DEF IInv

\* A step that changes nothing but who is at what, of a client.
LEMMA MoveKeeps ==
    ASSUME IInv, up = "up", Free, NEW c \in Clients, NEW at, NEW r \in Requests,
           pc' = [pc EXCEPT ![c] = at], req' = [req EXCEPT ![c] = r],
           at \in {"idle", "authenticated", "authorised", "exists"},
           at = "authenticated" => r.user \in DOMAIN users,
           at = "exists" => r.op = "add",
           UNCHANGED <<up, memory, disk, issued, cookie, crashes, history>>
    PROVE  IInv'
  <1> USE AccountsAssumption DEF AccountsAssumption, memory, history, IInv, TypeOK
  <1>1. /\ pc' \in [Clients \cup {Boot} -> {"idle", "authenticated", "authorised", "exists", "saving"}]
        /\ \A a \in DOMAIN pc' : pc'[a] # "saving"
        /\ pc'[Boot] = pc[Boot] /\ c # Boot
    BY DEF Free, Boot
  <1>2. req' \in [Clients -> Requests]
    OBVIOUS
  <1>3. TypeOK'
    BY <1>1, <1>2
  <1>4. Phases' /\ Somebody'
    BY <1>1 DEF Phases, Somebody, NoSession
  <1>5. Logins'
    BY <1>1 DEF Logins
  <1>6. File'
    BY <1>1 DEF File, Agrees, Free
  <1>7. NoOrphanSession' /\ MemoryIsSaved' /\ StoredHashed' /\ StartsUnlessHurt'
    BY <1>1 DEF NoOrphanSession, MemoryIsSaved, StoredHashed, StartsUnlessHurt, Free, CannotHash
  <1> QED
    BY <1>3, <1>4, <1>5, <1>6, <1>7

\* A password is set, of a new user or one there is.
LEMMA WithKeeps ==
    ASSUME IInv, up = "up", Free, NEW c \in Clients, pc[c] \in {"authorised", "exists"},
           req[c].op # "remove",
           Replace(c, With(req[c].user, req[c].pass), "nobody"), UNCHANGED sessions
    PROVE  IInv'
  <1>1. /\ req[c].user \in Users /\ req[c].pass \in Passwords /\ users \in Tables
        /\ sessions \in [Tokens -> Users \cup {"nobody"}]
    BY RequestFacts DEF IInv, TypeOK
  <1>2. PICK u \in Users, p \in Passwords : u = req[c].user /\ p = req[c].pass
    BY <1>1
  <1>3. PICK table : table = With(u, p)
    OBVIOUS
  <1>4. /\ table \in Tables /\ DOMAIN table = DOMAIN users \cup {u}
        /\ table[u] = Hashed(p)
        /\ \A v \in DOMAIN users : v # u => table[v] = users[v]
    BY <1>1, <1>3, WithFacts
  <1>5. DOMAIN table # {} /\ \A v \in DOMAIN table : table[v].hashed
    BY <1>4, HashedFacts DEF IInv, Somebody
  <1>6. /\ \A v \in Users \ {u} : /\ v \in DOMAIN table <=> v \in DOMAIN users
                                /\ v \in DOMAIN users => table[v] = users[v]
        /\ \A v \in DOMAIN users : v # "nobody" => v \in DOMAIN table
    BY <1>4
  <1>7. IF req[c].op = "remove" THEN req[c].user \notin DOMAIN table
        ELSE req[c].user \in DOMAIN table /\ table[req[c].user] = Hashed(req[c].pass)
    BY <1>2, <1>4
  <1>8. /\ sessions' \in [Tokens -> Users \cup {"nobody"}]
        /\ \A t \in Tokens : sessions'[t] # "nobody" => sessions'[t] = sessions[t] /\ sessions[t] # "nobody"
    BY <1>1
  <1>9. Replace(c, table, "nobody")
    BY <1>2, <1>3
  <1> QED
    BY <1>2, <1>4, <1>5, <1>6, <1>7, <1>8, <1>9, ReplaceKeeps

LEMMA FailKeeps ==
    ASSUME IInv, up = "up", Free, NEW c \in Clients, Fail(c)
    PROVE  IInv'
  BY MoveKeeps, NoRequestIsRequest DEF Fail, Finish

LEMMA AddUserKeeps ==
    ASSUME IInv, NEW c \in Clients, AddUser(c)
    PROVE  IInv'
  <1>1. up = "up" /\ Free /\ pc[c] = "authorised" /\ req[c].op = "add"
    BY DEF AddUser, Begins
  <1>2. ASSUME pc' = [pc EXCEPT ![c] = "exists"],
               UNCHANGED <<up, memory, disk, issued, cookie, req, crashes, history>>
        PROVE  IInv'
    <2>1. req' = [req EXCEPT ![c] = req[c]] /\ req[c] \in Requests
      BY <1>2 DEF IInv, TypeOK
    <2> QED
      BY <1>1, <1>2, <2>1, MoveKeeps
  <1>3. ASSUME Fail(c) PROVE IInv'
    BY <1>1, <1>3, FailKeeps
  <1>4. ASSUME Replace(c, With(req[c].user, req[c].pass), "nobody"), UNCHANGED sessions
        PROVE  IInv'
    BY <1>1, <1>4, WithKeeps
  <1> QED
    BY <1>2, <1>3, <1>4 DEF AddUser

LEMMA SetPasswordKeeps ==
    ASSUME IInv, NEW c \in Clients, SetPassword(c)
    PROVE  IInv'
  <1>1. up = "up" /\ Free /\ pc[c] \in {"authorised", "exists"} /\ req[c].op # "remove"
    BY DEF SetPassword, Begins, IInv, Phases, Logins
  <1>2. ASSUME Fail(c) PROVE IInv'
    BY <1>1, <1>2, FailKeeps
  <1>3. ASSUME Replace(c, With(req[c].user, req[c].pass), "nobody"), UNCHANGED sessions
        PROVE  IInv'
    BY <1>1, <1>3, WithKeeps
  <1> QED
    BY <1>2, <1>3 DEF SetPassword

\* Not the last one: somebody is left.
LEMMA RemoveUserKeeps ==
    ASSUME IInv, NEW c \in Clients, RemoveUser(c)
    PROVE  IInv'
  <1>1. up = "up" /\ Free /\ pc[c] = "authorised" /\ req[c].op = "remove"
    BY DEF RemoveUser, Begins
  <1>2. /\ req[c].user \in Users /\ users \in Tables
        /\ sessions \in [Tokens -> Users \cup {"nobody"}]
    BY RequestFacts DEF IInv, TypeOK
  <1>3. ASSUME Fail(c) PROVE IInv'
    BY <1>1, <1>3, FailKeeps
  <1>4. ASSUME NEW u \in Users, u = req[c].user, ~LastOne, u \in DOMAIN users,
               Replace(c, Restrict(users, DOMAIN users \ {u}), u), sessions' = SessionsWithout(u)
        PROVE  IInv'
    <2>1. PICK table : table = Restrict(users, DOMAIN users \ {u})
      OBVIOUS
    <2>2. /\ table \in Tables /\ DOMAIN table = DOMAIN users \ {u}
          /\ \A v \in DOMAIN users \ {u} : table[v] = users[v]
      BY <1>2, <2>1, RestrictFacts
    <2>3. DOMAIN table # {}
      <3>1. ASSUME DOMAIN table = {} PROVE FALSE
        <4>1. DOMAIN users = {u}
          BY <1>4, <2>2, <3>1
        <4>2. Cardinality(DOMAIN users) = 1
          BY <4>1, FS_Singleton
        <4> QED
          BY <1>4, <4>2 DEF LastOne
      <3> QED
        BY <3>1
    <2>4. \A v \in DOMAIN table : table[v].hashed
      BY <1>1, <2>2 DEF IInv, Somebody
    <2>5. /\ sessions' \in [Tokens -> Users \cup {"nobody"}]
          /\ \A t \in Tokens : sessions'[t] # "nobody" => sessions'[t] = sessions[t] /\ sessions[t] # u
      BY <1>2, <1>4 DEF SessionsWithout
    <2>6. /\ \A v \in Users \ {u} : /\ v \in DOMAIN table <=> v \in DOMAIN users
                                  /\ v \in DOMAIN users => table[v] = users[v]
          /\ \A v \in DOMAIN users : v # u => v \in DOMAIN table
          /\ u \notin DOMAIN table
      BY <2>2
    <2>7. Replace(c, table, u)
      BY <1>4, <2>1
    <2> QED
      BY <1>1, <1>4, <2>2, <2>3, <2>4, <2>5, <2>6, <2>7, ReplaceKeeps
  <1> QED
    BY <1>2, <1>3, <1>4 DEF RemoveUser

LEMMA AuthenticateKeeps ==
    ASSUME IInv, NEW c \in Clients, NEW u \in Users, NEW p \in Passwords, Authenticate(c, u, p)
    PROVE  IInv'
  <1>1. PICK r \in Requests : r = [op |-> "login", user |-> u, pass |-> Default]
    BY LoginIsRequest
  <1>2. r.user = u
    BY <1>1
  <1> QED
    BY <1>1, <1>2, MoveKeeps DEF Authenticate

LEMMA AuthoriseKeeps ==
    ASSUME IInv, NEW c \in Clients, NEW r \in Requests, Authorise(c, r)
    PROVE  IInv'
  BY MoveKeeps DEF Authorise

\* A session is begun for a user, or for one removed meanwhile.
LEMMA CreateSessionKeeps ==
    ASSUME IInv, NEW c \in Clients, CreateSession(c)
    PROVE  IInv'
  <1> USE AccountsAssumption DEF AccountsAssumption, CreateSession, Finish, IInv, TypeOK
  <1>1. issued + 1 \in Tokens /\ issued' = issued + 1 /\ c \notin Tokens
    BY DEF Tokens
  <1>2. /\ sessions' = [sessions EXCEPT ![issued + 1] = req[c].user] /\ req[c].user \in Users
        /\ UNCHANGED <<up, users, disk, crashes, acked, unsaved, hurt>>
    BY RequestFacts
  <1>3. /\ pc' = [pc EXCEPT ![c] = "idle"] /\ req' = [req EXCEPT ![c] = NoRequest]
        /\ \A a \in DOMAIN pc' : pc'[a] # "saving"
        /\ pc'[Boot] = pc[Boot]
    BY DEF Free, Boot
  <1>4. up = "up"
    BY DEF Phases
  <1>5. TypeOK'
    <2>1. cookie' \in [Clients -> 0..issued']
      BY <1>1 DEF Tokens
    <2>2. slipped' \subseteq Clients \cup Tokens /\ issued' \in 0..MaxTokens
      BY <1>1 DEF Tokens
    <2>3. req' \in [Clients -> Requests]
      BY <1>3, NoRequestIsRequest
    <2>4. sessions' \in [Tokens -> Users \cup {"nobody"}]
      BY <1>2
    <2> QED
      BY <1>2, <1>3, <1>4, <2>1, <2>2, <2>3, <2>4
  <1>6. Phases' /\ Somebody'
    BY <1>2, <1>3, <1>4 DEF Phases, Somebody
  <1>7. Logins'
    BY <1>1, <1>2, <1>3 DEF Logins
  <1>8. File'
    BY <1>2, <1>3 DEF File, Agrees, Free
  <1>9. NoOrphanSession'
    BY <1>1, <1>2 DEF NoOrphanSession, Logins
  <1>10. MemoryIsSaved' /\ StoredHashed' /\ StartsUnlessHurt'
    BY <1>2, <1>3 DEF MemoryIsSaved, StoredHashed, StartsUnlessHurt, Free, CannotHash
  <1> QED
    BY <1>5, <1>6, <1>7, <1>8, <1>9, <1>10

LEMMA LogoutKeeps ==
    ASSUME IInv, NEW c \in Clients, Logout(c)
    PROVE  IInv'
  <1> USE AccountsAssumption DEF AccountsAssumption, Logout, Begins, Finish, history, IInv, TypeOK
  <1>1. /\ pc' = [pc EXCEPT ![c] = "idle"] /\ req' = [req EXCEPT ![c] = NoRequest]
        /\ \A a \in DOMAIN pc' : pc'[a] # "saving"
        /\ pc'[Boot] = pc[Boot] /\ up = "up" /\ up' = up
    BY DEF Free, Boot
  <1>2. \A t \in Tokens : sessions'[t] # "nobody" => sessions'[t] = sessions[t]
    OBVIOUS
  <1>3. TypeOK'
    <2>1. req' \in [Clients -> Requests]
      BY <1>1, NoRequestIsRequest
    <2>2. sessions' \in [Tokens -> Users \cup {"nobody"}]
      OBVIOUS
    <2>3. cookie' \in [Clients -> 0..issued'] /\ UNCHANGED <<users, disk, issued, acked, unsaved, hurt, slipped>>
      OBVIOUS
    <2>4. pc' \in [Clients \cup {Boot} -> {"idle", "authenticated", "authorised", "exists", "saving"}]
      BY <1>1
    <2> QED
      BY <1>1, <2>1, <2>2, <2>3, <2>4
  <1>4. Phases' /\ Somebody' /\ Logins'
    BY <1>1 DEF Phases, Somebody, Logins
  <1>5. File'
    BY <1>1 DEF File, Agrees, Free
  <1>6. NoOrphanSession' /\ MemoryIsSaved' /\ StoredHashed' /\ StartsUnlessHurt'
    BY <1>1, <1>2 DEF NoOrphanSession, MemoryIsSaved, StoredHashed, StartsUnlessHurt, Free
  <1> QED
    BY <1>3, <1>4, <1>5, <1>6

\* Only the cookies change, or nothing.
LEMMA CookieKeeps ==
    ASSUME IInv, UNCHANGED <<up, memory, disk, issued, pc, req, crashes, history>>,
           cookie' \in [Clients -> 0..issued]
    PROVE  IInv'
  <1> USE DEF memory, history, IInv
  <1>1. TypeOK' /\ Phases' /\ Somebody' /\ Logins'
    BY DEF TypeOK, Phases, Somebody, Logins, NoSession
  <1>2. File'
    BY DEF File, Agrees, InForce, Free
  <1>3. NoOrphanSession' /\ MemoryIsSaved' /\ StoredHashed' /\ StartsUnlessHurt'
    BY DEF NoOrphanSession, MemoryIsSaved, StoredHashed, StartsUnlessHurt, Free, CannotHash
  <1> QED
    BY <1>1, <1>2, <1>3

-----------------------------------------------------------------------------
(* Writing, loading, crashing *)

\* The end of a write by a client: whole, and answered, or not.
LEMMA SavedKeeps ==
    ASSUME IInv, NEW c \in Clients, Saved(c)
    PROVE  IInv'
  <1> USE AccountsAssumption DEF AccountsAssumption, IInv, TypeOK
  <1>1. /\ pc[c] = "saving" /\ c # Boot /\ up = "up"
        /\ UNCHANGED <<up, users, sessions, issued, cookie, crashes, slipped>>
        /\ pc' = [pc EXCEPT ![c] = "idle"] /\ req' = [req EXCEPT ![c] = NoRequest]
    BY DEF Saved, Write, Phases, Boot
  <1>2. \/ /\ disk' = [state |-> "whole", users |-> users] /\ unsaved' = FALSE /\ UNCHANGED hurt
           /\ acked' = [acked EXCEPT ![req[c].user] = IF req[c].op = "remove" THEN "absent" ELSE req[c].pass]
        \/ unsaved' = TRUE /\ hurt' = TRUE /\ UNCHANGED <<disk, acked>>
    BY DEF Saved, Write
  <1>3. /\ \A a \in DOMAIN pc' : pc'[a] # "saving"
        /\ DOMAIN pc' = Clients \cup {Boot} /\ pc'[Boot] = pc[Boot]
    BY <1>1
  <1>4. req[c].user \in Users /\ req[c].pass \in Passwords /\ InForce(c)
    BY <1>1, RequestFacts DEF File
  <1>5. DOMAIN users # {} /\ \A u \in DOMAIN users : users[u].hashed
    BY <1>1 DEF Somebody
  <1>6. TypeOK'
    <2>1. req' \in [Clients -> Requests]
      BY <1>1, NoRequestIsRequest
    <2>2. disk' \in [state : {"none", "whole", "torn", "alien"}, users : Tables]
      BY <1>2
    <2>3. acked' \in [Users -> Passwords \cup {"?", "absent"}] /\ unsaved' \in BOOLEAN /\ hurt' \in BOOLEAN
      BY <1>2, <1>4
    <2> QED
      BY <1>1, <1>3, <2>1, <2>2, <2>3
  <1>7. Phases' /\ Somebody' /\ Logins'
    BY <1>1, <1>3 DEF Phases, Somebody, Logins
  <1>8. File'
    <2>1. Agrees(users)'
      <3>1. Agrees(users) /\ users' = users
        BY <1>1 DEF File
      <3>2. \A u \in Users : u # req[c].user => acked'[u] = acked[u]
        BY <1>2
      <3>3. acked'[req[c].user] # acked[req[c].user] =>
              acked'[req[c].user] = IF req[c].op = "remove" THEN "absent" ELSE req[c].pass
        BY <1>2, <1>4
      <3>4. "absent" \notin Passwords
        OBVIOUS
      <3> QED
        BY <1>4, <3>1, <3>2, <3>3, <3>4 DEF Agrees, InForce
    <2>2. Agrees(disk.users)'
      BY <1>1, <1>2, <2>1 DEF File, Agrees
    <2>3. disk'.users = <<>> => \A u \in Users : acked'[u] = "?"
      BY <1>2, <1>5, EmptyTable DEF File
    <2>4. (disk'.state = "torn" => hurt') /\ (disk'.state = "none" => disk'.users = <<>>)
      BY <1>2 DEF File
    <2> QED
      BY <1>3, <2>1, <2>2, <2>3, <2>4 DEF File
  <1>9. NoOrphanSession' /\ MemoryIsSaved'
    BY <1>1, <1>2 DEF NoOrphanSession, MemoryIsSaved
  <1>10. StoredHashed' /\ StartsUnlessHurt'
    BY <1>1, <1>2, <1>5 DEF StoredHashed, StartsUnlessHurt
  <1> QED
    BY <1>6, <1>7, <1>8, <1>9, <1>10

\* The same of main(), which gives up if it could not be written.
LEMMA LoadedKeeps ==
    ASSUME IInv, Loaded
    PROVE  IInv'
  <1> USE AccountsAssumption DEF AccountsAssumption, IInv, TypeOK
  <1>1. /\ up = "loading" /\ UNCHANGED <<users, sessions, issued, cookie, crashes, slipped, req, acked>>
        /\ pc' = [pc EXCEPT ![Boot] = "idle"]
        /\ \A c \in Clients : pc[c] = "idle"
    BY DEF Loaded, Write, Phases
  <1>2. \/ disk' = [state |-> "whole", users |-> users] /\ unsaved' = FALSE /\ UNCHANGED hurt /\ up' = "up"
        \/ unsaved' = TRUE /\ hurt' = TRUE /\ UNCHANGED disk /\ up' = "dead"
    BY DEF Loaded, Write
  <1>3. /\ \A a \in DOMAIN pc' : pc'[a] = "idle"
        /\ DOMAIN pc' = Clients \cup {Boot}
    BY <1>1
  <1>4. DOMAIN users # {} /\ \A u \in DOMAIN users : users[u].hashed
    BY <1>1 DEF Somebody
  <1>5. TypeOK'
    <2>1. disk' \in [state : {"none", "whole", "torn", "alien"}, users : Tables]
      BY <1>2
    <2> QED
      BY <1>1, <1>2, <1>3, <2>1
  <1>6. Phases' /\ Somebody' /\ Logins'
    BY <1>1, <1>2, <1>3 DEF Phases, Somebody, Logins, NoSession, Boot
  <1>7. File'
    <2>1. Agrees(users)' /\ Agrees(disk.users)'
      BY <1>1, <1>2 DEF File, Agrees
    <2>2. disk'.users = <<>> => \A u \in Users : acked'[u] = "?"
      BY <1>1, <1>2, <1>4, EmptyTable DEF File
    <2>3. (disk'.state = "torn" => hurt') /\ (disk'.state = "none" => disk'.users = <<>>)
      BY <1>2 DEF File
    <2> QED
      BY <1>3, <2>1, <2>2, <2>3 DEF File
  <1>8. NoOrphanSession' /\ MemoryIsSaved'
    BY <1>1, <1>2 DEF NoOrphanSession, MemoryIsSaved
  <1>9. StoredHashed' /\ StartsUnlessHurt'
    BY <1>1, <1>2, <1>4 DEF StoredHashed, StartsUnlessHurt
  <1> QED
    BY <1>5, <1>6, <1>7, <1>8, <1>9

\* Sessions and memory are lost, the file stays as it is.
LEMMA CrashKeeps ==
    ASSUME IInv, Crash
    PROVE  IInv'
  <1> USE AccountsAssumption DEF AccountsAssumption, Crash, IInv, TypeOK
  <1>1. /\ \A a \in DOMAIN pc' : pc'[a] = "idle"
        /\ DOMAIN pc' = Clients \cup {Boot}
    OBVIOUS
  <1>2. TypeOK'
    <2>1. users' \in Tables /\ req' \in [Clients -> Requests]
      BY EmptyTable, NoRequestIsRequest
    <2>2. sessions' \in [Tokens -> Users \cup {"nobody"}]
      BY DEF NoSession
    <2>3. unsaved' \in BOOLEAN /\ hurt' \in BOOLEAN
      BY DEF Free
    <2> QED
      BY <1>1, <2>1, <2>2, <2>3
  <1>3. Phases' /\ Somebody' /\ Logins'
    BY <1>1 DEF Phases, Somebody, Logins, Boot
  <1>4. File'
    <2>1. Free'
      BY <1>1 DEF Free
    <2>2. disk'.state = "torn" => hurt'
      BY DEF File, Free
    <2>3. Agrees(disk.users)'
      BY DEF File, Agrees
    <2> QED
      BY <1>1, <2>1, <2>2, <2>3 DEF File
  <1>5. NoOrphanSession' /\ MemoryIsSaved' /\ StoredHashed' /\ StartsUnlessHurt'
    BY DEF NoOrphanSession, MemoryIsSaved, StoredHashed, StartsUnlessHurt, NoSession
  <1> QED
    BY <1>2, <1>3, <1>4, <1>5

\* load() begins a write.
LEMMA BeginKeeps ==
    ASSUME IInv, up = "down",
           NEW table \in Tables, DOMAIN table # {}, \A u \in DOMAIN table : table[u].hashed,
           Agrees(table), Save(Boot, table), up' = "loading",
           UNCHANGED <<sessions, issued, cookie, req, crashes, acked, hurt, slipped>>
    PROVE  IInv'
  <1> USE AccountsAssumption DEF AccountsAssumption, IInv, TypeOK
  <1>1. /\ users' = table /\ UNCHANGED unsaved
        /\ disk' = [disk EXCEPT !.state = "torn"]
        /\ pc' = [pc EXCEPT ![Boot] = "saving"]
    BY DEF Save
  <1>2. \A c \in Clients : c # Boot /\ pc[c] = "idle" /\ pc'[c] = "idle"
    BY <1>1 DEF Phases, Boot
  <1>3. pc'[Boot] = "saving" /\ DOMAIN pc' = Clients \cup {Boot}
    BY <1>1
  <1>4. disk'.users = disk.users /\ disk'.state = "torn"
    BY <1>1
  <1>5. TypeOK'
    <2>1. disk' \in [state : {"none", "whole", "torn", "alien"}, users : Tables]
      BY <1>1
    <2> QED
      BY <1>1, <1>2, <1>3, <2>1
  <1>6. Phases' /\ Somebody' /\ Logins'
    BY <1>1, <1>2, <1>3 DEF Phases, Somebody, Logins, NoSession
  <1>7. File'
    <2>1. Agrees(users)' /\ Agrees(disk.users)'
      BY <1>1, <1>4 DEF File, Agrees
    <2>2. ~Free'
      BY <1>3 DEF Free
    <2> QED
      BY <1>2, <1>4, <2>1, <2>2 DEF File
  <1>8. NoOrphanSession' /\ MemoryIsSaved' /\ StoredHashed' /\ StartsUnlessHurt'
    BY DEF NoOrphanSession, MemoryIsSaved, StoredHashed, StartsUnlessHurt, Phases, NoSession
  <1> QED
    BY <1>5, <1>6, <1>7, <1>8

LEMMA LoadKeeps ==
    ASSUME IInv, Load
    PROVE  IInv'
  <1>1. PICK table : table = IF disk.users = <<>> THEN OnlyAdmin ELSE disk.users
    OBVIOUS
  <1>2. PICK hashed : hashed = [u \in DOMAIN table |-> Hashed(table[u].pass)]
    OBVIOUS
  <1>3. /\ up = "down" /\ disk \in [state : {"none", "whole", "torn", "alien"}, users : Tables]
        /\ acked \in [Users -> Passwords \cup {"?", "absent"}]
        /\ UNCHANGED <<sessions, issued, cookie, req, crashes, acked, hurt, slipped>>
    BY DEF Load, IInv, TypeOK
  <1>4. table \in Tables /\ DOMAIN table # {}
    BY <1>1, <1>3, OnlyAdminFacts, EmptyTable
  <1>5. disk.users = <<>> => \A t \in Tables : Agrees(t)
    BY AccountsAssumption DEF AccountsAssumption, IInv, File, Agrees
  <1>6. Agrees(table)
    BY <1>1, <1>4, <1>5 DEF IInv, File
  <1>7. ASSUME BeginWith, Save(Boot, OnlyAdmin), up' = "loading" PROVE IInv'
    <2>1. Agrees(OnlyAdmin)
      BY <1>5, <1>7, OnlyAdminFacts DEF BeginWith, IInv, File
    <2> QED
      BY <1>3, <1>7, <2>1, OnlyAdminFacts, BeginKeeps
  <1>8. ASSUME Save(Boot, hashed), up' = "loading" PROVE IInv'
    <2>1. /\ hashed \in Tables /\ DOMAIN hashed = DOMAIN table
          /\ \A u \in DOMAIN table : hashed[u].hashed
          /\ \A u \in DOMAIN table, p \in Passwords : table[u] = Hashed(p) => hashed[u] = Hashed(p)
      BY <1>2, <1>4, UpgradedFacts
    <2>2. Agrees(hashed)
      BY <1>6, <2>1 DEF Agrees
    <2> QED
      BY <1>3, <1>4, <1>8, <2>1, <2>2, BeginKeeps
  <1>9. ASSUME disk.state = "whole", ~NeedsSave(table), users' = table, up' = "up",
               unsaved' = (disk.users = <<>>), UNCHANGED <<disk, pc>>
        PROVE  IInv'
    <2> USE AccountsAssumption, <1>3, <1>9 DEF AccountsAssumption, IInv
    <2>1. \A u \in DOMAIN table : table[u].hashed
      BY DEF NeedsSave
    <2>2. \A a \in Clients \cup {Boot} : pc[a] = "idle"
      BY DEF Phases
    <2>3. TypeOK'
      BY <1>4, <2>2 DEF TypeOK
    <2>4. Phases' /\ Somebody' /\ Logins'
      BY <1>4, <2>1, <2>2 DEF Phases, Somebody, Logins
    <2>5. File'
      BY <1>6, <2>2 DEF File, Agrees
    <2>6. NoOrphanSession' /\ StartsUnlessHurt'
      BY DEF NoOrphanSession, StartsUnlessHurt, Phases, NoSession
    <2>7. MemoryIsSaved' /\ StoredHashed'
      <3>1. disk.users # <<>> => disk = [state |-> "whole", users |-> table]
        BY <1>1
      <3>2. \A u \in DOMAIN disk.users : disk.users[u].hashed
        BY <1>1, <2>1, EmptyTable
      <3> QED
        BY <3>1, <3>2 DEF MemoryIsSaved, StoredHashed
    <2> QED
      BY <2>3, <2>4, <2>5, <2>6, <2>7
  <1>10. \/ BeginWith /\ Save(Boot, OnlyAdmin) /\ up' = "loading"
         \/ Save(Boot, hashed) /\ up' = "loading"
         \/ /\ disk.state = "whole" /\ ~NeedsSave(table) /\ users' = table /\ up' = "up"
            /\ unsaved' = (disk.users = <<>>) /\ UNCHANGED <<disk, pc>>
    BY <1>1, <1>2 DEF Load
  <1> QED
    BY <1>7, <1>8, <1>9, <1>10

\* The server does not start: over a torn or an alien file, a password it cannot
\* hash, or a file it cannot read or write.
LEMMA LoadFailsKeeps ==
    ASSUME IInv, LoadFails
    PROVE  IInv'
  <1> USE DEF LoadFails, memory, IInv
  <1>1. /\ up = "down" /\ up' = "dead" /\ hurt' \in {hurt, TRUE}
        /\ UNCHANGED <<users, sessions, disk, issued, cookie, pc, req, crashes, acked, unsaved, slipped>>
    OBVIOUS
  <1>2. TypeOK' /\ Phases' /\ Somebody' /\ Logins'
    <2>1. TypeOK'
      BY <1>1 DEF TypeOK
    <2>2. Phases' /\ Somebody'
      BY <1>1 DEF Phases, Somebody, NoSession
    <2>3. Logins'
      BY <1>1 DEF Logins
    <2> QED
      BY <2>1, <2>2, <2>3
  <1>3. File'
    BY <1>1 DEF File, Agrees, Free, InForce
  <1>4. NoOrphanSession' /\ MemoryIsSaved' /\ StoredHashed'
    BY <1>1 DEF NoOrphanSession, MemoryIsSaved, StoredHashed, Phases, NoSession
  <1>5. Free
    BY <1>1 DEF Phases, Free
  <1>6. StartsUnlessHurt'
    BY <1>1, <1>5 DEF StartsUnlessHurt, File, BeginWith, CannotHash
  <1> QED
    BY <1>2, <1>3, <1>4, <1>6

-----------------------------------------------------------------------------
(* Theorems *)

LEMMA NextIInv == IInv /\ [Next]_vars => IInv'
  <1> SUFFICES ASSUME IInv, [Next]_vars PROVE IInv'
    OBVIOUS
  <1>1. ASSUME NEW c \in Clients, CookieExpires(c) PROVE IInv'
    <2>1. cookie' \in [Clients -> 0..issued]
      BY <1>1, AccountsAssumption DEF CookieExpires, IInv, TypeOK, AccountsAssumption
    <2> QED
      BY <1>1, <2>1, CookieKeeps DEF CookieExpires
  <1>2. CASE UNCHANGED vars
    <2>1. cookie' \in [Clients -> 0..issued]
      BY <1>2 DEF vars, IInv, TypeOK
    <2> QED
      BY <1>2, <2>1, CookieKeeps DEF vars
  <1> QED
    BY <1>1, <1>2, LoadKeeps, LoadFailsKeeps, LoadedKeeps, CrashKeeps, SavedKeeps, CreateSessionKeeps,
       LogoutKeeps, AddUserKeeps, SetPasswordKeeps, RemoveUserKeeps, AuthenticateKeeps, AuthoriseKeeps
       DEF Next

LEMMA Invariance == Spec => []IInv
  BY InitIInv, NextIInv, PTL DEF Spec

\* Every variable keeps its type; one request at a time is at the file.
THEOREM TypeCorrect == Spec => []TypeOK
  <1>1. IInv => TypeOK
    BY DEF IInv
  <1> QED
    BY <1>1, Invariance, PTL

\* Whatever is removed, saved or not and loaded again: there is somebody who can
\* log in.
THEOREM SomebodyIsThere == Spec => []NeverEmpty
  <1>1. IInv => NeverEmpty
    BY EmptyTable DEF IInv, Somebody, NeverEmpty
  <1> QED
    BY <1>1, Invariance, PTL

\* No session outlives its user, but one begun for a user removed meanwhile.
THEOREM SessionsHaveUsers == Spec => []NoOrphanSession
  <1>1. IInv => NoOrphanSession
    BY DEF IInv
  <1> QED
    BY <1>1, Invariance, PTL

\* The file holds the users as they are in memory, unless its last write failed.
THEOREM FileIsCurrent == Spec => []MemoryIsSaved
  <1>1. IInv => MemoryIsSaved
    BY DEF IInv
  <1> QED
    BY <1>1, Invariance, PTL

\* What was answered without an error is in force, also after a restart.
THEOREM AnswersHold == Spec => []AckedSurvives
  <1>1. IInv => AckedSurvives
    BY DEF IInv, File, Agrees, AckedSurvives
  <1> QED
    BY <1>1, Invariance, PTL

\* The users file holds no password in plaintext while the server is up.
THEOREM NoPlaintext == Spec => []StoredHashed
  <1>1. IInv => StoredHashed
    BY DEF IInv
  <1> QED
    BY <1>1, Invariance, PTL

\* The server refuses to start only over a file it cannot read or write, after a
\* write that was cut short or failed, or over one that a person wrote and that is
\* no JSON or has a password it cannot hash.
THEOREM RefusesOnlyHurt == Spec => []StartsUnlessHurt
  <1>1. IInv => StartsUnlessHurt
    BY DEF IInv
  <1> QED
    BY <1>1, Invariance, PTL

=============================================================================
