------------------------------ MODULE Accounts ------------------------------
(***************************************************************************)
(* Users and sessions: src/auth.go and the handlers of src/server.go that  *)
(* use it.  The users are kept in memory and, rewritten in place after     *)
(* every change, in a file; sessions are kept in memory only.              *)
(*                                                                         *)
(* A step is one critical section of authManager.mu, except that one that  *)
(* writes the file has two: the change up to the truncation, and the rest. *)
(* A login has two sections, and so has adding a user who exists already;  *)
(* a request is authorised before its handler begins.                      *)
(***************************************************************************)
EXTENDS Integers, FiniteSets, Functions

CONSTANTS
    Users, Admin,     \* names; the one a file is begun with
    Passwords, Default, \* ... and its password
    TooLong,          \* passwords bcrypt refuses
    Provisioned,      \* tables of a users file that is there before
    Clients,          \* browsers, one request at a time each
    MaxTokens,        \* bound: sessions ever created
    MaxCrashes        \* bound

\* Possible contents of users, and of the file.
Tables == UNION {[D -> [pass : Passwords, hashed : BOOLEAN]] : D \in SUBSET Users}

ASSUME AccountsAssumption ==
    /\ Admin \in Users /\ Default \in Passwords \ TooLong
    /\ "nobody" \notin Users /\ "?" \notin Passwords /\ "absent" \notin Passwords
    /\ Provisioned \subseteq Tables
    /\ MaxTokens \in Nat /\ MaxCrashes \in Nat
    /\ "main" \notin Clients /\ Clients \cap (1..MaxTokens) = {}

VARIABLES
    up,         \* the process is "down", "loading", "up", or has given up: "dead"
    users,      \* authManager.users
    disk,       \* the users file: "whole", or cut short: "torn", or "alien": one
                \* that somebody wrote and that is no JSON of a list of users
    sessions,   \* the user of each token, "nobody" if there is no session
    issued,     \* tokens handed out
    cookie,     \* the token each client holds, or 0
    pc, req,    \* where each client's request is, and what it asks for
    crashes,
    acked,      \* history: what the last request about a user was answered for
    unsaved,    \* history: the last write of the file failed, or was not made
    hurt,       \* history: a write was cut short by a crash or an error, or
                \* load() could not read the file or begin a write
    slipped     \* history: clients whose login was overtaken by the removal
                \* of its user, and the tokens they then got

memory  == <<users, sessions>>
history == <<acked, unsaved, hurt, slipped>>
vars == <<up, memory, disk, issued, cookie, pc, req, crashes, history>>

NoRequest == [op |-> "logout", user |-> Admin, pass |-> Default]
Tokens == 1..MaxTokens
\* A request as its handler looks at it.
Requests == [op : {"add", "set"}, user : Users, pass : Passwords]
            \cup [op : {"login", "remove"}, user : Users, pass : {Default}] \cup {NoRequest}
Boot == "main"   \* newAuthManager, in the goroutine of main()

TypeOK ==
    /\ up \in {"down", "loading", "up", "dead"}
    /\ users \in Tables
    /\ disk \in [state : {"none", "whole", "torn", "alien"}, users : Tables]
    /\ sessions \in [Tokens -> Users \cup {"nobody"}]
    /\ issued \in 0..MaxTokens
    /\ cookie \in [Clients -> 0..issued]
    /\ pc \in [Clients \cup {Boot} -> {"idle", "authenticated", "authorised", "exists", "saving"}]
    /\ \A a, b \in DOMAIN pc : pc[a] = "saving" /\ pc[b] = "saving" => a = b
    /\ req \in [Clients -> Requests]
    /\ acked \in [Users -> Passwords \cup {"?", "absent"}]
    /\ unsaved \in BOOLEAN /\ hurt \in BOOLEAN
    /\ slipped \subseteq Clients \cup Tokens

Hashed(p) == [pass |-> p, hashed |-> TRUE]

\* The table of a new users file.
OnlyAdmin == [u \in {Admin} |-> Hashed(Default)]

NoSession == [t \in Tokens |-> "nobody"]

Init ==
    /\ up = "down"
    /\ users = <<>>
    /\ disk \in {[state |-> s, users |-> <<>>] : s \in {"none", "alien"}}
                \cup {[state |-> "whole", users |-> t] : t \in Provisioned}
    /\ sessions = NoSession
    /\ issued = 0
    /\ cookie = [c \in Clients |-> 0]
    /\ pc = [a \in Clients \cup {Boot} |-> "idle"]
    /\ req = [c \in Clients |-> NoRequest]
    /\ crashes = 0
    /\ acked = [u \in Users |-> "?"]
    /\ unsaved = FALSE /\ hurt = FALSE
    /\ slipped = {}

-----------------------------------------------------------------------------
(* saveLocked *)

\* MUTANT: the lock is not taken.
FreeAlways == TRUE

\* authManager.mu
Free == \A a \in Clients \cup {Boot} : pc[a] # "saving"

Finish(c) == pc' = [pc EXCEPT ![c] = "idle"] /\ req' = [req EXCEPT ![c] = NoRequest]

\* MUTANT: the file is left for later.
SaveLater(a, table) ==
    /\ users' = table
    /\ pc' = [pc EXCEPT ![a] = "idle"]
    /\ UNCHANGED <<disk, unsaved>>

\* The file is truncated, or cannot be opened.
Save(a, table) ==
    /\ users' = table
    /\ \/ /\ disk' = [disk EXCEPT !.state = "torn"]
          /\ pc' = [pc EXCEPT ![a] = "saving"]
          /\ UNCHANGED unsaved
       \/ /\ a # Boot
          /\ unsaved' = TRUE
          /\ pc' = [pc EXCEPT ![a] = "idle"]
          /\ UNCHANGED disk

\* It is written, or some of it is.
Write(a) ==
    /\ pc[a] = "saving"
    /\ \/ disk' = [state |-> "whole", users |-> users] /\ unsaved' = FALSE /\ UNCHANGED hurt
       \/ unsaved' = TRUE /\ hurt' = TRUE /\ UNCHANGED disk
    /\ pc' = [pc EXCEPT ![a] = "idle"]
    /\ UNCHANGED <<users, sessions, issued, cookie, crashes, slipped>>

\* The request is answered, with the new list or with an error.
Saved(c) ==
    /\ Write(c)
    /\ acked' = IF unsaved' THEN acked
                ELSE [acked EXCEPT ![req[c].user] = IF req[c].op = "remove" THEN "absent" ELSE req[c].pass]
    /\ req' = [req EXCEPT ![c] = NoRequest]
    /\ UNCHANGED up

-----------------------------------------------------------------------------
(* load *)

CannotHash(entry) == ~entry.hashed /\ entry.pass \in TooLong

NeedsSave(table) == \E u \in DOMAIN table : ~table[u].hashed

\* MUTANT: there has to be a file.
BeginWithout == FALSE

\* A missing file is begun with the default user.
BeginWith == disk.state = "none"

\* Plaintext is hashed; an empty table gets the default user, and no write.
Load ==
    /\ up = "down"
    /\ LET table == IF disk.users = <<>> THEN OnlyAdmin ELSE disk.users
           hashed == [u \in DOMAIN table |-> Hashed(table[u].pass)]
       IN  \/ /\ BeginWith
              /\ Save(Boot, OnlyAdmin)
              /\ up' = "loading"
           \/ /\ disk.state = "whole"
              /\ NeedsSave(table) /\ \A u \in DOMAIN table : ~CannotHash(table[u])
              /\ Save(Boot, hashed)
              /\ up' = "loading"
           \/ /\ disk.state = "whole"
              /\ ~NeedsSave(table)
              /\ users' = table
              /\ up' = "up"
              /\ unsaved' = (disk.users = <<>>)
              /\ UNCHANGED <<disk, pc>>
    /\ UNCHANGED <<sessions, issued, cookie, req, crashes, acked, hurt, slipped>>

\* log.Fatalf: the content cannot be parsed or a password in it not be hashed;
\* or the file, whatever is in it, cannot be read, begun or upgraded.
LoadFails ==
    /\ up = "down"
    /\ up' = "dead"
    /\ \/ disk.state \in {"torn", "alien"} /\ UNCHANGED hurt
       \/ disk.state = "none" /\ ~BeginWith /\ UNCHANGED hurt
       \/ disk.state = "whole" /\ (\E u \in DOMAIN disk.users : CannotHash(disk.users[u])) /\ UNCHANGED hurt
       \/ hurt' = TRUE
    /\ UNCHANGED <<memory, disk, issued, cookie, pc, req, crashes, acked, unsaved, slipped>>

Loaded ==
    /\ Write(Boot)
    /\ up' = IF unsaved' THEN "dead" ELSE "up"
    /\ UNCHANGED <<req, acked>>

Crash ==
    /\ up \in {"loading", "up"}
    /\ crashes < MaxCrashes
    /\ crashes' = crashes + 1
    /\ up' = "down"
    /\ users' = <<>> /\ sessions' = NoSession
    /\ pc' = [a \in DOMAIN pc |-> "idle"]
    /\ req' = [c \in Clients |-> NoRequest]
    /\ hurt' = (hurt \/ ~Free)
    /\ unsaved' = (unsaved \/ ~Free)
    /\ slipped' = slipped \ Clients
    /\ UNCHANGED <<disk, issued, cookie, acked>>

-----------------------------------------------------------------------------
(* handleLogin *)

Authenticate(c, u, p) ==
    /\ up = "up" /\ Free /\ pc[c] = "idle"
    /\ issued < MaxTokens
    /\ u \in DOMAIN users /\ users[u] = Hashed(p)
    /\ pc' = [pc EXCEPT ![c] = "authenticated"]
    /\ req' = [req EXCEPT ![c] = [op |-> "login", user |-> u, pass |-> Default]]
    /\ UNCHANGED <<up, memory, disk, issued, cookie, crashes, history>>

CreateSession(c) ==
    /\ Free /\ pc[c] = "authenticated"
    /\ issued < MaxTokens
    /\ issued' = issued + 1
    /\ sessions' = [sessions EXCEPT ![issued + 1] = req[c].user]
    /\ cookie' = [cookie EXCEPT ![c] = issued + 1]
    /\ slipped' = IF c \in slipped THEN (slipped \ {c}) \cup {issued + 1} ELSE slipped
    /\ Finish(c)
    /\ UNCHANGED <<up, users, disk, crashes, acked, unsaved, hurt>>

-----------------------------------------------------------------------------
(* requireAuth, and the handlers behind it *)

SessionUser(c) == IF cookie[c] = 0 THEN "nobody" ELSE sessions[cookie[c]]

Authorise(c, r) ==
    /\ up = "up" /\ Free /\ pc[c] = "idle"
    /\ r.op # "login"
    /\ SessionUser(c) # "nobody"
    /\ pc' = [pc EXCEPT ![c] = "authorised"]
    /\ req' = [req EXCEPT ![c] = r]
    /\ UNCHANGED <<up, memory, disk, issued, cookie, crashes, history>>

Begins(c, op) == up = "up" /\ Free /\ pc[c] = "authorised" /\ req[c].op = op

\* handleLogout
Logout(c) ==
    /\ Begins(c, "logout")
    /\ sessions' = IF cookie[c] = 0 THEN sessions ELSE [sessions EXCEPT ![cookie[c]] = "nobody"]
    /\ cookie' = [cookie EXCEPT ![c] = 0]
    /\ Finish(c)
    /\ UNCHANGED <<up, users, disk, issued, crashes, history>>

\* The browser drops a cookie after a day; the session stays.
CookieExpires(c) ==
    /\ pc[c] = "idle" /\ cookie[c] # 0
    /\ cookie' = [cookie EXCEPT ![c] = 0]
    /\ UNCHANGED <<up, memory, disk, issued, pc, req, crashes, history>>

\* The answer is an error, and nothing has changed.
Fail(c) ==
    /\ Finish(c)
    /\ UNCHANGED <<up, memory, disk, issued, cookie, crashes, history>>

\* The table is changed and saved; what was answered before counts no more.
Replace(c, table, gone) ==
    /\ Save(c, table)
    /\ req' = IF pc'[c] = "idle" THEN [req EXCEPT ![c] = NoRequest] ELSE req
    /\ acked' = [acked EXCEPT ![req[c].user] = "?"]
    /\ slipped' = slipped \cup {d \in Clients : pc[d] = "authenticated" /\ req[d].user = gone}
    /\ UNCHANGED <<up, issued, cookie, crashes, hurt>>

\* MUTANT: who exists keeps the password.
WithNew(u, p) == [v \in DOMAIN users \cup {u} |-> IF v \in DOMAIN users THEN users[v] ELSE Hashed(p)]

With(u, p) == [v \in DOMAIN users \cup {u} |-> IF v = u THEN Hashed(p) ELSE users[v]]

\* addUser; a user who exists gets the password instead.
AddUser(c) ==
    /\ Begins(c, "add")
    /\ \/ /\ req[c].user \in DOMAIN users
          /\ pc' = [pc EXCEPT ![c] = "exists"]
          /\ UNCHANGED <<up, memory, disk, issued, cookie, req, crashes, history>>
       \/ req[c].user \notin DOMAIN users /\ req[c].pass \in TooLong /\ Fail(c)
       \/ /\ req[c].user \notin DOMAIN users /\ req[c].pass \notin TooLong
          /\ Replace(c, With(req[c].user, req[c].pass), "nobody")
          /\ UNCHANGED sessions

SetPassword(c) ==
    /\ Begins(c, "set") \/ (Free /\ pc[c] = "exists")
    /\ \/ (req[c].user \notin DOMAIN users \/ req[c].pass \in TooLong) /\ Fail(c)
       \/ /\ req[c].user \in DOMAIN users /\ req[c].pass \notin TooLong
          /\ Replace(c, With(req[c].user, req[c].pass), "nobody")
          /\ UNCHANGED sessions

\* MUTANT: one session of a user is ended.
SessionsWithoutOne(u) ==
    LET of == {t \in Tokens : sessions[t] = u}
    IN  IF of = {} THEN sessions ELSE [sessions EXCEPT ![CHOOSE t \in of : TRUE] = "nobody"]

SessionsWithout(u) == [t \in Tokens |-> IF sessions[t] = u THEN "nobody" ELSE sessions[t]]

\* MUTANT: one too few.
LastOneFewer == Cardinality(DOMAIN users) < 1

LastOne == Cardinality(DOMAIN users) <= 1

RemoveUser(c) ==
    LET u == req[c].user
    IN  /\ Begins(c, "remove")
        /\ \/ (LastOne \/ u \notin DOMAIN users) /\ Fail(c)
           \/ /\ ~LastOne /\ u \in DOMAIN users
              /\ Replace(c, Restrict(users, DOMAIN users \ {u}), u)
              /\ sessions' = SessionsWithout(u)

-----------------------------------------------------------------------------

Next ==
    \/ Load \/ LoadFails \/ Loaded \/ Crash
    \/ \E c \in Clients :
          \/ Saved(c) \/ CreateSession(c) \/ Logout(c) \/ CookieExpires(c)
          \/ AddUser(c) \/ SetPassword(c) \/ RemoveUser(c)
          \/ \E u \in Users, p \in Passwords : Authenticate(c, u, p)
          \/ \E r \in Requests : Authorise(c, r)

Spec == Init /\ [][Next]_vars

-----------------------------------------------------------------------------
(* Properties *)

\* There is always somebody who can log in, whatever is removed, saved or not
\* and loaded again.
NeverEmpty == up = "up" => users # <<>>

\* A session is one of a user there is, but for a user who was removed between
\* the two steps of the login.
NoOrphanSession ==
    \A t \in Tokens \ slipped : sessions[t] # "nobody" => sessions[t] \in DOMAIN users

\* Unless the last write failed, the file holds the users as they are in
\* memory; with it, nothing that is in force is lost in a restart.
MemoryIsSaved ==
    up = "up" /\ Free /\ ~unsaved => disk = [state |-> "whole", users |-> users]

\* A change that was answered without an error is in force, also after a
\* restart, until another request is about the same user.
AckedSurvives ==
    up = "up" =>
        \A u \in Users :
            /\ acked[u] = "absent" => u \notin DOMAIN users
            /\ acked[u] \in Passwords => u \in DOMAIN users /\ users[u] = Hashed(acked[u])

\* README.md:344: passwords are stored hashed, once the server serves.
StoredHashed ==
    up = "up" => \A u \in DOMAIN disk.users : disk.users[u].hashed

\* The server refuses to start only if the file cannot be read or written, after
\* a write that failed or was cut short by a crash, or over what a person wrote
\* into the file: no JSON, or a password it cannot hash.  Nothing else that the
\* program does to its file makes it refuse that file later.
StartsUnlessHurt ==
    up = "dead" =>
        hurt \/ disk.state = "alien" \/ \E u \in DOMAIN disk.users : CannotHash(disk.users[u])

\* README.md:350: logging out is public so that a client can always sign out.
\* It needs a session, and without one, as after a restart, the cookie stays.
CanSignOut == \A c \in Clients : up = "up" /\ cookie[c] # 0 => SessionUser(c) # "nobody"

=============================================================================
