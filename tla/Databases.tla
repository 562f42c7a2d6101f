----------------------------- MODULE Databases -----------------------------
(***************************************************************************)
(* The registry of connection pools (storage/db.rs) and the database file  *)
(* of one provider under it: whoever wants the database opens it, fills it *)
(* and reads it, while connections come and go, the provider is deleted    *)
(* (storage/mod.rs) and the server restarts.                               *)
(*                                                                         *)
(* The registry knows a pool by the provider's name.  The pool knows the   *)
(* path; each of its connections knows the file the path led to when the   *)
(* connection was made, also when that file has been unlinked since.       *)
(***************************************************************************)
EXTENDS Naturals, Sequences

CONSTANTS
  Users,     \* jobs and requests
  Nowhere,   \* no file, no holder
  MaxFiles,  \* bound: database files created
  MaxRows,   \* bound: rows stored
  MaxEnds    \* bound: deletions and restarts

ASSUME DatabasesAssumption ==
  /\ MaxFiles \in Nat /\ MaxRows \in Nat /\ MaxEnds \in Nat
  /\ Nowhere \notin Nat \cup Users

VARIABLES
  files,      \* every database file there ever was
  path,       \* the one at results/<key>/documents.db
  directory,  \* does results/<key> exist?
  registered, \* is there a pool of the provider in connections?
  pool,       \* the files its idle connections have
  holder,     \* the user that holds connections.write()
  user,       \* step of each user, and the file it is opening
  ends,       \* deletions and restarts so far
  deleted,    \* was the provider deleted since the server started?
  committed   \* rows stored since then

disk     == <<files, path, directory>>
registry == <<registered, pool>>
ghosts   == <<ends, deleted, committed>>
databaseVars == <<disk, registry, holder, user, ghosts>>

File == [migrated : BOOLEAN, rows : Nat]
User == [at : {"idle", "asked", "opening", "migrating", "connected"},
         wants : {"get", "get_if_exists"}, file : Nat]

NoUser == [at |-> "idle", wants |-> "get", file |-> 0]

DatabasesTypeOK ==
  /\ files \in Seq(File)
  /\ path \in DOMAIN files \cup {Nowhere}
  /\ directory \in BOOLEAN
  /\ registered \in BOOLEAN /\ pool \subseteq DOMAIN files
  /\ holder \in Users \cup {Nowhere}
  /\ user \in [Users -> User]
  /\ ends \in Nat /\ deleted \in BOOLEAN /\ committed \in Nat

DatabasesInit ==
  /\ files = <<>> /\ path = Nowhere /\ directory = FALSE
  /\ registered = FALSE /\ pool = {} /\ holder = Nowhere
  /\ user = [u \in Users |-> NoUser]
  /\ ends = 0 /\ deleted = FALSE /\ committed = 0

Stands(u, step) == user[u].at = step
Goes(u, step) == user' = [user EXCEPT ![u].at = step]
Leaves(u) == user' = [user EXCEPT ![u] = NoUser]

-----------------------------------------------------------------------------
(* get, get_if_exists *)

\* The registry is read first.  Only get_if_exists looks at the disk.
Ask(u, wants) ==
  /\ Stands(u, "idle") /\ holder = Nowhere
  /\ user' = [user EXCEPT ![u] = [at |-> IF registered THEN "connected" ELSE "asked",
                                  wants |-> wants, file |-> 0]]
  /\ UNCHANGED <<disk, registry, holder, ghosts>>

NotThere(u) ==
  /\ Stands(u, "asked") /\ user[u].wants = "get_if_exists" /\ path = Nowhere
  /\ Leaves(u)
  /\ UNCHANGED <<disk, registry, holder, ghosts>>

\* Under the write lock the registry is read again.  (get_if_exists may have
\* seen the file long before it gets here.)
Lock(u) ==
  /\ Stands(u, "asked") /\ holder = Nowhere
  /\ IF registered THEN Goes(u, "connected") /\ UNCHANGED holder
     ELSE Goes(u, "opening") /\ holder' = u
  /\ UNCHANGED <<disk, registry, ghosts>>

\* mode=rwc: a file is created if there is none.
Reach(file) ==
  IF path # Nowhere THEN file = path /\ UNCHANGED <<files, path>>
  ELSE /\ Len(files) < MaxFiles
       /\ files' = Append(files, [migrated |-> FALSE, rows |-> 0])
       /\ file = Len(files) + 1
       /\ path' = file

\* Mutant: the pool is registered before its database is migrated.
OpenRegistered(u) ==
  /\ Stands(u, "opening")
  /\ directory' = TRUE
  /\ \E file \in 1 .. MaxFiles :
       /\ Reach(file)
       /\ registered' = TRUE /\ pool' = {file}
       /\ user' = [user EXCEPT ![u].at = "migrating", ![u].file = file]
  /\ holder' = Nowhere
  /\ UNCHANGED ghosts

\* open_and_migrate: the directory, the file, the pragmas.
Open(u) ==
  /\ Stands(u, "opening")
  /\ directory' = TRUE
  /\ \E file \in 1 .. MaxFiles :
       /\ Reach(file)
       /\ user' = [user EXCEPT ![u].at = "migrating", ![u].file = file]
  /\ UNCHANGED <<registry, holder, ghosts>>

Migrate(u) ==
  /\ Stands(u, "migrating")
  /\ files' = [files EXCEPT ![user[u].file].migrated = TRUE]
  /\ registered' = TRUE /\ pool' = {user[u].file}
  /\ holder' = Nowhere
  /\ Goes(u, "connected")
  /\ UNCHANGED <<path, directory, ghosts>>

\* Opening or a migration fails: what was created stays, nothing is registered.
OpenFails(u) ==
  /\ user[u].at \in {"opening", "migrating"}
  /\ Leaves(u)
  /\ holder' = Nowhere
  /\ UNCHANGED <<disk, registry, ghosts>>

-----------------------------------------------------------------------------
(* A statement: on an idle connection of the pool, or on one more, made by path *)

\* The statement stores a row, reads, or fails for want of a table.
Run(u, file) ==
  /\ Leaves(u)
  /\ IF files[file].migrated
       THEN \/ /\ files[file].rows < MaxRows
               /\ files' = [files EXCEPT ![file].rows = @ + 1]
               /\ committed' = committed + 1
            \/ UNCHANGED <<files, committed>>
       ELSE UNCHANGED <<files, committed>>

Statement(u) ==
  /\ Stands(u, "connected")
  /\ \E file \in pool : Run(u, file)
  /\ UNCHANGED <<path, directory, registry, holder, ends, deleted>>

\* The other connections are in use, or were closed.
Connect(u) ==
  /\ Stands(u, "connected") /\ directory
  /\ \E file \in 1 .. MaxFiles : Reach(file) /\ pool' = pool \cup {file}
  /\ UNCHANGED <<directory, registered, holder, user, ghosts>>

ConnectFails(u) ==
  /\ Stands(u, "connected")
  /\ Leaves(u)
  /\ UNCHANGED <<disk, registry, holder, ghosts>>

\* A connection that is idle for too long is closed; the pool stays.
Close ==
  /\ \E file \in pool : pool' = pool \ {file}
  /\ UNCHANGED <<disk, registered, holder, user, ghosts>>

-----------------------------------------------------------------------------
(* The rest of the server *)

\* summary.json, distributions.json: write_json creates the directory.
WriteResults ==
  /\ ~directory
  /\ directory' = TRUE
  /\ UNCHANGED <<files, path, registry, holder, user, ghosts>>

\* delete_provider removes the directory; the registry is left alone.
Delete ==
  /\ directory /\ ends < MaxEnds
  /\ directory' = FALSE /\ path' = Nowhere
  /\ ends' = ends + 1 /\ deleted' = TRUE
  /\ UNCHANGED <<files, registry, holder, user, committed>>

RestartDatabase ==
  /\ ends < MaxEnds
  /\ registered' = FALSE /\ pool' = {} /\ holder' = Nowhere
  /\ user' = [u \in Users |-> NoUser]
  /\ ends' = ends + 1 /\ deleted' = FALSE
  /\ committed' = IF path = Nowhere THEN 0 ELSE files[path].rows
  /\ UNCHANGED disk

DatabasesNext ==
  \/ \E u \in Users :
       \/ Ask(u, "get") \/ Ask(u, "get_if_exists") \/ NotThere(u) \/ Lock(u)
       \/ Open(u) \/ Migrate(u) \/ OpenFails(u)
       \/ Statement(u) \/ Connect(u) \/ ConnectFails(u)
  \/ Close \/ WriteResults \/ Delete \/ RestartDatabase

DatabasesSpec == DatabasesInit /\ [][DatabasesNext]_databaseVars

-----------------------------------------------------------------------------

\* As long as the provider is not deleted, every connection anybody is given
\* leads to the one file at the path, with all tables and with every row that
\* was stored: no second file, no half-migrated one, whoever opens it with whom.
OneDatabase ==
  ~deleted =>
    /\ registered =>
         /\ pool \subseteq {path}
         /\ path # Nowhere => files[path].migrated
    /\ (IF path = Nowhere THEN 0 ELSE files[path].rows) = committed

\* What get returns leads to the provider's database, created and migrated
\* ("Returns a connection for the given provider, creating the database and
\* running migrations if needed", db.rs).
GetCreates ==
  [][\A u \in Users :
       Stands(u, "idle") /\ user'[u].at = "connected" /\ user'[u].wants = "get"
         => path # Nowhere /\ files[path].migrated]_databaseVars

=============================================================================
