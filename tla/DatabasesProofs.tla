--------------------------- MODULE DatabasesProofs ---------------------------
(***************************************************************************)
(* As long as a provider is not deleted, its registered pool leads to the  *)
(* one migrated database file, for any number of users, files and rows.    *)
(*                                                                         *)
(* The argument: whoever opens the database holds the registry's write     *)
(* lock, there is no pool meanwhile, and what it opens is the file at the  *)
(* path; the pool that comes of it makes further connections by that path, *)
(* which only a deletion clears.                                           *)
(***************************************************************************)
EXTENDS Databases, TLAPS

-----------------------------------------------------------------------------
(* The inductive invariant *)

\* Only the holder of the lock opens, and it holds it because there is no pool.
HolderOK ==
  /\ \A u \in Users : user[u].at \in {"opening", "migrating"} <=> holder = u
  /\ holder # Nowhere => ~registered

\* Who is connected was given the pool.
ConnectedOK == \A u \in Users : user[u].at = "connected" => registered

\* What is migrated is the file at the path.
OpenedOK ==
  \A u \in Users : user[u].at = "migrating" =>
    /\ user[u].file \in DOMAIN files
    /\ ~deleted => user[u].file = path

\* A pool is never there without its file.
PoolOK == ~deleted /\ registered => path # Nowhere

IInv == DatabasesTypeOK /\ HolderOK /\ ConnectedOK /\ OpenedOK /\ PoolOK /\ OneDatabase

-----------------------------------------------------------------------------

LEMMA InitIInv == DatabasesInit => IInv
<1> SUFFICES ASSUME DatabasesInit PROVE IInv
  OBVIOUS
<1>1. user \in [Users -> User] /\ \A u \in Users : user[u].at = "idle"
  BY DEF DatabasesInit, NoUser, User
<1>2. DatabasesTypeOK
  <2>1. /\ files = <<>> /\ path = Nowhere /\ pool = {} /\ holder = Nowhere
        /\ ends = 0 /\ committed = 0
    BY DEF DatabasesInit
  <2>2. directory \in BOOLEAN /\ registered \in BOOLEAN /\ deleted \in BOOLEAN
    BY DEF DatabasesInit
  <2> QED
    BY <1>1, <2>1, <2>2 DEF DatabasesTypeOK
<1>3. HolderOK /\ ConnectedOK /\ OpenedOK /\ PoolOK /\ OneDatabase
  BY <1>1, DatabasesAssumption
  DEF DatabasesInit, HolderOK, ConnectedOK, OpenedOK, PoolOK, OneDatabase
<1> QED
  BY <1>2, <1>3 DEF IInv

\* What a user's own step may change of it.
LEMMA UserTyped ==
  ASSUME DatabasesTypeOK, NEW u \in Users,
         NEW at \in {"idle", "asked", "opening", "migrating", "connected"}
  PROVE  /\ [user EXCEPT ![u].at = at] \in [Users -> User]
         /\ [user EXCEPT ![u] = NoUser] \in [Users -> User]
BY DEF DatabasesTypeOK, User, NoUser

LEMMA AskIInv ==
  ASSUME IInv, NEW u \in Users, Ask(u, "get") \/ Ask(u, "get_if_exists") PROVE IInv'
<1>1. PICK wants \in {"get", "get_if_exists"} : Ask(u, wants)
  OBVIOUS
<1> DEFINE asked == [at |-> IF registered THEN "connected" ELSE "asked",
                     wants |-> wants, file |-> 0]
<1>2. asked \in User /\ asked.at = IF registered THEN "connected" ELSE "asked"
  BY DEF User
<1>3. user' = [user EXCEPT ![u] = asked] /\ Stands(u, "idle")
  BY <1>1 DEF Ask
<1>4. UNCHANGED <<files, path, directory, registered, pool, holder, ends, deleted, committed>>
  BY <1>1 DEF Ask, disk, registry, ghosts
<1> HIDE DEF asked
<1>5. user' \in [Users -> User] /\ \A v \in Users : user'[v] = IF v = u THEN asked ELSE user[v]
  BY <1>2, <1>3 DEF IInv, DatabasesTypeOK
<1>6. HolderOK'
  BY <1>2, <1>3, <1>4, <1>5 DEF IInv, HolderOK, Stands
<1>7. ConnectedOK' /\ OpenedOK'
  BY <1>2, <1>4, <1>5 DEF IInv, ConnectedOK, OpenedOK
<1> QED
  BY <1>4, <1>5, <1>6, <1>7 DEF IInv, DatabasesTypeOK, PoolOK, OneDatabase

\* A user leaves, or goes on under the lock, and the disk is as it was.
LEMMA StepIInv ==
  ASSUME IInv, NEW u \in Users, NotThere(u) \/ Lock(u) \/ OpenFails(u) \/ ConnectFails(u)
  PROVE  IInv'
<1>1. UNCHANGED <<files, path, directory, registered, pool, ends, deleted, committed>>
  BY DEF NotThere, Lock, OpenFails, ConnectFails, disk, registry, ghosts
<1>2. user' \in [Users -> User] /\ holder' \in Users \cup {Nowhere}
  BY UserTyped DEF IInv, DatabasesTypeOK, NotThere, Lock, OpenFails, ConnectFails, Leaves, Goes
<1>3. \A v \in Users \ {u} : user'[v] = user[v]
  BY DEF IInv, DatabasesTypeOK, NotThere, Lock, OpenFails, ConnectFails, Leaves, Goes
<1>4. HolderOK' /\ ConnectedOK' /\ OpenedOK'
  <2>1. CASE NotThere(u) \/ ConnectFails(u)
    <3>1. user'[u] = NoUser /\ UNCHANGED holder /\ user[u].at \in {"asked", "connected"}
      BY <2>1 DEF NotThere, ConnectFails, Leaves, Stands, IInv, DatabasesTypeOK
    <3> QED
      BY <1>1, <1>3, <3>1 DEF IInv, HolderOK, ConnectedOK, OpenedOK, NoUser
  <2>2. CASE OpenFails(u)
    <3>1. user'[u] = NoUser /\ holder' = Nowhere /\ holder = u
      BY <2>2 DEF OpenFails, Leaves, IInv, HolderOK, DatabasesTypeOK
    <3> QED
      BY <1>1, <1>3, <3>1, DatabasesAssumption
      DEF IInv, HolderOK, ConnectedOK, OpenedOK, NoUser
  <2>3. CASE Lock(u)
    <3>1. holder = Nowhere /\ user[u].at = "asked"
      BY <2>3 DEF Lock, Stands
    <3>2. \/ registered /\ user'[u].at = "connected" /\ holder' = holder
          \/ ~registered /\ user'[u].at = "opening" /\ holder' = u
      BY <2>3 DEF Lock, Goes, IInv, DatabasesTypeOK, User
    <3> QED
      BY <1>1, <1>3, <3>1, <3>2, DatabasesAssumption
      DEF IInv, HolderOK, ConnectedOK, OpenedOK
  <2> QED
    BY <2>1, <2>2, <2>3
<1> QED
  BY <1>1, <1>2, <1>4 DEF IInv, DatabasesTypeOK, PoolOK, OneDatabase

\* The file that is reached is the one at the path, and new only if there was none.
LEMMA Reached ==
  ASSUME DatabasesTypeOK, NEW file \in 1 .. MaxFiles, Reach(file)
  PROVE  /\ files' \in Seq(File) /\ path' = file /\ file \in DOMAIN files'
         /\ DOMAIN files \subseteq DOMAIN files'
         /\ \A i \in DOMAIN files : files'[i] = files[i]
         /\ path = Nowhere => files'[file].rows = 0
<1>1. CASE path # Nowhere
  BY <1>1 DEF Reach, DatabasesTypeOK
<1>2. CASE path = Nowhere
  <2> DEFINE new == [migrated |-> FALSE, rows |-> 0]
  <2>1. new \in File /\ new.rows = 0
    BY DEF File
  <2>2. files' = Append(files, new) /\ file = Len(files) + 1 /\ path' = file
    BY <1>2 DEF Reach
  <2> HIDE DEF new
  <2> QED
    BY <2>1, <2>2 DEF DatabasesTypeOK
<1> QED
  BY <1>1, <1>2

LEMMA OpenIInv == ASSUME IInv, NEW u \in Users, Open(u) PROVE IInv'
<1>1. PICK file \in 1 .. MaxFiles :
        /\ Reach(file)
        /\ user' = [user EXCEPT ![u].at = "migrating", ![u].file = file]
  BY DEF Open
<1>2. UNCHANGED <<registered, pool, holder, ends, deleted, committed>> /\ directory' = TRUE
  BY DEF Open, registry, ghosts
<1>3. /\ files' \in Seq(File) /\ path' = file /\ file \in DOMAIN files'
      /\ DOMAIN files \subseteq DOMAIN files'
      /\ \A i \in DOMAIN files : files'[i] = files[i]
      /\ path = Nowhere => files'[file].rows = 0
      /\ path # Nowhere => file = path
  <2>1. DatabasesTypeOK
    BY DEF IInv
  <2> QED
    BY <1>1, <2>1, Reached DEF Reach
<1>4. holder = u /\ ~registered /\ user[u].at = "opening"
  BY DatabasesAssumption DEF Open, Stands, IInv, HolderOK
<1>5. /\ user' \in [Users -> User] /\ user'[u].at = "migrating" /\ user'[u].file = file
      /\ \A v \in Users \ {u} : user'[v] = user[v]
  <2>1. file \in Nat
    BY DatabasesAssumption
  <2> QED
    BY <1>1, <2>1 DEF IInv, DatabasesTypeOK, User
<1>6. DatabasesTypeOK'
  BY <1>2, <1>3, <1>4, <1>5 DEF IInv, DatabasesTypeOK
<1>7. HolderOK' /\ ConnectedOK'
  BY <1>2, <1>4, <1>5 DEF IInv, HolderOK, ConnectedOK
<1>8. OpenedOK'
  BY <1>2, <1>3, <1>4, <1>5 DEF IInv, HolderOK, OpenedOK
<1>9. PoolOK' /\ OneDatabase'
  <2>1. ~deleted => (IF path = Nowhere THEN 0 ELSE files[path].rows) = committed
    BY DEF IInv, OneDatabase
  <2>2. file # Nowhere
    BY DatabasesAssumption
  <2>3. path # Nowhere => path \in DOMAIN files
    BY DEF IInv, DatabasesTypeOK
  <2> QED
    BY <1>2, <1>3, <1>4, <2>1, <2>2, <2>3 DEF PoolOK, OneDatabase
<1> QED
  BY <1>6, <1>7, <1>8, <1>9 DEF IInv

LEMMA MigrateIInv == ASSUME IInv, NEW u \in Users, Migrate(u) PROVE IInv'
<1> DEFINE file == user[u].file
<1>1. /\ files' = [files EXCEPT ![file].migrated = TRUE]
      /\ registered' = TRUE /\ pool' = {file} /\ holder' = Nowhere /\ user' = [user EXCEPT ![u].at = "connected"]
      /\ UNCHANGED <<path, directory, ends, deleted, committed>>
  BY DEF Migrate, Goes, ghosts
<1>2. holder = u /\ user[u].at = "migrating"
  BY DEF Migrate, Stands, IInv, HolderOK
<1>3. file \in DOMAIN files /\ (~deleted => file = path)
  BY <1>2 DEF IInv, OpenedOK
<1> HIDE DEF file
<1>4. /\ files' \in Seq(File) /\ DOMAIN files' = DOMAIN files
      /\ files'[file].migrated = TRUE
      /\ \A i \in DOMAIN files : files'[i].rows = files[i].rows
  <2> DEFINE opened == [files[file] EXCEPT !.migrated = TRUE]
  <2>1. files \in Seq(File) /\ files[file] \in File
    BY <1>3 DEF IInv, DatabasesTypeOK
  <2>2. opened \in File /\ opened.migrated = TRUE /\ opened.rows = files[file].rows
    BY <2>1 DEF File
  <2>3. files' = [files EXCEPT ![file] = opened]
    BY <1>1
  <2> HIDE DEF opened
  <2>4. files' \in Seq(File) /\ DOMAIN files' = DOMAIN files
    BY <1>3, <2>1, <2>2, <2>3
  <2> QED
    BY <1>3, <2>1, <2>2, <2>3, <2>4
<1>5. /\ user' \in [Users -> User] /\ user'[u].at = "connected"
      /\ \A v \in Users \ {u} : user'[v] = user[v]
  BY <1>1 DEF IInv, DatabasesTypeOK, User
<1>6. DatabasesTypeOK'
  BY <1>1, <1>3, <1>4, <1>5 DEF IInv, DatabasesTypeOK
<1>7. HolderOK' /\ ConnectedOK' /\ OpenedOK'
  <2>1. \A v \in Users \ {u} : user[v].at \notin {"opening", "migrating"}
    BY <1>2 DEF IInv, HolderOK
  <2>2. HolderOK'
    BY <1>1, <1>5, <2>1, DatabasesAssumption DEF HolderOK
  <2>3. ConnectedOK' /\ OpenedOK'
    BY <1>1, <1>5, <2>1 DEF ConnectedOK, OpenedOK
  <2> QED
    BY <2>2, <2>3
<1>8. PoolOK' /\ OneDatabase'
  <2>1. ~deleted => (IF path = Nowhere THEN 0 ELSE files[path].rows) = committed
    BY DEF IInv, OneDatabase
  <2>2. DOMAIN files \subseteq Nat
    BY DEF IInv, DatabasesTypeOK
  <2> QED
    BY <1>1, <1>3, <1>4, <2>1, <2>2, DatabasesAssumption DEF PoolOK, OneDatabase
<1> QED
  BY <1>6, <1>7, <1>8 DEF IInv

LEMMA StatementIInv == ASSUME IInv, NEW u \in Users, Statement(u) PROVE IInv'
<1>1. user[u].at = "connected" /\ registered /\ holder = Nowhere
  BY DEF Statement, Stands, IInv, ConnectedOK, HolderOK
<1>2. PICK file \in pool : Run(u, file)
  BY DEF Statement
<1>3. UNCHANGED <<path, directory, registered, pool, holder, ends, deleted>>
      /\ user' = [user EXCEPT ![u] = NoUser]
  BY <1>2 DEF Statement, Run, Leaves, registry
<1>4. file \in DOMAIN files /\ (~deleted => path = file /\ path # Nowhere)
  BY <1>1 DEF IInv, DatabasesTypeOK, OneDatabase, PoolOK
<1>5. /\ user' \in [Users -> User] /\ user'[u].at = "idle"
      /\ \A v \in Users \ {u} : user'[v] = user[v]
  BY <1>3 DEF IInv, DatabasesTypeOK, User, NoUser
<1>6. \/ UNCHANGED <<files, committed>>
      \/ /\ files' = [files EXCEPT ![file].rows = @ + 1]
         /\ committed' = committed + 1
  BY <1>2 DEF Run
<1>7. /\ files' \in Seq(File) /\ DOMAIN files' = DOMAIN files /\ committed' \in Nat
      /\ \A i \in DOMAIN files : files'[i].migrated = files[i].migrated
      /\ \/ committed' = committed /\ files'[file].rows = files[file].rows
         \/ committed' = committed + 1 /\ files'[file].rows = files[file].rows + 1
  <2>1. files \in Seq(File) /\ committed \in Nat
    BY DEF IInv, DatabasesTypeOK
  <2>2. files[file] \in File
    BY <1>4, <2>1
  <2>3. CASE UNCHANGED <<files, committed>>
    BY <2>1, <2>3
  <2>4. CASE files' = [files EXCEPT ![file].rows = @ + 1] /\ committed' = committed + 1
    <3> DEFINE stored == [files[file] EXCEPT !.rows = @ + 1]
    <3>1. /\ stored \in File /\ stored.migrated = files[file].migrated
          /\ stored.rows = files[file].rows + 1
      BY <2>2 DEF File
    <3>2. files' = [files EXCEPT ![file] = stored]
      BY <2>4
    <3> HIDE DEF stored
    <3>3. files' \in Seq(File) /\ DOMAIN files' = DOMAIN files
      BY <1>4, <2>1, <3>1, <3>2
    <3> QED
      BY <1>4, <2>1, <2>4, <3>1, <3>2, <3>3
  <2> QED
    BY <1>6, <2>3, <2>4
<1>8. DatabasesTypeOK'
  BY <1>3, <1>5, <1>7 DEF IInv, DatabasesTypeOK
<1>9. HolderOK' /\ ConnectedOK' /\ OpenedOK'
  BY <1>1, <1>3, <1>5, <1>7, DatabasesAssumption DEF IInv, HolderOK, ConnectedOK, OpenedOK
<1>10. PoolOK' /\ OneDatabase'
  BY <1>1, <1>3, <1>4, <1>7 DEF IInv, PoolOK, OneDatabase
<1> QED
  BY <1>8, <1>9, <1>10 DEF IInv

LEMMA ConnectIInv == ASSUME IInv, NEW u \in Users, Connect(u) PROVE IInv'
<1>1. user[u].at = "connected" /\ registered /\ holder = Nowhere
  BY DEF Connect, Stands, IInv, ConnectedOK, HolderOK
<1>2. PICK file \in 1 .. MaxFiles : Reach(file) /\ pool' = pool \cup {file}
  BY DEF Connect
<1>3. UNCHANGED <<directory, registered, holder, user, ends, deleted, committed>>
  BY DEF Connect, ghosts
<1>4. /\ files' \in Seq(File) /\ path' = file /\ file \in DOMAIN files'
      /\ DOMAIN files \subseteq DOMAIN files'
      /\ \A i \in DOMAIN files : files'[i] = files[i]
      /\ path # Nowhere => file = path
  <2>1. DatabasesTypeOK
    BY DEF IInv
  <2> QED
    BY <1>2, <2>1, Reached DEF Reach
<1>5. DatabasesTypeOK'
  BY <1>2, <1>3, <1>4 DEF IInv, DatabasesTypeOK
<1>6. HolderOK' /\ ConnectedOK' /\ OpenedOK'
  <2>1. \A v \in Users : user[v].at \notin {"opening", "migrating"}
    BY <1>1, DatabasesAssumption DEF IInv, HolderOK
  <2> QED
    BY <1>1, <1>3, <2>1 DEF IInv, HolderOK, ConnectedOK, OpenedOK
<1>7. ~deleted => path = file /\ files' = files
  BY <1>1, <1>2, <1>4 DEF IInv, PoolOK, Reach
<1>8. PoolOK' /\ OneDatabase'
  BY <1>1, <1>2, <1>3, <1>4, <1>7, DatabasesAssumption DEF IInv, PoolOK, OneDatabase
<1> QED
  BY <1>5, <1>6, <1>8 DEF IInv

LEMMA RestIInv == IInv /\ (Close \/ WriteResults \/ Delete \/ RestartDatabase) => IInv'
<1> SUFFICES ASSUME IInv, Close \/ WriteResults \/ Delete \/ RestartDatabase PROVE IInv'
  OBVIOUS
<1>1. CASE Close
  BY <1>1 DEF Close, disk, ghosts, IInv, DatabasesTypeOK, HolderOK, ConnectedOK, OpenedOK,
              PoolOK, OneDatabase
<1>2. CASE WriteResults
  BY <1>2 DEF WriteResults, registry, ghosts, IInv, DatabasesTypeOK, HolderOK, ConnectedOK,
              OpenedOK, PoolOK, OneDatabase
<1>3. CASE Delete
  <2>1. UNCHANGED <<files, registered, pool, holder, user, committed>>
        /\ directory' = FALSE /\ path' = Nowhere /\ ends' = ends + 1 /\ deleted' = TRUE
    BY <1>3 DEF Delete, registry
  <2>2. DatabasesTypeOK'
    <3>1. directory' \in BOOLEAN /\ registered' \in BOOLEAN /\ deleted' \in BOOLEAN
      BY <2>1, Zenon DEF IInv, DatabasesTypeOK
    <3> QED
      BY <2>1, <3>1 DEF IInv, DatabasesTypeOK
  <2> QED
    BY <2>1, <2>2 DEF IInv, HolderOK, ConnectedOK, OpenedOK, PoolOK, OneDatabase
<1>4. CASE RestartDatabase
  <2>1. user' \in [Users -> User] /\ \A u \in Users : user'[u].at = "idle"
    BY <1>4 DEF RestartDatabase, User, NoUser
  <2>2. /\ ~registered' /\ pool' = {} /\ holder' = Nowhere
        /\ ends' = ends + 1 /\ deleted' = FALSE
        /\ committed' = IF path = Nowhere THEN 0 ELSE files[path].rows
        /\ UNCHANGED <<files, path, directory>>
    BY <1>4 DEF RestartDatabase, disk
  <2>3. committed' \in Nat
    <3>1. CASE path = Nowhere
      BY <2>2, <3>1
    <3>2. CASE path # Nowhere
      <4>1. files[path] \in File
        BY <3>2 DEF IInv, DatabasesTypeOK
      <4> QED
        BY <2>2, <3>2, <4>1 DEF File
    <3> QED
      BY <3>1, <3>2
  <2>4. DatabasesTypeOK'
    <3>1. directory' \in BOOLEAN /\ registered' \in BOOLEAN /\ deleted' \in BOOLEAN
      BY <1>4, <2>2, Zenon DEF RestartDatabase, IInv, DatabasesTypeOK
    <3> QED
      BY <2>1, <2>2, <2>3, <3>1 DEF IInv, DatabasesTypeOK
  <2>5. HolderOK' /\ ConnectedOK' /\ OpenedOK'
    BY <2>1, <2>2, DatabasesAssumption DEF HolderOK, ConnectedOK, OpenedOK
  <2>6. PoolOK' /\ OneDatabase'
    BY <2>2 DEF PoolOK, OneDatabase
  <2> QED
    BY <2>4, <2>5, <2>6 DEF IInv
<1> QED
  BY <1>1, <1>2, <1>3, <1>4

LEMMA NextIInv == IInv /\ [DatabasesNext]_databaseVars => IInv'
<1> SUFFICES ASSUME IInv, [DatabasesNext]_databaseVars PROVE IInv'
  OBVIOUS
<1>1. CASE UNCHANGED databaseVars
  BY <1>1 DEF databaseVars, disk, registry, ghosts, IInv, DatabasesTypeOK, HolderOK,
              ConnectedOK, OpenedOK, PoolOK, OneDatabase
<1>2. ASSUME NEW u \in Users,
             \/ Ask(u, "get") \/ Ask(u, "get_if_exists") \/ NotThere(u) \/ Lock(u)
             \/ Open(u) \/ Migrate(u) \/ OpenFails(u)
             \/ Statement(u) \/ Connect(u) \/ ConnectFails(u)
      PROVE  IInv'
  BY <1>2, AskIInv, StepIInv, OpenIInv, MigrateIInv, StatementIInv, ConnectIInv
<1>3. CASE Close \/ WriteResults \/ Delete \/ RestartDatabase
  BY <1>3, RestIInv
<1> QED
  BY <1>1, <1>2, <1>3 DEF DatabasesNext

-----------------------------------------------------------------------------

\* Only one user opens the database at a time, and as long as the provider is
\* not deleted it opens the file at the path (DatabaseRegistry::get).
THEOREM DatabasesInvariance == DatabasesSpec => []IInv
BY InitIInv, NextIInv, PTL DEF DatabasesSpec

\* For any number of users every connection leads to the one migrated file that
\* has all the rows, until the provider is deleted (get, get_if_exists).
THEOREM DatabaseShared == DatabasesSpec => []OneDatabase
<1>1. IInv => OneDatabase
  BY DEF IInv
<1> QED
  BY <1>1, DatabasesInvariance, PTL

=============================================================================
