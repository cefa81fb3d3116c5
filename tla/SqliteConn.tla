------------------------------ MODULE SqliteConn ------------------------------
(***************************************************************************)
(* sqlite3_conn (include/jkl/sqlite3/conn.hpp): opening, clearing and the  *)
(* settings of a connection, which most setters read back to find out      *)
(* whether SQLite took them.                                               *)
(*                                                                         *)
(* SQLite (external) keeps some settings in the database file and others   *)
(* in the connection, caps some, refuses some, and delays some until the   *)
(* next VACUUM when the database is not empty.  Databases are used by one  *)
(* connection, and attached with its own flags.                            *)
(***************************************************************************)
EXTENDS Integers, FiniteSets

CONSTANTS
  Schemas,   \* the databases of the connection, "main" and those attached
  Together,  \* the sets of settings used in one behaviour
  Tried,     \* the numbers passed to setters
  CacheSizes, \* those of them passed to set_cache_pages() and set_cache_size()
  Cap,       \* SQLite: the largest value of a capped setting
  MaxVersion, \* bounds the schema versions that SQLite counts to
  Unset      \* nothing

ASSUME ConnAssumption ==
  /\ "main" \in Schemas
  /\ Tried \subseteq Int /\ CacheSizes \subseteq Int /\ Cap \in Nat /\ MaxVersion \in Nat /\ Unset \notin Int

VARIABLES
  inUse,      \* the settings of this behaviour, members of AllSettings
  isOpen,     \* _h
  ro,         \* it was opened with flags.ro()
  attached,   \* SQLite: the databases of the connection
  temporary,  \* SQLite: those in no file: main with an empty path, the others in memory
  val,        \* SQLite: the settings in force
  filed,      \* SQLite: those found in the file when it is opened next
  delayed,    \* SQLite: those of the next VACUUM, of whatever database
  filled,     \* SQLite: the databases whose first page is written
  inFile,     \* SQLite: the files whose first page is written
  lockingAll, \* SQLite: the locking mode of databases attached later
  resetting,  \* SQLITE_DBCONFIG_RESET_DATABASE
  asked       \* for the properties: what was set by a setter that returned, as long as it
              \* is to hold

connVars == <<inUse, isOpen, ro, attached, temporary, val, filed, delayed, filled, inFile,
              lockingAll, resetting, asked>>

-----------------------------------------------------------------------------
\* A setting: its values, if its setter has a test of its own for them, how it finds
\* out whether SQLite took the value (by reading it back, by the return code, by the
\* previous value, not at all), where SQLite keeps it, and what SQLite does with it.
Entry(name, values, tested, check, where, answer) ==
  [name |-> name, values |-> values, tested |-> tested, check |-> check,
   where |-> where, answer |-> answer]

Number(name, where) == Entry(name, 0..1, FALSE, "reads back", where, "keeps")
Switch(name)       == Entry(name, 0..1, FALSE, "reads back", "conn", "keeps")

IdSettings ==
  {Number("application_id", "file"), Number("user_version", "file"), Number("schema_version", "file"),
   Entry("optimize", 0..2, FALSE, "none", "conn", "acts")}
VacuumSettings ==
  {Entry("auto_vacuum", 0..2, TRUE, "reads back", "file", "delays"),
   Entry("incremental_vacuum", 0..2, FALSE, "none", "conn", "acts")}
\* Like of two cases is a switch that cannot be read: the statement has no row.
\* (defer_foreign_keys ends with the transaction it is set in, and has no row here.)
Switches ==
  {Switch("automatic_index"), Switch("cell_size_check"), Switch("ignore_check_constraints"),
   [Switch("case_sensitive_like") EXCEPT !.answer = "mute"]}
\* Pages, or KiB as a negative number.
CacheSettings ==
  {Entry("cache_size", CacheSizes, FALSE, "reads back", "conn", "not 0"),
   Entry("mmap_size", 0..2, FALSE, "reads back", "conn", "maps")}
PageSizes == {Entry("page_size", {1, 4}, FALSE, "none", "file", "delays")}
BusyTimeouts == {Entry("busy_timeout", 0..2, FALSE, "return code", "conn", "positive")}
LockingModes == {Entry("locking_mode", 0..1, FALSE, "reads back", "conn", "locks")}
\* 1 is WAL, the one that lasts; 3, which no setter is given, is memory.
JournalSettings ==
  {Entry("journal_mode", 0..2, FALSE, "reads back", "wal", "journal"),
   Number("journal_size_limit", "conn"),
   Entry("wal_autocheckpoint", 0..2, FALSE, "return code", "conn", "keeps")}
SyncModes == {Entry("synchronous", 0..3, TRUE, "reads back", "conn", "keeps")}
TempStores == {Entry("temp_store", 0..2, TRUE, "reads back", "conn", "keeps")}
\* Options of sqlite3_db_config(): only ckpt_on_close_enabled() returns what it finds.
ConfigSettings ==
  {Entry("ckpt_on_close", 0..1, FALSE, "return code", "conn", "keeps"),
   Entry("fk", 0..1, FALSE, "return code", "conn", "mute")}
\* Asked of the VFS; there is no way to read them.  A database without a journal has no
\* size of its chunks.
ChunkSizes ==
  {Entry("chunk_size", 0..2, FALSE, "return code", "conn", "mute"),
   Entry("journal_chunk_size", 0..2, FALSE, "return code", "conn", "mute")}
\* set_limit() takes what sqlite3_limit() returns, the previous limit, for the new one.
Limits == {Entry("limit", 0..2, FALSE, "previous", "conn", "caps")}

AllSettings ==
  IdSettings \cup VacuumSettings \cup Switches \cup CacheSettings \cup PageSizes \cup BusyTimeouts
    \cup LockingModes \cup JournalSettings \cup SyncModes \cup TempStores
    \cup ConfigSettings \cup ChunkSizes \cup Limits

\* One at a time, as SQLite lets some depend on others (what is locked while it is in WAL
\* mode stays locked); but the size of the cache with the page size it is counted in.
ASSUME TogetherAssumption ==
  \A rows \in Together :
    /\ rows \subseteq AllSettings
    /\ Cardinality(rows) = 1 \/ {r.name : r \in rows} = {"cache_size", "page_size"}

Setting(s) == CHOOSE r \in inUse : r.name = s

InUse(s) == s \in {r.name : r \in inUse}

\* Those that have no schema are those of main.
PerSchema(s) ==
  s \notin {"busy_timeout", "wal_autocheckpoint", "temp_store", "limit", "ckpt_on_close", "fk",
            "automatic_index", "cell_size_check", "ignore_check_constraints", "case_sensitive_like"}

-----------------------------------------------------------------------------
\* sqlite3_flags_t: a set of names; setting one of a group clears the others.
ClearRwc(flags)   == flags \ {"readonly", "readwrite", "create"}
ClearCache(flags) == flags \ {"sharedcache", "privatecache"}
Ro(flags)  == ClearRwc(flags) \cup {"readonly"}
Rwc(flags) == ClearRwc(flags) \cup {"readwrite", "create"}
SharedCache(flags) == ClearCache(flags) \cup {"sharedcache"}
DefaultFlags == {"nomutex", "privatecache", "uri"}
IsRo(flags) == "readonly" \in flags
IsSharedCache(flags) == "sharedcache" \in flags

-----------------------------------------------------------------------------
\* enable_ckpt_on_close() sets the option NO_CKPT_ON_CLOSE.
Coded(s, v) == IF s = "ckpt_on_close" THEN 1 - v ELSE v

\* SQLite: a setting of a database without content, and of one in no file, which is locked
\* for good.
DefaultOf(s) == IF s = "page_size" THEN 4 ELSE 0
TemporaryOf(s, sch) ==
  CASE s = "locking_mode" -> 1
    [] s = "journal_mode" /\ sch # "main" -> 3
    [] OTHER -> DefaultOf(s)

\* SQLite: the value in force after v was set.
Answered(s, sch, v) ==
  LET answer == Setting(s).answer
      old    == val[<<s, sch>>]
  IN CASE answer = "keeps"    -> IF ro /\ Setting(s).where = "file" THEN old ELSE v
       [] answer = "caps"     -> IF v > Cap THEN Cap ELSE v
       [] answer = "maps"     -> IF sch \in temporary THEN old ELSE IF v > Cap THEN Cap ELSE v
       [] answer = "delays"   -> IF sch \in filled /\ (s = "auto_vacuum" => 0 \in {v, old}) THEN old ELSE v
       [] answer = "locks"    -> IF sch \in temporary THEN old ELSE v
       [] answer = "journal"  -> IF sch \in temporary \ {"main"} \/ (1 \in {v, old} /\ (ro \/ sch \in temporary))
                                 THEN old ELSE v
       [] answer = "positive" -> IF v > 0 THEN v ELSE old
       [] answer = "acts"     -> old
       [] OTHER               -> v

\* SQLite: whether setting v, with now in force, writes the first page.
Writes(s, sch, v, now) ==
  \/ Setting(s).where = "file" /\ Setting(s).answer = "keeps"
  \/ s = "auto_vacuum" /\ 0 \notin {v, now}
  \/ s = "journal_mode" /\ now = 1 /\ val[<<s, sch>>] # 1

\* SQLite: what a file has of a setting once it is in force.
Lasts(s, v) ==
  CASE Setting(s).where = "file" -> v
    [] Setting(s).where = "wal" -> IF v = 1 THEN 1 ELSE 0
    [] OTHER -> DefaultOf(s)

ConnInit ==
  /\ inUse \in Together
  /\ isOpen = FALSE /\ ro = FALSE /\ attached = {} /\ temporary = {} /\ filled = {} /\ inFile = {}
  /\ val = [k \in {r.name : r \in inUse} \X Schemas |-> DefaultOf(k[1])] /\ filed = val
  /\ delayed = [s \in {r.name : r \in inUse} |-> Unset] /\ asked = [k \in DOMAIN val |-> Unset]
  /\ lockingAll = 0 /\ resetting = FALSE

-----------------------------------------------------------------------------
\* Mutant: a value that SQLite did not take is not noticed.
TakenForGranted(s, sch, v, now) == TRUE

\* Whether the setter returns: the value read back is the one set (of some there is no row
\* to read), or sqlite3_limit() has returned it.
Taken(s, sch, v, now) ==
  CASE Setting(s).check = "reads back" ->
         now = v /\ Setting(s).answer # "mute" /\ ~(Setting(s).answer = "maps" /\ sch \in temporary)
    [] Setting(s).check = "previous" -> val[<<s, sch>>] = v
    [] OTHER -> TRUE

\* Nothing is promised of what cannot be read or is not looked at, of a wait that is no time,
\* and of no cache at all, which SQLite replaces when it loads the schema again.
Promised(s, v) ==
  /\ Setting(s).check # "none" /\ Setting(s).answer # "mute"
  /\ Setting(s).answer = "positive" => v > 0
  /\ Setting(s).answer = "not 0" => v # 0

\* A setter of one setting and one database; fails: its statement does.  It returns when all
\* is good and throws otherwise, having changed nothing or, where the value was not taken,
\* what the connection makes of it: a file opened with ro() is not written.
Set(s, sch, v, fails) ==
  LET row     == Setting(s)
      key     == <<s, sch>>
      sql     == Coded(s, v)
      now     == Answered(s, sch, sql)
      writes  == Writes(s, sch, sql, now)
      good    == ~(ro /\ writes) /\ Taken(s, sch, sql, now)
  IN  /\ isOpen /\ sch \in attached /\ (PerSchema(s) \/ sch = "main")
      /\ row.tested \/ v \in row.values
      /\ IF v \notin row.values \/ fails
         THEN UNCHANGED <<val, filed, delayed, filled, inFile, asked>>
         ELSE /\ val' = [val EXCEPT ![key] = now]
              /\ filed' = IF ro \/ sch \in temporary \/ s = "page_size" THEN filed
                          ELSE [filed EXCEPT ![key] = Lasts(s, now)]
              /\ delayed' = IF row.answer = "delays" THEN [delayed EXCEPT ![s] = v] ELSE delayed
              /\ filled' = IF writes /\ ~ro THEN filled \cup {sch} ELSE filled
              /\ inFile' = IF writes /\ ~ro THEN inFile \cup ({sch} \ temporary) ELSE inFile
              /\ asked' = IF ~good /\ now = val[key] THEN asked
                          ELSE [asked EXCEPT ![key] = IF good /\ Promised(s, v) THEN v ELSE Unset]
      /\ UNCHANGED <<inUse, isOpen, ro, attached, temporary, lockingAll, resetting>>

\* set_all_locking_mode(): what is read back is SQLite's mode of databases attached later,
\* the one set.  The promise is that of the comment: all databases but temporary ones.
SetAllLockingMode(v) ==
  /\ isOpen /\ InUse("locking_mode") /\ v \in Setting("locking_mode").values
  /\ lockingAll' = v
  /\ val' = [k \in DOMAIN val |-> IF k[1] = "locking_mode" /\ k[2] \in attached
                                  THEN Answered("locking_mode", k[2], v) ELSE val[k]]
  /\ asked' = [k \in DOMAIN asked |->
                 IF k[1] = "locking_mode" /\ k[2] \notin temporary THEN v ELSE asked[k]]
  /\ UNCHANGED <<inUse, isOpen, ro, attached, temporary, filed, delayed, filled, inFile, resetting>>

\* set_all_journal_mode(): what is read back is main's, once the statement has reached all;
\* it ends where a file opened with ro() would have to leave WAL or get into it.
SetAllJournalMode(v, reached) ==
  LET now(sch)   == Answered("journal_mode", sch, v)
      changed(k) == k[1] = "journal_mode" /\ k[2] \in reached
      stuck      == {sch \in attached \ temporary : ro /\ ((v = 1) # (val[<<"journal_mode", sch>>] = 1))}
      good       == reached = attached /\ Taken("journal_mode", "main", v, now("main"))
      written    == {sch \in reached : Writes("journal_mode", sch, v, now(sch))}
  IN  /\ isOpen /\ InUse("journal_mode") /\ v \in Setting("journal_mode").values
      /\ reached \subseteq attached \ stuck
      /\ val' = [k \in DOMAIN val |-> IF changed(k) THEN now(k[2]) ELSE val[k]]
      /\ filed' = [k \in DOMAIN filed |-> IF changed(k) /\ k[2] \notin temporary
                                          THEN Lasts(k[1], now(k[2])) ELSE filed[k]]
      /\ filled' = filled \cup written /\ inFile' = inFile \cup (written \ temporary)
      /\ asked' = [k \in DOMAIN asked |-> IF ~changed(k) THEN asked[k]
                                          ELSE IF good /\ k[2] = "main" THEN v ELSE Unset]
      /\ UNCHANGED <<inUse, isOpen, ro, attached, temporary, delayed, lockingAll, resetting>>

\* What still holds of a setting when its connection is gone.
Outlasting(k) ==
  LET row == Setting(k[1])
  IN  IF k[2] \notin temporary /\ (row.where = "file" \/ (row.where = "wal" /\ asked[k] \in {0, 1}))
      THEN asked[k] ELSE Unset

\* open(), which throws or not: the previous connection goes with _h.reset(h).
\* emptyPath: a database of its own, which no file keeps.
Open(flags, emptyPath, fails) ==
  IF (emptyPath /\ IsSharedCache(flags)) \/ fails
  THEN UNCHANGED connVars
  ELSE /\ isOpen' = TRUE /\ ro' = IsRo(flags) /\ attached' = {"main"}
       /\ temporary' = IF emptyPath THEN {"main"} ELSE {}
       /\ val' = [k \in DOMAIN val |->
                    IF k[2] = "main" /\ emptyPath THEN TemporaryOf(k[1], "main") ELSE filed[k]]
       /\ filled' = IF emptyPath THEN {} ELSE inFile \cap {"main"}
       /\ delayed' = [s \in DOMAIN delayed |-> Unset]
       /\ asked' = [k \in DOMAIN asked |->
                      IF k[2] = "main" /\ emptyPath THEN Unset ELSE Outlasting(k)]
       /\ lockingAll' = 0 /\ resetting' = FALSE
       /\ UNCHANGED <<inUse, filed, inFile>>

Close ==
  /\ isOpen /\ isOpen' = FALSE /\ attached' = {} /\ temporary' = {}
  /\ asked' = [k \in DOMAIN asked |-> Outlasting(k)]
  /\ UNCHANGED <<inUse, ro, val, filed, delayed, filled, inFile, lockingAll, resetting>>

\* exec() of the user's statements: ATTACH, one that writes, VACUUM.
Attach(sch, inMemory) ==
  /\ isOpen /\ sch \in Schemas \ attached
  /\ attached' = attached \cup {sch}
  /\ temporary' = IF inMemory THEN temporary \cup {sch} ELSE temporary
  /\ val' = [k \in DOMAIN val |->
               IF k[2] # sch THEN val[k]
               ELSE IF inMemory THEN TemporaryOf(k[1], sch)
               ELSE IF k[1] = "locking_mode" THEN lockingAll ELSE filed[k]]
  /\ filled' = (filled \ {sch}) \cup (IF inMemory THEN {} ELSE inFile \cap {sch})
  /\ asked' = [k \in DOMAIN asked |-> IF k[2] = sch /\ inMemory THEN Unset ELSE asked[k]]
  /\ UNCHANGED <<inUse, isOpen, ro, filed, delayed, inFile, lockingAll, resetting>>

\* detach()
Detach(sch) ==
  /\ isOpen /\ sch \in attached \ {"main"}
  /\ attached' = attached \ {sch} /\ temporary' = temporary \ {sch}
  /\ asked' = [k \in DOMAIN asked |-> IF k[2] = sch THEN Outlasting(k) ELSE asked[k]]
  /\ UNCHANGED <<inUse, isOpen, ro, val, filed, delayed, filled, inFile, lockingAll, resetting>>

\* SQLite: sch is written with the values now; those of over are no longer what was set.
Rewritten(sch, now, over) ==
  LET stored(k) == k[2] = sch /\ Setting(k[1]).where = "file"
  IN  /\ val' = [k \in DOMAIN val |-> IF stored(k) THEN now[k] ELSE val[k]]
      /\ filed' = [k \in DOMAIN filed |-> IF stored(k) /\ sch \notin temporary THEN now[k] ELSE filed[k]]
      /\ asked' = [k \in DOMAIN asked |-> IF stored(k) /\ k \in over THEN Unset ELSE asked[k]]
      /\ filled' = filled \cup {sch} /\ inFile' = inFile \cup ({sch} \ temporary)
      /\ UNCHANGED <<inUse, isOpen, ro, attached, temporary, delayed, lockingAll>>

\* SQLite counts a change of the schema, and VACUUM; a database taken for empty starts
\* anew.
Counted(k, anew) ==
  LET kept == IF anew /\ Setting(k[1]).answer = "keeps" THEN 0 ELSE val[k]
  IN  IF k[1] = "schema_version" THEN kept + 1 ELSE kept

Recounted(anew) ==
  {k \in DOMAIN val : k[1] = "schema_version" \/ (anew /\ Setting(k[1]).answer = "keeps")}

\* A statement that changes the schema.  While resetting is on SQLite takes every database
\* for empty.
ChangeSchema(sch) ==
  /\ isOpen /\ ~ro /\ sch \in attached
  /\ InUse("schema_version") => val[<<"schema_version", sch>>] < MaxVersion
  /\ Rewritten(sch, [k \in DOMAIN val |-> Counted(k, resetting)], Recounted(resetting))
  /\ UNCHANGED resetting

\* SQLite: sch is written anew, with the delayed settings (but the pages of a temporary
\* database keep their size), or without content.
Vacuumed(sch, anew) ==
  LET late == {k \in DOMAIN val : /\ Setting(k[1]).answer = "delays" /\ delayed[k[1]] # Unset
                                  /\ ~(k[1] = "page_size" /\ sch \in temporary)}
  IN  /\ InUse("schema_version") => val[<<"schema_version", sch>>] < MaxVersion
      /\ Rewritten(sch, [k \in DOMAIN val |-> IF k \in late THEN delayed[k[1]] ELSE Counted(k, anew)],
                   {k \in late : delayed[k[1]] # asked[k]} \cup Recounted(anew))

Vacuum(sch) ==
  /\ isOpen /\ ~ro /\ sch \in attached
  /\ Vacuumed(sch, resetting)
  /\ UNCHANGED resetting

\* clear(), which throws or not: the option is turned off again only when VACUUM has not
\* thrown, as it does within a transaction.
Clear(fails) ==
  /\ isOpen
  /\ IF fails \/ ro
     THEN /\ resetting' = TRUE
          /\ UNCHANGED <<inUse, isOpen, ro, attached, temporary, val, filed, delayed, filled, inFile,
                         lockingAll, asked>>
     ELSE Vacuumed("main", TRUE) /\ resetting' = FALSE

\* Bounds: what is opened read only is a file with something to read, or attached memory;
\* and clear() is left out where the journal mode is looked at, as what it leaves of WAL
\* depends on how the file got into it.
Readable(temp, readOnly, sch) ==
  readOnly => IF temp THEN sch # "main" ELSE sch \in inFile

ConnNext ==
  \/ \E r \in inUse, sch \in Schemas, v \in Tried, fails \in BOOLEAN : Set(r.name, sch, v, fails)
  \/ \E v \in Tried : SetAllLockingMode(v)
  \/ \E v \in Tried, reached \in SUBSET attached : SetAllJournalMode(v, reached)
  \/ \E flags \in {Rwc(DefaultFlags), Ro(DefaultFlags), SharedCache(Rwc(DefaultFlags))},
        emptyPath \in BOOLEAN, fails \in BOOLEAN :
       Readable(emptyPath, IsRo(flags), "main") /\ Open(flags, emptyPath, fails)
  \/ Close
  \/ \E sch \in Schemas : Detach(sch) \/ ChangeSchema(sch) \/ Vacuum(sch)
  \/ \E sch \in Schemas, inMemory \in BOOLEAN : Readable(inMemory, ro, sch) /\ Attach(sch, inMemory)
  \/ \E fails \in BOOLEAN : ~InUse("journal_mode") /\ Clear(fails)

ConnSpec == ConnInit /\ [][ConnNext]_connVars

-----------------------------------------------------------------------------
\* The getters: what a setting is, the cache in pages and in bytes (a unit is half a
\* KiB), both by main's page size.
Get(s, sch) == Coded(s, val[<<s, sch>>])

CachePages(sch) ==
  LET n    == val[<<"cache_size", sch>>]
      page == val[<<"page_size", "main">>]
  IN  IF n >= 0 THEN n ELSE (-n * 2 + page - 1) \div page

CacheSize(sch) ==
  LET n == val[<<"cache_size", sch>>]
  IN  IF n <= 0 THEN -n * 2 ELSE n * val[<<"page_size", "main">>]

\* What a setter that returned has set is read until it is set again, is reset with the
\* database or ends with what it was kept in; and the cache of main, counted in pages,
\* holds its size in bytes and would not with a page less.
ReadsAsSet ==
  isOpen =>
    /\ \A k \in DOMAIN asked : k[2] \in attached /\ asked[k] # Unset => Get(k[1], k[2]) = asked[k]
    /\ {"cache_size", "page_size"} \subseteq {r.name : r \in inUse} =>
         LET page == val[<<"page_size", "main">>]
         IN  /\ CachePages("main") * page >= CacheSize("main")
             /\ CachePages("main") = 0 \/ (CachePages("main") - 1) * page < CacheSize("main")
=============================================================================
