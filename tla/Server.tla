------------------------------- MODULE Server -------------------------------
(***************************************************************************)
(* The server process (src/main.c) around the executor: start, load and    *)
(* first-run key, the event loop with periodic saves, shutdown, and the    *)
(* steps of persistence_save_all, any of which may fail or be the last     *)
(* before the process or the machine stops.                                *)
(*                                                                         *)
(* One thread runs everything, so a command never meets a save.  Time is   *)
(* what the code tells apart: whether the autosave interval has elapsed.   *)
(***************************************************************************)
EXTENDS Operations, Persistence

CONSTANTS
  KeyNames,   \* names of auth keys
  AdminName,  \* the name "admin" of the first-run key
  FirstFiles, \* snapshot files that the first start may find
  IOFails,    \* whether a file operation may fail
  PowerFails  \* whether the machine may lose power

ASSUME ServerAssumption ==
  /\ AdminName \in KeyNames
  /\ IOFails \in BOOLEAN
  /\ PowerFails \in BOOLEAN

KeyEntry == [name : KeyNames, role : {"admin", "readonly"}]

\* A file of this version is written by this program, so that the first start
\* finds no file, or one that an older version has left, whole or not.
ASSUME FirstFilesAssumption ==
  \A file \in FirstFiles :
    \/ file = NoFile
    \/ /\ DOMAIN file = {"image", "have"} /\ file.have \in Nat
       /\ file.image.version # SNAPSHOT_VERSION
       /\ file.image.keys \in Seq(KeyEntry)

VARIABLES
  keys,     \* the auth store: a sequence of names and roles
  proc,     \* what the process is doing
  save,     \* the save in progress: who called it, and its next step
  path,     \* the snapshot file
  tmp,      \* the temporary file of the save
  media,    \* history: "cached", "synced" or "torn" content of path
  saved,    \* history: what the last successful save wrote
  elapsed,  \* nowMs - lastSaveMs >= intervalMs
  stopping, \* ~keepRunning
  loaded    \* the return code of the last persistence_load_all

files   == <<path, tmp, media, saved>>
control == <<keys, proc, save, elapsed, stopping, loaded>>
serverVars == <<files, control>>
allVars == <<vars, serverVars>>

NoSave == [caller |-> "none", step |-> "none"]

\* What a snapshot keeps of the storage.
Contents(tables, ks) ==
  [tables |-> [n \in DOMAIN tables |->
                 [schema     |-> tables[n].schema,
                  rows       |-> tables[n].rows,
                  overflowed |-> tables[n].overflowed]],
   keys   |-> ks]

\* The contents of an initial file, whose keys are not negative.
FileContents(file) ==
  IF file = NoFile THEN Contents(NoTables, <<>>)
  ELSE Contents([n \in DOMAIN file.image.tables |->
                   LET t == file.image.tables[n]
                   IN  [schema     |-> t.schema,
                        rows       |-> [k \in {r.key : r \in {t.rows[i] : i \in DOMAIN t.rows}} |->
                                          (CHOOSE r \in {t.rows[i] : i \in DOMAIN t.rows} :
                                             r.key = k).row],
                        overflowed |-> FALSE]],
                file.image.keys)

ServerInit ==
  /\ Init
  /\ keys = <<>> /\ proc = "down" /\ save = NoSave
  /\ path \in FirstFiles /\ tmp = NoFile /\ media = "synced"
  /\ saved = FileContents(path)
  /\ elapsed = FALSE /\ stopping = FALSE /\ loaded = 0

-----------------------------------------------------------------------------
(* The key commands *)

\* The outcomes of adding a key, whose hash may find no memory.
AddKey(ks, name, role) ==
  {auth_add_key(ks, [name |-> name, role |-> role], hashed) :
     hashed \in {TRUE} \cup OnMallocFailure({FALSE})}

KeyReply(op, outcome) ==
  /\ keys' = outcome.keys
  /\ reply' = [op |-> op, db |-> "none", req |-> <<>>, ok |-> outcome.rc = 0,
               code |-> IF outcome.rc = 0 THEN 1 ELSE -1, keys |-> {}]
  /\ UNCHANGED <<dbs, clock, files, proc, save, elapsed, stopping, loaded>>

\* Neither command saves the store.
execute_add_key(name) ==
  \E role \in {"admin", "readonly"} :
    \E a \in AddKey(keys, name, role) : KeyReply("ADD_KEY", a)

execute_del_key(name) == KeyReply("DEL_KEY", auth_del_key(keys, name))

-----------------------------------------------------------------------------
(* The life of the process *)

BeginSave(caller) ==
  /\ proc' = "saving"
  /\ save' = [caller |-> caller, step |-> "open"]

\* The process is gone, and its memory with it.
Stopped ==
  /\ proc' = "down" /\ save' = NoSave
  /\ dbs' = NoTables /\ keys' = <<>> /\ reply' = NoReply
  /\ elapsed' = FALSE /\ stopping' = FALSE
  /\ UNCHANGED <<clock, loaded>>

\* What the reads of a load see of a file: a failing fopen or fread cuts it.
Readable(file) ==
  {file} \cup {[file EXCEPT !.have = have] :
               have \in IF IOFails THEN 0 .. file.have - 1 ELSE {}}

\* The snapshot is loaded; without a key, an admin key is made and saved.
Start ==
  /\ proc = "down"
  /\ \E o \in UNION {persistence_load_all(file, clock) : file \in Readable(path)} :
       /\ dbs' = o.dbs
       /\ loaded' = o.rc
       /\ \/ /\ o.keys # <<>>
             /\ keys' = o.keys
             /\ proc' = "opening"
             /\ UNCHANGED save
          \/ /\ o.keys = <<>>
             /\ \E a \in AddKey(<<>>, AdminName, "admin") :
                  /\ keys' = a.keys
                  /\ \/ a.rc = 0 /\ BeginSave("bootstrap")
                     \/ a.rc # 0 /\ proc' = "opening" /\ UNCHANGED save
  /\ UNCHANGED <<reply, clock, files, elapsed, stopping>>

\* autosave_init, then the socket and the connection manager; a failure exits
\* through cleanup_handler.
Listen ==
  /\ proc = "opening"
  /\ \/ proc' = "serving" /\ UNCHANGED save
     \/ IOFails /\ BeginSave("exit")
  /\ elapsed' = FALSE
  /\ UNCHANGED <<vars, files, keys, stopping, loaded>>

Serve == proc = "serving" /\ execute_command /\ UNCHANGED serverVars

ServeKeys ==
  /\ proc = "serving"
  /\ \E name \in KeyNames : execute_add_key(name) \/ execute_del_key(name)

\* receive_data has read a part of a line and blocks in read; the whole loop
\* waits with it until the client sends the rest or goes away.
Stall ==
  /\ proc = "serving"
  /\ proc' = "stalled"
  /\ UNCHANGED <<vars, files, keys, save, elapsed, stopping, loaded>>

Unstall ==
  /\ proc = "stalled"
  /\ proc' = "serving"
  /\ UNCHANGED <<vars, files, keys, save, elapsed, stopping, loaded>>

\* The interval passes; the clock is read again at the end of the next turn of
\* the loop.
Elapse ==
  /\ proc \in {"serving", "stalled", "saving"}
  /\ ~elapsed
  /\ elapsed' = TRUE
  /\ UNCHANGED <<vars, files, keys, proc, save, stopping, loaded>>

\* A mutant: the test of the interval is inverted.
autosave_maybe_run_Inverted ==
  /\ proc = "serving"
  /\ ~elapsed
  /\ elapsed' = FALSE
  /\ BeginSave("autosave")
  /\ UNCHANGED <<vars, files, keys, stopping, loaded>>

\* lastSaveMs becomes the time before the save, whether it succeeds or not.
autosave_maybe_run ==
  /\ proc = "serving"
  /\ elapsed
  /\ elapsed' = FALSE
  /\ BeginSave("autosave")
  /\ UNCHANGED <<vars, files, keys, stopping, loaded>>

\* SIGTERM or SIGINT arrives through signalfd; the events of the same batch
\* are still served.
Signal ==
  /\ proc = "serving" /\ ~stopping
  /\ stopping' = TRUE
  /\ UNCHANGED <<vars, files, keys, proc, save, elapsed, loaded>>

\* main returns, or epoll_wait has failed; cleanup_handler runs.
Exit ==
  /\ proc = "serving"
  /\ stopping \/ IOFails
  /\ BeginSave("exit")
  /\ UNCHANGED <<vars, files, keys, elapsed, stopping, loaded>>

\* The process is killed (SIGKILL, or SIGPIPE from a reply to a client that
\* has gone), or exits before atexit: the files stay as they are.
Crash ==
  /\ proc # "down"
  /\ Stopped
  /\ UNCHANGED files

-----------------------------------------------------------------------------
(* persistence_save_all, step by step *)

saving(step) == proc = "saving" /\ save.step = step

\* A mutant: the loop goes on after the save at shutdown.
Finish_Resumes ==
  /\ proc' = IF save.caller = "bootstrap" THEN "opening" ELSE "serving"
  /\ save' = NoSave
  /\ UNCHANGED <<vars, keys, elapsed, stopping, loaded>>

\* The save returns to its caller; cleanup_handler also frees the storage.
Finish ==
  \/ save.caller = "exit" /\ Stopped
  \/ /\ save.caller # "exit"
     /\ proc' = IF save.caller = "bootstrap" THEN "opening" ELSE "serving"
     /\ save' = NoSave
     /\ UNCHANGED <<vars, keys, elapsed, stopping, loaded>>

\* A step fails: the temporary file, once open, is removed and -1 returned.
SaveFails ==
  /\ IOFails
  /\ proc = "saving"
  /\ tmp' = IF save.step = "open" THEN tmp ELSE NoFile
  /\ UNCHANGED <<path, media, saved>>
  /\ Finish

NextStep(step) ==
  /\ save' = [save EXCEPT !.step = step]
  /\ UNCHANGED <<vars, keys, proc, elapsed, stopping, loaded, path, media, saved>>

\* fopen truncates whatever an interrupted save has left.
SaveOpen ==
  /\ saving("open")
  /\ \E image \in Images(dbs, keys) : tmp' = [image |-> image, have |-> 0]
  /\ NextStep("write")

\* The items of the image reach the file in order.
SaveWrite ==
  /\ saving("write")
  /\ ~Complete(tmp)
  /\ tmp' = [tmp EXCEPT !.have = @ + 1]
  /\ NextStep("write")

\* A mutant: the file is renamed without a successful fflush.
SaveClose_Unflushed ==
  /\ saving("write")
  /\ UNCHANGED tmp
  /\ NextStep("rename")

\* fflush and fclose; there is no fsync.
SaveClose ==
  /\ saving("write")
  /\ Complete(tmp)
  /\ UNCHANGED tmp
  /\ NextStep("rename")

SaveRename ==
  /\ saving("rename")
  /\ path' = tmp /\ tmp' = NoFile
  /\ media' = "cached"
  /\ saved' = Contents(dbs, keys)
  /\ Finish

SaveStep == SaveOpen \/ SaveWrite \/ SaveClose \/ SaveRename

-----------------------------------------------------------------------------
(* The disk below the file system *)

\* The kernel writes the cached content of the file back.
Writeback ==
  /\ PowerFails /\ media = "cached"
  /\ media' = "synced"
  /\ UNCHANGED <<vars, control, path, tmp, saved>>

\* The machine stops; of a file whose content was only cached, a prefix may be
\* left under its new name.
PowerFail ==
  /\ PowerFails
  /\ Stopped
  /\ \/ UNCHANGED <<path, media>>
     \/ /\ media = "cached"
        /\ \E have \in 0 .. path.have - 1 : path' = [path EXCEPT !.have = have]
        /\ media' = "torn"
  /\ UNCHANGED <<tmp, saved>>

-----------------------------------------------------------------------------

ServerNext ==
  \/ Start \/ Listen \/ Serve \/ ServeKeys \/ Stall \/ Unstall
  \/ Elapse \/ autosave_maybe_run \/ Signal \/ Exit
  \/ SaveStep \/ SaveFails
  \/ Crash \/ Writeback \/ PowerFail
  \/ Tick /\ UNCHANGED serverVars

ServerSpec == ServerInit /\ [][ServerNext]_allVars

\* The process keeps running what it can run: saves and the start end, time
\* passes, and every turn of the loop ends in autosave_maybe_run and in the
\* test of keepRunning.  Clients, signals and operators owe nothing.
FairServerSpec ==
  /\ ServerSpec
  /\ WF_allVars(Listen) /\ WF_allVars(SaveStep) /\ WF_allVars(Elapse)
  /\ SF_allVars(autosave_maybe_run) /\ SF_allVars(Exit)

-----------------------------------------------------------------------------
(* Properties *)

\* The type invariant of the process and its files.
ServerTypeOK ==
  /\ TypeOK
  /\ proc \in {"down", "opening", "serving", "stalled", "saving"}
  /\ save = NoSave <=> proc # "saving"
  /\ Len(keys) <= AUTH_MAX_KEYS
  /\ media \in {"cached", "synced", "torn"}
  /\ elapsed \in BOOLEAN /\ stopping \in BOOLEAN /\ loaded \in {0, -1}

\* Every table that the server holds satisfies the table invariant, also the
\* tables that persistence_load_all has rebuilt row by row.
TablesSound == \A n \in DOMAIN dbs : TableOK(dbs[n])

SameTables(tables, kept) ==
  /\ DOMAIN tables = DOMAIN kept
  /\ \A n \in DOMAIN kept : /\ tables[n].schema = kept[n].schema
                            /\ tables[n].rows = kept[n].rows

NoOverflow == \A n \in DOMAIN saved.tables : ~saved.tables[n].overflowed

\* Whenever the process stops, also in the middle of a save, the snapshot
\* loads to exactly the rows, timestamps and keys of the last save that
\* succeeded, whatever the order of its rows; unless the power failed or a
\* key counter had overflowed (the temporary file and its rename).  A load
\* that finds no memory says so and keeps nothing.
SnapshotFaithful ==
  media # "torn" /\ NoOverflow /\ (path = NoFile \/ path.image.version = SNAPSHOT_VERSION) =>
    \A o \in persistence_load_all(path, clock) :
      \/ o.rc = 0 /\ o.keys = saved.keys /\ SameTables(o.dbs, saved.tables)
      \/ MallocFails /\ o = LoadResult(-1, NoTables, <<>>)

\* A torn snapshot never loads in part: all tables of the last save or none,
\* and the first of its keys.
LoadAllOrNothing ==
  NoOverflow =>
    \A o \in persistence_load_all(path, clock) :
      /\ o.dbs = NoTables \/ SameTables(o.dbs, saved.tables)
      /\ Len(o.keys) <= Len(saved.keys)
      /\ o.keys = SubSeq(saved.keys, 1, Len(o.keys))

\* A save that fails or is cut short leaves the snapshot of the one before:
\* only the rename of a complete file changes what path holds.
PathReplacedWhole ==
  [][path' # path => media' = "torn" \/ (tmp # NoFile /\ path' = tmp /\ Complete(tmp))]_allVars

dirty == proc # "down" /\ saved # Contents(dbs, keys)

\* Autosave: a server that keeps turning saves what it holds again and again,
\* unless a client has stalled the loop for good.
AutosaveCatchesUp ==
  <>[](proc = "stalled") \/ []<>~dirty

\* A signal ends the process, unless a client has stalled the loop for good.
ShutdownEnds ==
  <>[](proc = "stalled") \/ (stopping ~> proc = "down")
=============================================================================
