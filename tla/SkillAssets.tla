---------------------------- MODULE SkillAssets ----------------------------
(***************************************************************************)
(* The tools load_skill and load_skill_asset of the turns of one process,  *)
(* from their preflight hooks to the content they return, and OssFileLoader*)
(* behind them: the cache on disk, its lock per object, the downloads, and *)
(* the collector that removes files not used for a while.  The steps of a  *)
(* call end at its awaits; what lies between runs undisturbed in the one   *)
(* event loop.                                                             *)
(***************************************************************************)
EXTENDS Integers

CONSTANTS
    Calls,      \* the tool calls made
    NoCall,     \* holder of a free lock
    Skills,     \* skill ids
    Objects,    \* the objects of the skills' files
    Loads       \* the loads to choose from

\* rpc: a call of another service fails.  http: a download fails.  disk: a file cannot be
\* touched, read, written or removed.  timeout: a call takes too long, or its turn is
\* cancelled.  stop, crash: of the process.
FaultKind == {"rpc", "http", "disk", "timeout", "stop", "crash"}

\* A manifest gives the object of a skill's SKILL.md or of an asset: "none" if it is not
\* declared, "blank" if its key is empty.  (An asset without a key gets the key "None",
\* which is an object like others.)
Path == {"SKILL.md", "asset"}
Load == [
    wants    : [Calls -> [skill : Skills, path : Path]],
    allowed  : SUBSET Skills,       \* allowed_skill_ids of the turns
    viewable : SUBSET Skills,       \* where resource-service grants VIEW
    manifest : [Skills -> [Path -> Objects \cup {"none", "blank"}]],
    binary   : SUBSET Objects,      \* objects that are no UTF-8 text
    malformed : SUBSET Calls,       \* calls whose arguments do not fit the schema
    ttl      : Nat,                 \* cache_ttl_seconds
    interval : Nat \ {0},           \* gc_interval_seconds
    days     : Nat,                 \* bound of the clock
    restarts : Nat,                 \* bound: how often the process ends
    faults   : SUBSET FaultKind]

ASSUME ConstantsAssumption ==
    /\ NoCall \notin Calls
    /\ {"none", "blank", "part"} \cap Objects = {}
    /\ Loads \subseteq Load

VARIABLES
    load,       \* the load
    phase,      \* per call, where it is
    object,     \* per call, the object_key it was given; "none" before
    result,     \* per call, the content it returned; "none" before
    lock,       \* _fetch_locks: per object, the call that holds its lock
    disk,       \* the files of cache_dir: per object, under its name and its .tmp name
    used,       \* per object, when its file was last written, or touched by a read
    unread,     \* the calls that last found a file they could not read
    gc,         \* when _gc_loop wakes
    running,    \* whether stop was not called yet
    clock,      \* time.time(), os.utime
    restarts    \* how often the process ended

volatile == <<phase, object, result, lock, gc, running>>
files == <<disk, used, unread>>
outer == <<load, clock, restarts>>
vars == <<load, phase, object, result, lock, disk, used, unread, gc, running, clock, restarts>>

Phase == {"idle", "permission", "manifest", "open", "lock", "url", "download",
          "done", "failed"}
Ended(c) == phase[c] \in {"done", "failed"}
Skill(c) == load.wants[c].skill
Declared(c) == load.manifest[Skill(c)][load.wants[c].path]
May(fault) == fault \in load.faults

File == [content : Objects \cup {"none", "part"}, mtime : Nat]
NoFile == [content |-> "none", mtime |-> 0]
Exists(name) == disk[name].content # "none"
Cached(o) == Exists(<<o, "object">>)

To(c, p) == phase' = [phase EXCEPT ![c] = p]

Init ==
    /\ load \in Loads
    /\ phase = [c \in Calls |-> "idle"]
    /\ object = [c \in Calls |-> "none"]
    /\ result = [c \in Calls |-> "none"]
    /\ lock = [o \in Objects |-> NoCall]
    /\ disk = [name \in Objects \X {"object", "tmp"} |-> NoFile]
    /\ used = [o \in Objects |-> 0]
    /\ unread = {}
    /\ gc = load.interval
    /\ running = TRUE
    /\ clock = 0
    /\ restarts = 0

-----------------------------------------------------------------------------
(* Preflight.  load_skill_asset finds its object in the last hook,         *)
(* load_skill in execute; either way before the loader is asked.           *)

Fail(c) == To(c, "failed")

\* JsonSchemaCheck, AllowedSkillIdCheck, and SkillPermissionCheck up to its request.
Call(c) ==
    /\ phase[c] = "idle" /\ running
    /\ IF c \notin load.malformed /\ Skill(c) \in load.allowed THEN To(c, "permission")
       ELSE Fail(c)
    /\ UNCHANGED <<outer, object, result, lock, files, gc, running>>

\* SkillPermissionCheck with the answer of resource-service.
CheckPermission(c) ==
    /\ phase[c] = "permission"
    /\ \/ Skill(c) \in load.viewable /\ To(c, "manifest")
       \/ (Skill(c) \notin load.viewable \/ May("rpc")) /\ Fail(c)
    /\ UNCHANGED <<outer, object, result, lock, files, gc, running>>

\* Mutant: the object put into the context that all calls of the turn share.
FindObjectForAll(c) ==
    /\ phase[c] = "manifest"
    /\ \/ Declared(c) \in Objects
          /\ object' = [d \in Calls |-> IF phase[d] \in {"idle", "done", "failed"} THEN object[d]
                                        ELSE Declared(c)]
          /\ To(c, "open")
       \/ (Declared(c) \notin Objects \/ May("rpc")) /\ Fail(c) /\ UNCHANGED object
    /\ UNCHANGED <<outer, result, lock, files, gc, running>>

\* get_published_skill, and the object key of the file that is asked for.
FindObject(c) ==
    /\ phase[c] = "manifest"
    /\ \/ Declared(c) \in Objects
          /\ object' = [object EXCEPT ![c] = Declared(c)]
          /\ To(c, "open")
       \/ (Declared(c) \notin Objects \/ May("rpc")) /\ Fail(c) /\ UNCHANGED object
    /\ UNCHANGED <<outer, result, lock, files, gc, running>>

-----------------------------------------------------------------------------
(* load_by_object_key.                                                     *)

Release(c) == lock' = [o \in Objects |-> IF lock[o] = c THEN NoCall ELSE lock[o]]

\* The tool's answer to the bytes it was given; bytes that are no text are refused.
Return(c, content) ==
    IF content \in load.binary THEN Fail(c) /\ UNCHANGED result
    ELSE To(c, "done") /\ result' = [result EXCEPT ![c] = content]

\* Mutant: the file not touched.
TouchNothing(o) == used' = [used EXCEPT ![o] = clock] /\ UNCHANGED disk

\* os.utime: a file that is read is young again, if the disk lets it.
Touch(o) ==
    \/ /\ disk' = [disk EXCEPT ![<<o, "object">>].mtime = clock]
       /\ used' = [used EXCEPT ![o] = clock]
    \/ May("disk") /\ UNCHANGED <<disk, used>>

\* _read_if_fresh: the content of the file, touched first.
Read(c) ==
    /\ Cached(object[c])
    /\ Touch(object[c])
    /\ Return(c, disk[<<object[c], "object">>].content)
    /\ unread' = unread \ {c}

\* _read_if_fresh: None, without a file or with one that cannot be read.
Miss(c) ==
    \/ ~Cached(object[c]) /\ unread' = unread \ {c} /\ UNCHANGED <<disk, used>>
    \/ Cached(object[c]) /\ May("disk") /\ Touch(object[c]) /\ unread' = unread \cup {c}

Free(c) == lock[object[c]] = NoCall
Lock(c) == lock' = [lock EXCEPT ![object[c]] = c]

\* The file, or the lock if it is free.
Open(c) ==
    /\ phase[c] = "open"
    /\ \/ Read(c) /\ UNCHANGED lock
       \/ /\ Miss(c)
          /\ IF Free(c) THEN Lock(c) /\ To(c, "url") ELSE To(c, "lock") /\ UNCHANGED lock
          /\ UNCHANGED result
    /\ UNCHANGED <<outer, object, gc, running>>

\* Mutant: the cache not looked at again once the lock is held.
EnterUnchecked(c) ==
    /\ phase[c] = "lock" /\ Free(c)
    /\ Lock(c) /\ To(c, "url")
    /\ UNCHANGED <<outer, object, result, files, gc, running>>

\* The lock is free, and the cache looked at again.
Enter(c) ==
    /\ phase[c] = "lock" /\ Free(c)
    /\ \/ Read(c) /\ UNCHANGED lock
       \/ Miss(c) /\ Lock(c) /\ To(c, "url") /\ UNCHANGED result
    /\ UNCHANGED <<outer, object, gc, running>>

\* get_download_url.
GetUrl(c) ==
    /\ phase[c] = "url"
    /\ \/ To(c, "download") /\ UNCHANGED lock
       \/ May("rpc") /\ Fail(c) /\ Release(c)
    /\ UNCHANGED <<outer, object, result, files, gc, running>>

\* The file a write leaves: the .tmp file is written, then takes the place of the other.
Written(o) == [disk EXCEPT ![<<o, "object">>] = [content |-> o, mtime |-> clock],
                           ![<<o, "tmp">>] = NoFile]
\* Mutant: the file written in place.
TornInPlace(o) == [disk EXCEPT ![<<o, "object">>] = [content |-> "part", mtime |-> clock]]

\* What a write that cannot be finished leaves: part of a .tmp file, or nothing of it.
Torn(o) == [disk EXCEPT ![<<o, "tmp">>] = [content |-> "part", mtime |-> clock]]
Unwritten(o) == [disk EXCEPT ![<<o, "tmp">>] = NoFile]

\* The download is over: the content is written to the cache and returned, or the call
\* fails.  A failed write removes its .tmp file, if the disk lets it.  After stop the HTTP
\* client is closed.
Download(c) ==
    /\ phase[c] = "download"
    /\ Release(c)
    /\ \/ /\ running
          /\ disk' = Written(object[c])
          /\ used' = [used EXCEPT ![object[c]] = clock]
          /\ Return(c, object[c])
       \/ /\ running /\ May("disk")
          /\ disk' \in {Unwritten(object[c]), Torn(object[c])}
          /\ Fail(c) /\ UNCHANGED <<used, result>>
       \/ /\ ~running \/ May("http")
          /\ Fail(c) /\ UNCHANGED <<used, result, disk>>
    /\ UNCHANGED <<outer, object, unread, gc, running>>

\* Mutant: a call that is cancelled leaves its lock behind.
CancelHolding(c) ==
    /\ May("timeout") /\ phase[c] \notin {"idle", "done", "failed"}
    /\ Fail(c)
    /\ UNCHANGED <<outer, object, result, lock, files, gc, running>>

\* wait_for ends the execution of a call, or the turn it belongs to is cancelled: the lock
\* it holds is released.
Cancel(c) ==
    /\ May("timeout") /\ phase[c] \notin {"idle", "done", "failed"}
    /\ Fail(c) /\ Release(c)
    /\ UNCHANGED <<outer, object, result, files, gc, running>>

-----------------------------------------------------------------------------
(* The collector, the process and the clock.                               *)

\* _gc_loop, which removes what was not used for longer than the ttl; the files of writes
\* that a crash cut short are among it.  A file the disk does not let go stays.
Expired == {name \in DOMAIN disk : Exists(name) /\ disk[name].mtime < clock - load.ttl}
Collect ==
    /\ running /\ clock >= gc
    /\ \E removed \in SUBSET Expired :
          /\ removed = Expired \/ May("disk")
          /\ disk' = [name \in DOMAIN disk |-> IF name \in removed THEN NoFile ELSE disk[name]]
    /\ gc' = clock + load.interval
    /\ UNCHANGED <<outer, phase, object, result, lock, used, unread, running>>

\* The lifespan ends: the collector is cancelled, the HTTP client closed.
Stop ==
    /\ running /\ May("stop")
    /\ running' = FALSE
    /\ UNCHANGED <<outer, phase, object, result, lock, files, gc>>

\* The next process starts with the files of the last one and no call in progress.
Restart ==
    /\ phase' = [c \in Calls |-> IF phase[c] \in {"idle", "done"} THEN phase[c] ELSE "failed"]
    /\ lock' = [o \in Objects |-> NoCall]
    /\ gc' = clock + load.interval
    /\ running' = TRUE
    /\ restarts' = restarts + 1
    /\ UNCHANGED <<load, object, result, used, unread, clock>>
Exit == ~running /\ restarts < load.restarts /\ Restart /\ UNCHANGED disk

\* The process is killed, perhaps in the middle of a write.
Crash ==
    /\ May("crash") /\ restarts < load.restarts
    /\ Restart
    /\ disk' \in {disk} \cup {Torn(object[c]) : c \in {d \in Calls : phase[d] = "download"}}

Tick ==
    /\ clock < load.days
    /\ clock' = clock + 1
    /\ UNCHANGED <<load, volatile, files, restarts>>

Step(c) == \/ CheckPermission(c) \/ FindObject(c) \/ Open(c) \/ Enter(c)
           \/ GetUrl(c) \/ Download(c)
Next == \/ \E c \in Calls : Call(c) \/ Step(c) \/ Cancel(c)
        \/ Collect \/ Stop \/ Exit \/ Crash \/ Tick

Spec == Init /\ [][Next]_vars
FairSpec == Spec /\ \A c \in Calls : WF_vars(Step(c))

-----------------------------------------------------------------------------
(* Properties.                                                             *)

\* Every variable holds a value of its kind.
TypeOK ==
    /\ load \in Loads
    /\ phase \in [Calls -> Phase]
    /\ object \in [Calls -> Objects \cup {"none"}]
    /\ result \in [Calls -> Objects \cup {"none"}]
    /\ lock \in [Objects -> Calls \cup {NoCall}]
    /\ disk \in [Objects \X {"object", "tmp"} -> File]
    /\ used \in [Objects -> Nat] /\ unread \subseteq Calls
    /\ gc \in Nat /\ running \in BOOLEAN /\ clock \in Nat /\ restarts \in Nat

\* A call returns the whole content of the very object the manifest of its skill declares
\* for its path, of a skill the turn matched and the user may view, whatever other calls of
\* the turn do meanwhile and wherever earlier processes were killed.
OwnContent ==
    \A c \in Calls :
        phase[c] = "done" =>
            /\ result[c] = Declared(c) /\ result[c] \in Objects
            /\ Skill(c) \in load.allowed \cap load.viewable

\* An object is downloaded by one call at a time, the one that holds its lock, and while
\* its file is in the cache only if that call could not read it there.
OneDownload ==
    \A c \in Calls :
        phase[c] \in {"url", "download"} =>
            /\ Cached(object[c]) => c \in unread
            /\ lock[object[c]] = c
            /\ \A d \in Calls \ {c} : phase[d] \in {"url", "download"} => object[d] # object[c]

\* A file leaves the cache only after it was not used for longer than the ttl; a read that
\* could not touch the file does not count as a use.
StaysWhileUsed ==
    [][\A o \in Objects : Cached(o) /\ ~Cached(o)' => used[o] < clock - load.ttl]_vars

\* Every call that was made ends, also when the one it waits for fails or is cancelled.
CallsEnd == \A c \in Calls : (phase[c] # "idle") ~> Ended(c)
=============================================================================
