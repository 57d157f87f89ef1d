------------------------ MODULE SkillAssets_proofs ------------------------
(***************************************************************************)
(* What holds of the skill files for any calls, skills and objects.  The   *)
(* inductive invariant says which call holds which lock, and that a file   *)
(* under its final name is always whole.                                   *)
(***************************************************************************)
EXTENDS SkillAssets, TLAPS

Fetching(c) == phase[c] \in {"url", "download"}

\* A file under its final name has the content of its object, and was last modified when it
\* was written or touched.
Whole ==
    \A o \in Objects :
        /\ disk[<<o, "object">>].content \in {o, "none"}
        /\ Cached(o) => disk[<<o, "object">>].mtime = used[o]

\* A call that is past a hook was let through by it.
Checked ==
    \A c \in Calls :
        /\ phase[c] \notin {"idle", "failed"} => Skill(c) \in load.allowed
        /\ phase[c] \notin {"idle", "failed", "permission"} => Skill(c) \in load.viewable
        /\ phase[c] \notin {"idle", "failed", "permission", "manifest"} =>
              object[c] = Declared(c) /\ object[c] \in Objects
        /\ phase[c] = "done" => result[c] = object[c]

\* The call found no file it could read, when it last looked.
Missed(c) == Cached(object[c]) => c \in unread

\* A call that downloads an object holds its lock, and could not read it in the cache.
Locked == \A c \in Calls : Fetching(c) => lock[object[c]] = c /\ Missed(c)

IInv == TypeOK /\ Whole /\ Checked /\ Locked

\* The fields of a load.
LEMMA LoadFields ==
    ASSUME TypeOK
    PROVE  /\ load.wants \in [Calls -> [skill : Skills, path : Path]]
           /\ load.manifest \in [Skills -> [Path -> Objects \cup {"none", "blank"}]]
           /\ load.ttl \in Nat /\ load.interval \in Nat \ {0}
           /\ \A c \in Calls : Declared(c) \in Objects \cup {"none", "blank"}
<1>1. load \in Load
  BY ConstantsAssumption DEF TypeOK
<1> QED
  BY <1>1 DEF Load, Declared, Skill

\* What Return does to the call and to the others.
LEMMA ReturnFacts ==
    ASSUME TypeOK, NEW c \in Calls, NEW o \in Objects, Return(c, o)
    PROVE  /\ phase' \in [Calls -> Phase] /\ result' \in [Calls -> Objects \cup {"none"}]
           /\ \A d \in Calls \ {c} : phase'[d] = phase[d] /\ result'[d] = result[d]
           /\ phase'[c] \in {"done", "failed"}
           /\ phase'[c] = "done" => result'[c] = o
BY DEF TypeOK, Return, Fail, To, Phase

\* The initial states.
LEMMA InitInv == Init => IInv
<1> SUFFICES ASSUME Init PROVE IInv
  OBVIOUS
<1>1. load \in Load
  BY ConstantsAssumption DEF Init
<1>2. TypeOK
  BY <1>1, ConstantsAssumption DEF Init, TypeOK, Phase, File, NoFile, Load
<1>3. Whole /\ Checked /\ Locked
  BY DEF Init, Whole, Checked, Locked, Fetching, Missed, Cached, Exists, NoFile
<1> QED
  BY <1>2, <1>3 DEF IInv

\* The hooks: no file, lock or result changes.
LEMMA PreflightInv ==
    ASSUME IInv, NEW c \in Calls, Call(c) \/ CheckPermission(c) \/ FindObject(c)
    PROVE  IInv'
<1> USE DEF IInv
<1>1. UNCHANGED <<outer, result, lock, disk, used, unread, gc, running>>
  BY DEF Call, CheckPermission, FindObject, outer, files
<1>2. /\ phase' \in [Calls -> Phase] /\ \A d \in Calls \ {c} : phase'[d] = phase[d]
      /\ object' \in [Calls -> Objects \cup {"none"}]
      /\ \A d \in Calls \ {c} : object'[d] = object[d]
      /\ phase'[c] \in {"permission", "manifest", "open", "failed"}
      /\ phase'[c] \in {"permission", "manifest", "open"} => Skill(c) \in load.allowed
      /\ phase'[c] \in {"manifest", "open"} => Skill(c) \in load.viewable
      /\ phase'[c] = "open" => object'[c] = Declared(c) /\ object'[c] \in Objects
  <2>0. phase \in [Calls -> Phase] /\ object \in [Calls -> Objects \cup {"none"}]
    BY DEF TypeOK
  <2>1. CASE Call(c)
    BY <2>0, <2>1 DEF Call, To, Fail, Phase
  <2>2. CASE CheckPermission(c)
    <3>1. Skill(c) \in load.allowed
      BY <2>2 DEF Checked, CheckPermission
    <3> QED
      BY <3>1, <2>0, <2>2 DEF CheckPermission, To, Fail, Phase
  <2>3. CASE FindObject(c)
    <3>1. Skill(c) \in load.allowed /\ Skill(c) \in load.viewable
      BY <2>3 DEF Checked, FindObject
    <3> QED
      BY <3>1, <2>0, <2>3 DEF FindObject, To, Fail, Phase
  <2> QED
    BY <2>1, <2>2, <2>3
<1>3. TypeOK'
  BY <1>1, <1>2 DEF TypeOK, outer
<1>4. Whole'
  BY <1>1 DEF Whole, Cached, Exists
<1>5. Checked'
  BY <1>1, <1>2 DEF Checked, Skill, Declared, outer
<1>6. Locked'
  BY <1>1, <1>2 DEF Locked, Fetching, Missed, Cached, Exists
<1> QED
  BY <1>3, <1>4, <1>5, <1>6

\* The files and the locks after a step of the call c that read, wrote or waited: what it
\* must leave in order for the invariant to hold again.
LEMMA CallInv ==
    ASSUME IInv, NEW c \in Calls, TypeOK', Whole',
           UNCHANGED <<load, object>>,
           object[c] = Declared(c) /\ object[c] \in Objects,
           Skill(c) \in load.allowed /\ Skill(c) \in load.viewable,
           \A d \in Calls \ {c} : phase'[d] = phase[d] /\ result'[d] = result[d],
           phase'[c] = "done" => result'[c] = object[c],
           Fetching(c)' => lock'[object[c]] = c /\ Missed(c)',
           \A d \in Calls \ {c} : Fetching(d) => lock'[object[d]] = d /\ Missed(d)'
    PROVE  IInv'
<1>1. Checked'
  BY DEF IInv, Checked, Skill, Declared
<1>2. Locked'
  BY DEF IInv, Locked, Fetching, Missed, Cached, Exists
<1> QED
  BY <1>1, <1>2 DEF IInv

\* What the invariant says of a call that is past its hooks.
LEMMA PastHooks ==
    ASSUME IInv, NEW c \in Calls, phase[c] \in {"open", "lock", "url", "download"}
    PROVE  /\ object[c] = Declared(c) /\ object[c] \in Objects
           /\ Skill(c) \in load.allowed /\ Skill(c) \in load.viewable
BY DEF IInv, Checked

\* A call still misses its file if none appears and no read succeeds.
LEMMA MissedKept ==
    ASSUME NEW d \in Calls, Missed(d), UNCHANGED object,
           Cached(object[d])' => Cached(object[d]), d \in unread => d \in unread'
    PROVE  Missed(d)'
BY DEF Missed, Cached, Exists

\* Touching a file, or failing to.
LEMMA TouchFacts ==
    ASSUME IInv, NEW o \in Objects, Touch(o)
    PROVE  /\ disk' \in [Objects \X {"object", "tmp"} -> File]
           /\ used' \in [Objects -> Nat]
           /\ \A p \in Objects : Cached(p)' <=> Cached(p)
           /\ Whole'
<1>1. disk \in [Objects \X {"object", "tmp"} -> File] /\ used \in [Objects -> Nat]
      /\ clock \in Nat
  BY DEF IInv, TypeOK
<1>2. CASE disk' = [disk EXCEPT ![<<o, "object">>].mtime = clock]
           /\ used' = [used EXCEPT ![o] = clock]
  <2>1. disk' \in [Objects \X {"object", "tmp"} -> File] /\ used' \in [Objects -> Nat]
    BY <1>1, <1>2 DEF File
  <2>2. \A p \in Objects : /\ disk'[<<p, "object">>].content = disk[<<p, "object">>].content
                           /\ disk'[<<p, "object">>].mtime =
                                 IF p = o THEN clock ELSE disk[<<p, "object">>].mtime
                           /\ used'[p] = IF p = o THEN clock ELSE used[p]
    BY <1>1, <1>2 DEF File
  <2> QED
    BY <2>1, <2>2 DEF IInv, Whole, Cached, Exists
<1>3. CASE UNCHANGED <<disk, used>>
  BY <1>1, <1>3 DEF IInv, Whole, Cached, Exists
<1> QED
  BY <1>2, <1>3 DEF Touch

\* Reading a cached file.
LEMMA ReadFacts ==
    ASSUME IInv, NEW c \in Calls, object[c] \in Objects, Read(c)
    PROVE  /\ phase' \in [Calls -> Phase] /\ result' \in [Calls -> Objects \cup {"none"}]
           /\ \A d \in Calls \ {c} : phase'[d] = phase[d] /\ result'[d] = result[d]
           /\ phase'[c] \in {"done", "failed"}
           /\ phase'[c] = "done" => result'[c] = object[c]
           /\ unread' \subseteq Calls /\ \A d \in Calls \ {c} : d \in unread => d \in unread'
<1>1. disk[<<object[c], "object">>].content = object[c]
  BY DEF IInv, Whole, Read, Cached, Exists
<1>2. Return(c, object[c])
  BY <1>1 DEF Read
<1>3. unread' = unread \ {c} /\ unread \subseteq Calls
  BY DEF Read, IInv, TypeOK
<1> QED
  BY <1>2, <1>3, ReturnFacts DEF IInv

\* Finding no file, or none that can be read.
LEMMA MissFacts ==
    ASSUME IInv, NEW c \in Calls, object[c] \in Objects, UNCHANGED object, Miss(c)
    PROVE  /\ disk' \in [Objects \X {"object", "tmp"} -> File]
           /\ used' \in [Objects -> Nat]
           /\ \A p \in Objects : Cached(p)' <=> Cached(p)
           /\ Whole'
           /\ unread' \subseteq Calls /\ \A d \in Calls \ {c} : d \in unread => d \in unread'
           /\ Missed(c)'
<1>1. unread \subseteq Calls
  BY DEF IInv, TypeOK
<1>2. CASE ~Cached(object[c]) /\ unread' = unread \ {c} /\ UNCHANGED <<disk, used>>
  <2>1. /\ disk' \in [Objects \X {"object", "tmp"} -> File] /\ used' \in [Objects -> Nat]
        /\ Whole' /\ \A p \in Objects : Cached(p)' <=> Cached(p)
    BY <1>2 DEF IInv, TypeOK, Whole, Cached, Exists
  <2>2. Missed(c)'
    BY <1>2 DEF Missed, Cached, Exists
  <2> QED
    BY <1>1, <1>2, <2>1, <2>2
<1>3. CASE Touch(object[c]) /\ unread' = unread \cup {c}
  BY <1>1, <1>3, TouchFacts DEF Missed
<1> QED
  BY <1>2, <1>3 DEF Miss

\* Asking for the file, and taking the lock.
LEMMA OpenInv ==
    ASSUME IInv, NEW c \in Calls, Open(c) \/ Enter(c)
    PROVE  IInv'
<1>1. /\ object[c] = Declared(c) /\ object[c] \in Objects
      /\ Skill(c) \in load.allowed /\ Skill(c) \in load.viewable
  BY PastHooks DEF Open, Enter
<1>2. UNCHANGED <<load, clock, restarts, object, gc, running>>
  BY DEF Open, Enter, outer
<1>3. \A d \in Calls : Fetching(d) => object[d] \in Objects /\ lock[object[d]] = d /\ Missed(d)
  BY DEF IInv, Checked, Locked, Fetching
<1>4. CASE Read(c) /\ UNCHANGED lock
  <2>1. /\ disk' \in [Objects \X {"object", "tmp"} -> File] /\ used' \in [Objects -> Nat]
        /\ \A p \in Objects : Cached(p)' <=> Cached(p)
        /\ Whole'
    <3>1. Touch(object[c])
      BY <1>4 DEF Read
    <3> QED
      BY <1>1, <3>1, TouchFacts
  <2>2. TypeOK'
    BY <1>1, <1>2, <1>4, <2>1, ReadFacts DEF IInv, TypeOK
  <2>3. \A d \in Calls \ {c} : Fetching(d) => lock'[object[d]] = d /\ Missed(d)'
    <3> SUFFICES ASSUME NEW d \in Calls \ {c}, Fetching(d)
                 PROVE  lock'[object[d]] = d /\ Missed(d)'
      OBVIOUS
    <3>1. Cached(object[d])' => Cached(object[d])
      BY <1>2, <1>3, <2>1 DEF Cached
    <3>2. Missed(d)'
      BY <1>1, <1>2, <1>3, <1>4, <3>1, ReadFacts, MissedKept
    <3> QED
      BY <1>3, <1>4, <3>2
  <2>4. ~Fetching(c)'
    BY <1>1, <1>4, ReadFacts DEF Fetching
  <2> QED
    BY <1>1, <1>2, <1>4, <2>1, <2>2, <2>3, <2>4, ReadFacts, CallInv
<1>5. CASE /\ Miss(c) /\ UNCHANGED result
           /\ \/ Free(c) /\ Lock(c) /\ To(c, "url")
              \/ To(c, "lock") /\ UNCHANGED lock
  <2>1. TypeOK'
    BY <1>1, <1>2, <1>5, MissFacts DEF IInv, TypeOK, Lock, To, Phase
  <2>2. Whole' /\ Missed(c)'
    BY <1>1, <1>2, <1>5, MissFacts
  <2>3. \A d \in Calls \ {c} : Fetching(d) => lock'[object[d]] = d /\ Missed(d)'
    <3> SUFFICES ASSUME NEW d \in Calls \ {c}, Fetching(d)
                 PROVE  lock'[object[d]] = d /\ Missed(d)'
      OBVIOUS
    <3>1. lock'[object[d]] = d
      BY <1>1, <1>3, <1>5, ConstantsAssumption DEF Free, Lock, IInv, TypeOK
    <3>2. Cached(object[d])' => Cached(object[d])
      BY <1>1, <1>2, <1>3, <1>5, MissFacts DEF Cached
    <3>3. Missed(d)'
      BY <1>1, <1>2, <1>3, <1>5, <3>2, MissFacts, MissedKept
    <3> QED
      BY <3>1, <3>3
  <2>4. Fetching(c)' => lock'[object[c]] = c /\ Missed(c)'
    BY <1>1, <1>2, <1>5, <2>2 DEF Fetching, To, Lock, IInv, TypeOK, Phase
  <2>5. /\ \A d \in Calls \ {c} : phase'[d] = phase[d] /\ result'[d] = result[d]
        /\ phase'[c] # "done"
    BY <1>5 DEF To, IInv, TypeOK
  <2> QED
    BY <1>1, <1>2, <2>1, <2>2, <2>3, <2>4, <2>5, CallInv
<1> QED
  BY <1>4, <1>5 DEF Open, Enter

\* Releasing frees the locks of no other call.
LEMMA ReleaseFacts ==
    ASSUME IInv, NEW c \in Calls, Release(c)
    PROVE  /\ lock' \in [Objects -> Calls \cup {NoCall}]
           /\ \A d \in Calls \ {c} : Fetching(d) => lock'[object[d]] = d
<1>1. \A d \in Calls : Fetching(d) => lock[object[d]] = d /\ object[d] \in Objects
  BY DEF IInv, Locked, Checked, Fetching
<1> QED
  BY <1>1 DEF Release, IInv, TypeOK

\* Asking for the URL.
LEMMA GetUrlInv ==
    ASSUME IInv, NEW c \in Calls, GetUrl(c)
    PROVE  IInv'
<1>1. /\ object[c] = Declared(c) /\ object[c] \in Objects
      /\ Skill(c) \in load.allowed /\ Skill(c) \in load.viewable
      /\ lock[object[c]] = c /\ Missed(c)
  BY PastHooks DEF GetUrl, IInv, Locked, Fetching
<1>2. UNCHANGED <<load, clock, restarts, object, result, disk, used, unread, gc, running>>
  BY DEF GetUrl, outer, files
<1>3. /\ phase' \in [Calls -> Phase] /\ lock' \in [Objects -> Calls \cup {NoCall}]
      /\ \A d \in Calls \ {c} : phase'[d] = phase[d]
      /\ phase'[c] \in {"download", "failed"}
      /\ phase'[c] = "download" => UNCHANGED lock
      /\ \A d \in Calls \ {c} : Fetching(d) => lock'[object[d]] = d
  <2>1. \A d \in Calls : Fetching(d) => lock[object[d]] = d
    BY DEF IInv, Locked
  <2>2. phase \in [Calls -> Phase] /\ lock \in [Objects -> Calls \cup {NoCall}]
    BY DEF IInv, TypeOK
  <2> QED
    BY <2>1, <2>2, ReleaseFacts DEF GetUrl, To, Fail, Phase
<1>4. TypeOK'
  BY <1>2, <1>3 DEF IInv, TypeOK
<1>5. Whole' /\ \A o \in Objects : Cached(o)' <=> Cached(o)
  BY <1>2 DEF IInv, Whole, Cached, Exists
<1>6. \A d \in Calls : Fetching(d) => Missed(d)'
  BY <1>2 DEF IInv, Locked, Missed, Cached, Exists
<1>7. Fetching(c)' => lock'[object[c]] = c /\ Missed(c)'
  BY <1>1, <1>2, <1>3 DEF Fetching, Missed, Cached, Exists
<1> QED
  BY <1>1, <1>2, <1>3, <1>4, <1>5, <1>6, <1>7, CallInv

\* A write that takes place leaves the whole file, and all others as they were.
LEMMA WrittenFacts ==
    ASSUME IInv, NEW o \in Objects, disk' = Written(o), used' = [used EXCEPT ![o] = clock]
    PROVE  /\ disk' \in [Objects \X {"object", "tmp"} -> File] /\ used' \in [Objects -> Nat]
           /\ Whole'
           /\ \A p \in Objects \ {o} : Cached(p)' <=> Cached(p)
<1>1. disk \in [Objects \X {"object", "tmp"} -> File] /\ used \in [Objects -> Nat]
      /\ clock \in Nat
  BY DEF IInv, TypeOK
<1>2. disk' \in [Objects \X {"object", "tmp"} -> File] /\ used' \in [Objects -> Nat]
  BY <1>1 DEF Written, File, NoFile
<1>3. \A p \in Objects :
          /\ disk'[<<p, "object">>] = IF p = o THEN [content |-> o, mtime |-> clock]
                                      ELSE disk[<<p, "object">>]
          /\ used'[p] = IF p = o THEN clock ELSE used[p]
  BY <1>1 DEF Written
<1>4. Whole' /\ \A p \in Objects \ {o} : Cached(p)' <=> Cached(p)
  BY <1>3 DEF IInv, Whole, Cached, Exists
<1> QED
  BY <1>2, <1>4

\* The .tmp files are of no concern to the cache.
LEMMA TmpFacts ==
    ASSUME IInv, UNCHANGED used,
           \A p \in Objects : disk'[<<p, "object">>] = disk[<<p, "object">>]
    PROVE  Whole' /\ \A p \in Objects : Cached(p)' <=> Cached(p)
BY DEF IInv, Whole, Cached, Exists

\* The end of a download.
LEMMA DownloadInv ==
    ASSUME IInv, NEW c \in Calls, Download(c)
    PROVE  IInv'
<1>1. /\ object[c] = Declared(c) /\ object[c] \in Objects
      /\ Skill(c) \in load.allowed /\ Skill(c) \in load.viewable
      /\ lock[object[c]] = c
  BY PastHooks DEF Download, IInv, Locked, Fetching
<1>2. UNCHANGED <<load, clock, restarts, object, unread, gc, running>> /\ Release(c)
  BY DEF Download, outer
<1>3. /\ lock' \in [Objects -> Calls \cup {NoCall}]
      /\ \A d \in Calls \ {c} : Fetching(d) => lock'[object[d]] = d
  BY <1>2, ReleaseFacts
<1>4. \A d \in Calls \ {c} : Fetching(d) =>
          object[d] \in Objects /\ object[d] # object[c] /\ Missed(d)
  BY <1>1 DEF IInv, Checked, Locked, Fetching
<1>5. CASE /\ disk' = Written(object[c]) /\ used' = [used EXCEPT ![object[c]] = clock]
           /\ Return(c, object[c])
  <2>1. TypeOK'
    BY <1>1, <1>2, <1>3, <1>5, WrittenFacts, ReturnFacts DEF IInv, TypeOK
  <2>2. \A d \in Calls \ {c} : Fetching(d) => lock'[object[d]] = d /\ Missed(d)'
    <3> SUFFICES ASSUME NEW d \in Calls \ {c}, Fetching(d)
                 PROVE  lock'[object[d]] = d /\ Missed(d)'
      OBVIOUS
    <3>1. Missed(d)'
      BY <1>1, <1>2, <1>4, <1>5, WrittenFacts DEF Missed, Cached
    <3> QED
      BY <1>3, <3>1
  <2>3. ~Fetching(c)'
    BY <1>1, <1>5, ReturnFacts DEF Fetching, IInv
  <2> QED
    BY <1>1, <1>2, <1>5, <2>1, <2>2, <2>3, WrittenFacts, ReturnFacts, CallInv DEF IInv
<1>6. CASE disk' \in {Unwritten(object[c]), Torn(object[c]), disk} /\ Fail(c) /\ UNCHANGED <<used, result>>
  <2>1. /\ disk' \in [Objects \X {"object", "tmp"} -> File]
        /\ \A p \in Objects : disk'[<<p, "object">>] = disk[<<p, "object">>]
    <3>1. disk \in [Objects \X {"object", "tmp"} -> File] /\ clock \in Nat
      BY DEF IInv, TypeOK
    <3>2. CASE disk' = Unwritten(object[c])
      BY <1>1, <3>1, <3>2 DEF Unwritten, File, NoFile
    <3>3. CASE disk' = Torn(object[c])
      BY <1>1, <3>1, <3>3 DEF Torn, File
    <3> QED
      BY <1>6, <3>1, <3>2, <3>3
  <2>2. /\ phase' \in [Calls -> Phase] /\ phase'[c] = "failed"
        /\ \A d \in Calls \ {c} : phase'[d] = phase[d]
    BY <1>6 DEF IInv, TypeOK, Fail, To, Phase
  <2>3. TypeOK'
    BY <1>2, <1>3, <1>6, <2>1, <2>2 DEF IInv, TypeOK
  <2>4. Whole' /\ \A p \in Objects : Cached(p)' <=> Cached(p)
    BY <1>6, <2>1, TmpFacts
  <2>5. \A d \in Calls \ {c} : Fetching(d) => lock'[object[d]] = d /\ Missed(d)'
    BY <1>2, <1>3, <1>4, <2>1 DEF Missed, Cached, Exists
  <2> QED
    BY <1>1, <1>2, <1>6, <2>2, <2>3, <2>4, <2>5, CallInv DEF Fetching
<1> QED
  BY <1>5, <1>6 DEF Download

\* A call that is cancelled.
LEMMA CancelInv ==
    ASSUME IInv, NEW c \in Calls, Cancel(c)
    PROVE  IInv'
<1>1. UNCHANGED <<load, clock, restarts, object, result, disk, used, unread, gc, running>>
  BY DEF Cancel, outer, files
<1>2. /\ phase' \in [Calls -> Phase] /\ phase'[c] = "failed"
      /\ \A d \in Calls \ {c} : phase'[d] = phase[d]
  BY DEF Cancel, IInv, TypeOK, Fail, To, Phase
<1>3. /\ lock' \in [Objects -> Calls \cup {NoCall}]
      /\ \A d \in Calls \ {c} : Fetching(d) => lock'[object[d]] = d
  BY ReleaseFacts DEF Cancel
<1>4. TypeOK'
  BY <1>1, <1>2, <1>3 DEF IInv, TypeOK
<1>5. Whole'
  BY <1>1 DEF IInv, Whole, Cached, Exists
<1>6. Checked'
  BY <1>1, <1>2 DEF IInv, Checked, Skill, Declared
<1>7. Locked'
  BY <1>1, <1>2, <1>3 DEF IInv, Locked, Fetching, Missed, Cached, Exists
<1> QED
  BY <1>4, <1>5, <1>6, <1>7 DEF IInv

\* Collecting removes whole files and adds none.
LEMMA CollectInv == IInv /\ Collect => IInv'
<1> SUFFICES ASSUME IInv, Collect PROVE IInv'
  OBVIOUS
<1>1. disk \in [Objects \X {"object", "tmp"} -> File]
  BY DEF IInv, TypeOK
<1>2. \A name \in Objects \X {"object", "tmp"} : disk'[name] \in {disk[name], NoFile}
  BY <1>1 DEF Collect
<1>3. disk' \in [Objects \X {"object", "tmp"} -> File]
  BY <1>1, <1>2 DEF Collect, File, NoFile
<1>4. \A o \in Objects : /\ disk'[<<o, "object">>] \in {disk[<<o, "object">>], NoFile}
                         /\ Cached(o)' => Cached(o)
  BY <1>2 DEF Cached, Exists, NoFile
<1>5. UNCHANGED <<load, clock, restarts, phase, object, result, lock, used, unread, running>>
  BY DEF Collect, outer
<1>6. gc' \in Nat
  BY LoadFields DEF Collect, IInv, TypeOK
<1>7. TypeOK'
  BY <1>3, <1>5, <1>6 DEF IInv, TypeOK
<1>8. Whole'
  <2> SUFFICES ASSUME NEW o \in Objects
               PROVE  /\ disk'[<<o, "object">>].content \in {o, "none"}
                      /\ Cached(o)' => disk'[<<o, "object">>].mtime = used'[o]
    BY DEF Whole
  <2>1. /\ disk[<<o, "object">>].content \in {o, "none"}
        /\ Cached(o) => disk[<<o, "object">>].mtime = used[o]
    BY DEF IInv, Whole
  <2>2. CASE disk'[<<o, "object">>] = disk[<<o, "object">>]
    BY <1>5, <2>1, <2>2 DEF Cached, Exists
  <2>3. CASE disk'[<<o, "object">>] = NoFile
    BY <2>3 DEF Cached, Exists, NoFile
  <2> QED
    BY <1>4, <2>2, <2>3
<1>9. Checked'
  BY <1>5 DEF IInv, Checked, Skill, Declared
<1>10. Locked'
  <2> SUFFICES ASSUME NEW c \in Calls, Fetching(c)
               PROVE  lock[object[c]] = c /\ Missed(c)'
    BY <1>5 DEF Locked, Fetching
  <2>1. object[c] \in Objects /\ lock[object[c]] = c /\ Missed(c)
    BY DEF IInv, Checked, Locked, Fetching
  <2>2. Missed(c)'
    BY <1>4, <1>5, <2>1 DEF Missed, Cached
  <2> QED
    BY <2>1, <2>2
<1> QED
  BY <1>7, <1>8, <1>9, <1>10 DEF IInv

\* The end of a process, whatever it was writing.
LEMMA RestartInv == IInv /\ (Exit \/ Crash) => IInv'
<1> SUFFICES ASSUME IInv, Exit \/ Crash PROVE IInv'
  OBVIOUS
<1>1. Restart
  BY DEF Exit, Crash
<1>2. /\ disk' \in [Objects \X {"object", "tmp"} -> File]
      /\ \A p \in Objects : disk'[<<p, "object">>] = disk[<<p, "object">>]
  <2>1. CASE disk' = disk
    BY <2>1 DEF IInv, TypeOK
  <2>2. CASE \E c \in Calls : phase[c] = "download" /\ disk' = Torn(object[c])
    <3>1. PICK c \in Calls : phase[c] = "download" /\ disk' = Torn(object[c])
      BY <2>2
    <3>2. object[c] \in Objects
      BY <3>1, PastHooks
    <3> QED
      BY <3>1, <3>2 DEF IInv, TypeOK, Torn, File
  <2> QED
    BY <2>1, <2>2 DEF Exit, Crash
<1>3. \A c \in Calls : phase'[c] \in {phase[c], "failed"} /\ phase'[c] \in {"idle", "done", "failed"}
  BY <1>1 DEF Restart
<1>4. TypeOK'
  BY <1>1, <1>2, LoadFields DEF IInv, TypeOK, Restart, Phase
<1>5. Whole'
  BY <1>1, <1>2, TmpFacts DEF Restart
<1>6. Checked'
  BY <1>1, <1>3 DEF IInv, Checked, Skill, Declared, Restart
<1>7. Locked'
  BY <1>3 DEF Locked, Fetching
<1> QED
  BY <1>4, <1>5, <1>6, <1>7 DEF IInv

\* Steps that touch neither calls nor files.
LEMMA OtherInv == IInv /\ (Stop \/ Tick \/ UNCHANGED vars) => IInv'
<1> SUFFICES ASSUME IInv, Stop \/ Tick \/ UNCHANGED vars PROVE IInv'
  OBVIOUS
<1>1. UNCHANGED <<load, phase, object, result, lock, disk, used, unread, gc, restarts>>
  BY DEF Stop, Tick, vars, volatile, outer, files
<1>2. running' \in BOOLEAN /\ clock' \in Nat
  <2>1. running \in BOOLEAN /\ clock \in Nat
    BY DEF IInv, TypeOK
  <2>2. CASE Stop
    BY <2>1, <2>2 DEF Stop, outer
  <2>3. CASE Tick
    <3>1. clock' \in Nat
      BY <2>1, <2>3 DEF Tick
    <3>2. running' = running
      BY <2>3 DEF Tick, volatile
    <3> QED
      BY <2>1, <3>1, <3>2
  <2>4. CASE UNCHANGED vars
    BY <2>1, <2>4 DEF vars
  <2> QED
    BY <2>2, <2>3, <2>4
<1>3. TypeOK'
  BY <1>1, <1>2 DEF IInv, TypeOK
<1>4. Whole' /\ Locked'
  BY <1>1 DEF IInv, Whole, Locked, Fetching, Missed, Cached, Exists
<1>5. Checked'
  BY <1>1 DEF IInv, Checked, Skill, Declared
<1> QED
  BY <1>3, <1>4, <1>5 DEF IInv

\* Every step preserves the inductive invariant.
LEMMA NextInv == IInv /\ [Next]_vars => IInv'
<1> SUFFICES ASSUME IInv, [Next]_vars PROVE IInv'
  OBVIOUS
<1>1. ASSUME NEW c \in Calls, Call(c) \/ Step(c) \/ Cancel(c)
      PROVE  IInv'
  BY <1>1, PreflightInv, OpenInv, GetUrlInv, DownloadInv, CancelInv DEF Step
<1> QED
  BY <1>1, CollectInv, RestartInv, OtherInv DEF Next

\* It holds throughout.
LEMMA SpecInv == Spec => []IInv
<1> QED
  BY InitInv, NextInv, PTL DEF Spec

\* Every variable keeps its type: no call ever returns part of a file.
THEOREM SkillTypes == Spec => []TypeOK
<1>1. IInv => TypeOK
  BY DEF IInv
<1> QED
  BY <1>1, SpecInv, PTL

\* Whatever a call returns is the whole file it may read and asked for.
THEOREM ContentIsOwn == Spec => []OwnContent
<1>1. IInv => OwnContent
  <2> SUFFICES ASSUME IInv, NEW c \in Calls, phase[c] = "done"
               PROVE  /\ result[c] = Declared(c) /\ result[c] \in Objects
                      /\ Skill(c) \in load.allowed \cap load.viewable
    BY DEF OwnContent
  <2> QED
    BY DEF IInv, Checked
<1> QED
  BY <1>1, SpecInv, PTL

\* No object is downloaded by two calls at a time, or by one that read it or could have.
THEOREM DownloadIsSingle == Spec => []OneDownload
<1>1. IInv => OneDownload
  BY DEF IInv, Locked, OneDownload, Fetching, Missed
<1> QED
  BY <1>1, SpecInv, PTL

\* Only the collector removes files, and only those neither written nor touched by a read
\* for longer than the ttl.
THEOREM UsedFilesStay == Spec => StaysWhileUsed
<1>1. IInv /\ IInv' /\ [Next]_vars
      => [\A o \in Objects : Cached(o) /\ ~Cached(o)' => used[o] < clock - load.ttl]_vars
  <2> SUFFICES ASSUME IInv, Next, NEW o \in Objects, Cached(o), ~Cached(o)'
               PROVE  used[o] < clock - load.ttl
    OBVIOUS
  <2>0. disk \in [Objects \X {"object", "tmp"} -> File]
    BY DEF IInv, TypeOK
  <2>1. CASE Collect
    <3>1. disk[<<o, "object">>].mtime < clock - load.ttl
      BY <2>0, <2>1 DEF Collect, Expired, Cached, Exists
    <3> QED
      BY <3>1 DEF IInv, Whole
  <2>2. ASSUME UNCHANGED disk
        PROVE  FALSE
    BY <2>2 DEF Cached, Exists
  <2>3. ASSUME \A p \in Objects : disk'[<<p, "object">>] = disk[<<p, "object">>]
        PROVE  FALSE
    BY <2>3 DEF Cached, Exists
  <2>4. ASSUME NEW c \in Calls, Open(c) \/ Enter(c)
        PROVE  FALSE
    <3>1. object[c] \in Objects
      BY <2>4, PastHooks DEF Open, Enter
    <3>2. Touch(object[c]) \/ UNCHANGED disk
      BY <2>4 DEF Open, Enter, Read, Miss
    <3>3. CASE Touch(object[c])
      BY <3>1, <3>3, TouchFacts
    <3>4. CASE UNCHANGED disk
      BY <3>4, <2>2
    <3> QED
      BY <3>2, <3>3, <3>4
  <2>5. ASSUME NEW c \in Calls, Download(c)
        PROVE  FALSE
    <3>1. object[c] \in Objects
      BY <2>5, PastHooks DEF Download
    <3>2. CASE disk' = Written(object[c])
      <4>1. disk'[<<o, "object">>].content # "none"
        BY <2>0, <3>1, <3>2, ConstantsAssumption DEF Written, Cached, Exists
      <4> QED
        BY <4>1 DEF Cached, Exists
    <3>3. CASE disk' \in {Unwritten(object[c]), Torn(object[c]), disk}
      BY <2>0, <2>3, <3>1, <3>3 DEF Unwritten, Torn
    <3> QED
      BY <2>5, <3>2, <3>3 DEF Download
  <2>6. CASE Crash
    <3>1. CASE disk' = disk
      BY <3>1, <2>2
    <3>2. CASE \E c \in Calls : phase[c] = "download" /\ disk' = Torn(object[c])
      <4>1. PICK c \in Calls : phase[c] = "download" /\ disk' = Torn(object[c])
        BY <3>2
      <4>2. object[c] \in Objects
        BY <4>1, PastHooks
      <4> QED
        BY <2>0, <2>3, <4>1, <4>2 DEF Torn
    <3> QED
      BY <2>6, <3>1, <3>2 DEF Crash
  <2>7. ASSUME NEW c \in Calls,
               Call(c) \/ CheckPermission(c) \/ FindObject(c) \/ GetUrl(c) \/ Cancel(c)
        PROVE  FALSE
    BY <2>2, <2>7 DEF Call, CheckPermission, FindObject, GetUrl, Cancel, files
  <2>8. CASE Stop \/ Exit \/ Tick
    BY <2>2, <2>8 DEF Stop, Exit, Tick, files
  <2> QED
    BY <2>1, <2>4, <2>5, <2>6, <2>7, <2>8 DEF Next, Step
<1> QED
  BY <1>1, SpecInv, PTL DEF Spec, StaysWhileUsed
=============================================================================
