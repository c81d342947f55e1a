--------------------------- MODULE DiskREST_proofs ---------------------------
(***************************************************************************)
(* The handlers over RealFS are safe for any number of requests, files,    *)
(* restarts and failed writes: what a write that was cut off leaves behind *)
(* stays, versions are given out once per start, and requests that do not  *)
(* overlap lose no update.                                                 *)
(***************************************************************************)
EXTENDS DiskREST, TLAPS

(* A request that has an object in hand. *)
Holding == {"write", "fill", "remove", "notify"}

LocalsSet ==
  \A r \in Requests : pc[r] \in Holding => arg[r] \in Arg /\ out[r] \in versionedData

TypeInv == TypeOK /\ LocalsSet

(* Writes are numbered in the order in which they were completed; what was read was
   written before. *)
Numbered ==
  /\ \A w \in written : w.n \in 1..writes /\ w.read <= writes
  /\ \A v, w \in written : v.n = w.n => v = w
  /\ \A r \in Requests : pc[r] \in {"write", "fill"} => arg[r].read <= writes

(* A Write that has begun has cut off its file, and only such a Write has. *)
CutInv ==
  /\ \A r \in Requests : pc[r] = "fill" => CutOff(arg[r].key)
  /\ CutOnlyByFailure

(* The versions of this start are behind the counter, by one while a Write has taken
   a new one that is not on disk yet. *)
VersionInv ==
  /\ rev >= 1
  /\ \A w \in written : w.version >= 1 /\ w.start <= starts
  /\ \A w \in written : w.start = starts => w.version <= rev
  /\ \A w \in written : w.start = starts /\ (\E r \in Requests : pc[r] = "fill") =>
       w.version < rev
  /\ VersionsPerStart

(* A file that is whole holds the write that "current" names, one of this start if
   there is any of this start. *)
Whole(k) == Exists(k) /\ ~CutOff(k)

HoldsCurrent(k) ==
  \E c \in written :
    /\ c.n = current[k] /\ c.key = k /\ c.version = disk[k].version
    /\ \A v \in written : v.key = k /\ v.start = starts => c.start = starts

DiskInv == \A k \in Keys : Whole(k) => HoldsCurrent(k)

(* While requests that write do not overlap, an update still finds the write that its
   client has read. *)
Alone == \A q, r \in Requests : q # r => pc[q] \notin Writing \/ pc[r] \notin Writing

FindsRead(r) ==
  pc[r] \in {"write", "fill"} /\ arg[r].read # 0 =>
    \A v \in written : v.n = arg[r].read /\ v.start = starts => current[arg[r].key] = arg[r].read

ReadInv == ~overlap => Alone /\ \A r \in Requests : FindsRead(r)

DiskRESTInv ==
  TypeInv /\ Numbered /\ CutInv /\ VersionInv /\ DiskInv /\ ReadInv /\ NoLostUpdate

-----------------------------------------------------------------------------
(* The objects that handlers write. *)

LEMMA FillType ==
  ASSUME NEW d \in Draft, NEW u \in Nat
  PROVE  FillObjectMetaSystemFields(d, u) \in Object
BY Zenon DEF Draft, Object, FillObjectMetaSystemFields

LEMMA UpdatedObjectType ==
  ASSUME NEW c \in Change, NEW v \in Nat, NEW input \in versionedData
  PROVE  /\ UpdatedObject(c, v, input) \in versionedData
         /\ UpdatedObject(c, v, input).version \in {v, input.version}
         /\ v # NoVersion => UpdatedObject(c, v, input).version = v
<1>1. c.draft \in Draft /\ input # ErrNotExist
  BY Zenon, ErrNotExistAssumption DEF Change
<1>2. FromClient(c.draft) \in Object
  BY Zenon, <1>1, FillType DEF FromClient, NoUID
<1>3. Patched(c, input.data) \in Object
  BY Zenon, <1>1 DEF Patched, Draft, Object, versionedData
<1>4. QED
  BY Zenon, <1>1, <1>2, <1>3 DEF UpdatedObject, versionedData

LEMMA BeforeUpdateType ==
  ASSUME NEW sub \in Subresources, NEW obj \in Object, NEW old \in Object
  PROVE  BeforeUpdate(sub, obj, old) \in Object
<1>1. PrepareForUpdate(sub, obj, old) \in Object
  BY Zenon DEF PrepareForUpdate, StatusPrepareForUpdate, DefaultPrepareForUpdate, Object
<1>2. QED
  BY Zenon, <1>1 DEF BeforeUpdate, Object

LEMMA EmptyType == Empty \in versionedData /\ Empty.version = NoVersion /\ Empty.data.finalizers = {}
<1>1. FromClient(Zero) \in Object /\ FromClient(Zero).finalizers = {}
  BY Zenon, FillType, DiskAssumption DEF FromClient, NoUID, FillObjectMetaSystemFields
<1>2. QED
  BY Zenon, <1>1 DEF Empty, versionedData, NoVersion

LEMMA ReadableType ==
  ASSUME TypeOK, NEW k \in Keys, Readable(k)
  PROVE  disk[k] \in versionedData /\ disk[k].version \in Nat /\ disk[k].data \in Object
BY Zenon DEF TypeOK, Readable, DiskFile, versionedData

-----------------------------------------------------------------------------
(* What a step does to the requests. *)

OthersSame(r) ==
  \A q \in Requests : q # r => pc'[q] = pc[q] /\ arg'[q] = arg[q] /\ out'[q] = out[q]

LocalsTyped ==
  /\ pc \in [Requests -> {"idle"} \cup Writing \cup Replies]
  /\ arg \in [Requests -> Arg \cup {Nil}]
  /\ out \in [Requests -> versionedData \cup {Nil}]

LEMMA ReturnShape ==
  ASSUME TypeOK, NEW r \in Requests, NEW reply \in Replies, Return(r, reply)
  PROVE  OthersSame(r) /\ LocalsTyped' /\ pc'[r] = reply
BY Zenon DEF TypeOK, Return, OthersSame, LocalsTyped

LEMMA GotoShape ==
  ASSUME TypeOK, NEW r \in Requests, NEW label \in Writing, NEW a \in Arg,
         NEW o \in versionedData, Goto(r, label, a, o)
  PROVE  OthersSame(r) /\ LocalsTyped' /\ pc'[r] = label /\ arg'[r] = a /\ out'[r] = o
BY Zenon DEF TypeOK, Goto, OthersSame, LocalsTyped

(* A request is answered; it takes up its object to write or remove it; it takes the
   mutex for a walk. *)
Answers(r) ==
  /\ pc[r] \in {"idle", "notify"} /\ pc'[r] \in Replies
  /\ UNCHANGED mu
  /\ pc'[r] \in {"DecodeErr", "empty"} => Unlocked /\ \E k \in Keys : CutOff(k)

HasRead(r) ==
  \E w \in written :
    /\ w.n = arg'[r].read /\ w.key = arg'[r].key
    /\ Whole(w.key)
    /\ w.version # NoVersion => disk[w.key].version = w.version

Begins(r) ==
  /\ pc[r] = "idle" /\ pc'[r] \in {"write", "remove"}
  /\ Unlocked /\ UNCHANGED mu
  /\ arg'[r] \in Arg /\ out'[r] \in versionedData
  /\ disk[arg'[r].key] # Torn
  /\ pc'[r] = "write" => ~CutOff(arg'[r].key)
  /\ arg'[r].read = 0 \/ HasRead(r)

Visits(r) == pc[r] = "idle" /\ pc'[r] = "visit" /\ Unlocked /\ mu' = r

Overlaps(r) ==
  /\ overlap' \in BOOLEAN
  /\ overlap => overlap'
  /\ pc'[r] \in Writing => overlap' \/ \A q \in Requests : pc[q] \notin Writing

Quiet(r) ==
  /\ UNCHANGED <<disk, rev, starts, written, writes, current, cut>>
  /\ dirs' \subseteq Namespaces \cup {Keys} /\ uids' \in Nat
  /\ OthersSame(r) /\ LocalsTyped'
  /\ Answers(r) \/ Begins(r) \/ Visits(r)
  /\ Overlaps(r)

LEMMA StartWritingOverlaps ==
  ASSUME TypeOK, NEW r \in Requests, StartWriting(r)
  PROVE  Overlaps(r)
<1>1. overlap' = (overlap \/ \E q \in Requests : pc[q] \in Writing)
  BY Zenon DEF StartWriting
<1>2. overlap \in BOOLEAN
  BY Zenon DEF TypeOK
<1>3. QED
  BY <1>1, <1>2, Zenon DEF Overlaps

LEMMA DirsType ==
  ASSUME TypeOK, NEW k \in Keys, EnsureDir(k) \/ UNCHANGED dirs
  PROVE  dirs' \subseteq Namespaces \cup {Keys}
BY Zenon DEF TypeOK, EnsureDir

LEMMA CreateShape ==
  ASSUME TypeOK, NEW r \in Requests, NEW k \in Keys, NEW d \in Drafts, Create(r, k, d)
  PROVE  Quiet(r)
<1>1. /\ Overlaps(r) /\ dirs' \subseteq Namespaces \cup {Keys} /\ pc[r] = "idle" /\ Unlocked
      /\ UNCHANGED <<disk, rev, mu, starts, written, writes, current, cut>>
  BY Zenon, StartWritingOverlaps, DirsType DEF Create, StartWriting, Start, ghosts
<1>2. uids + 1 \in Nat /\ uids' = uids + 1
  BY DEF Create, TypeOK
<1>3. CASE Return(r, "AlreadyExists")
  BY Zenon, <1>1, <1>2, <1>3, ReturnShape DEF Quiet, Answers, Replies
<1>4. CASE ~Return(r, "AlreadyExists")
  <2> DEFINE a == [key |-> k, via |-> "create", change |-> Nil, read |-> 0]
             o == [version |-> NoVersion, data |-> FillObjectMetaSystemFields(d, uids + 1)]
  <2>1. a \in Arg /\ a.key = k /\ a.read = 0
    BY Zenon DEF Arg
  <2>2. o \in versionedData
    BY Zenon, <1>2, FillType, DiskAssumption DEF versionedData, NoVersion
  <2>3. ~Exists(k) /\ Goto(r, "write", a, o)
    BY Zenon, <1>4 DEF Create
  <2>4. disk[k] # Torn /\ ~CutOff(k)
    BY Zenon, <2>3, DiskAssumption, EmptyType, ErrNotExistAssumption DEF Exists, File, CutOff
  <2> HIDE DEF a, o
  <2>5. /\ OthersSame(r) /\ LocalsTyped'
        /\ pc'[r] = "write" /\ arg'[r] = a /\ out'[r] = o
    BY Zenon, <2>1, <2>2, <2>3, GotoShape DEF Writing
  <2>6. QED
    BY Zenon, <1>1, <1>2, <2>1, <2>2, <2>4, <2>5 DEF Quiet, Begins
<1>5. QED
  BY Zenon, <1>3, <1>4

LEMMA DeleteShape ==
  ASSUME TypeOK, NEW r \in Requests, NEW k \in Keys, Delete(r, k)
  PROVE  Quiet(r)
<1>1. /\ Overlaps(r) /\ dirs' \subseteq Namespaces \cup {Keys} /\ pc[r] = "idle" /\ Unlocked
      /\ UNCHANGED <<disk, rev, mu, starts, written, writes, current, cut>> /\ uids' \in Nat
  BY Zenon, StartWritingOverlaps, DirsType DEF Delete, StartWriting, Start, ghosts, fsVars, TypeOK
<1>2. CASE disk[k] = Torn /\ Return(r, "DecodeErr")
  BY Zenon, <1>1, <1>2, ReturnShape DEF Quiet, Answers, Replies, CutOff
<1>3. CASE Return(r, "NotFound")
  BY Zenon, <1>1, <1>3, ReturnShape DEF Quiet, Answers, Replies
<1>4. CASE Readable(k)
  <2> DEFINE a == [key |-> k, via |-> "delete", change |-> Nil, read |-> 0]
             o == [disk[k] EXCEPT !.data.deleting = TRUE]
  <2>1. a \in Arg /\ a.key = k /\ a.read = 0
    BY Zenon DEF Arg
  <2>2. disk[k] \in versionedData /\ o \in versionedData /\ disk[k] # Torn
    BY ZenonT(40), <1>4, ReadableType DEF versionedData, Object, Readable
  <2>3. \/ Goto(r, "write", a, o) /\ disk[k].data.finalizers # {}
        \/ Goto(r, "remove", a, disk[k])
    BY Zenon, <1>4 DEF Delete, Readable
  <2> HIDE DEF a, o
  <2>4. PICK label \in {"write", "remove"}, p \in versionedData :
          Goto(r, label, a, p) /\ (label = "write" => ~CutOff(k))
    BY Zenon, <2>2, <2>3, EmptyType DEF CutOff
  <2>5. /\ OthersSame(r) /\ LocalsTyped'
        /\ pc'[r] = label /\ arg'[r] = a /\ out'[r] = p
    BY Zenon, <2>1, <2>4, GotoShape DEF Writing
  <2>6. QED
    BY Zenon, <1>1, <2>1, <2>2, <2>4, <2>5 DEF Quiet, Begins
<1>5. QED
  BY Zenon, <1>2, <1>3, <1>4 DEF Delete

LEMMA UpdateShape ==
  ASSUME TypeOK, NEW r \in Requests, NEW k \in Keys, NEW c \in Changes,
         NEW w \in {Nothing} \cup {v \in written : v.key = k}, Update(r, k, c, w)
  PROVE  Quiet(r)
<1> DEFINE asked == UpdatedObject(c, w.version, disk[k])
           output == BeforeUpdate(c.sub, asked.data, disk[k].data)
           a == [key |-> k, via |-> "update", change |-> c, read |-> w.n]
<1>1. /\ Overlaps(r) /\ pc[r] = "idle" /\ Unlocked
      /\ UNCHANGED <<disk, rev, mu, starts, written, writes, current, cut>> /\ uids' \in Nat
  BY Zenon, StartWritingOverlaps DEF Update, StartWriting, Start, ghosts, TypeOK
<1>2. dirs' \subseteq Namespaces \cup {Keys}
  <2>1. EnsureDir(k) \/ UNCHANGED dirs
    BY Zenon DEF Update
  <2>2. QED
    BY Zenon, <2>1, DirsType
<1>3. CASE disk[k] = Torn /\ Return(r, "DecodeErr")
  BY Zenon, <1>1, <1>2, <1>3, ReturnShape DEF Quiet, Answers, Replies, CutOff
<1>4. CASE \E reply \in {"NotFound", "Conflict", "NotObject", "Invalid"} : Return(r, reply)
  <2>1. PICK reply \in {"NotFound", "Conflict", "NotObject", "Invalid"} : Return(r, reply)
    BY Zenon, <1>4
  <2>2. reply \in Replies /\ reply \notin {"DecodeErr", "empty"}
    BY Zenon DEF Replies
  <2>3. QED
    BY Zenon, <1>1, <1>2, <2>1, <2>2, ReturnShape DEF Quiet, Answers
<1>5. CASE /\ Readable(k) /\ asked.version = disk[k].version /\ asked.version # NoVersion
           /\ Goto(r, "write", a, [version |-> disk[k].version, data |-> output])
  <2>1. c \in Change /\ w.n \in Nat /\ w.version \in Nat
    BY DiskAssumption DEF TypeOK, Write, Nothing, NoVersion
  <2>2. /\ disk[k] \in versionedData /\ disk[k].version \in Nat /\ disk[k].data \in Object
        /\ disk[k] # Torn /\ Exists(k)
    BY Zenon, <1>5, ReadableType DEF Readable, Exists
  <2>a. ~CutOff(k) /\ Whole(k)
    BY Zenon, <1>5, <2>2, EmptyType DEF CutOff, Whole
  <2>3. asked.data \in Object
    BY Zenon, <2>1, <2>2, UpdatedObjectType DEF versionedData
  <2>4. c.sub \in Subresources
    BY Zenon, <2>1 DEF Change
  <2>5. output \in Object
    BY Zenon, <2>2, <2>3, <2>4, BeforeUpdateType
  <2>6. a \in Arg /\ a.key = k /\ a.read = w.n
    BY Zenon, <2>1 DEF Arg
  <2>7. w.version # NoVersion => disk[k].version = w.version
    BY Zenon, <1>5, <2>1, <2>2, UpdatedObjectType
  <2> DEFINE o == [version |-> disk[k].version, data |-> output]
  <2>8. o \in versionedData /\ Goto(r, "write", a, o)
    BY Zenon, <1>5, <2>2, <2>5 DEF versionedData
  <2> HIDE DEF a, o, asked, output
  <2>9. /\ OthersSame(r) /\ LocalsTyped'
        /\ pc'[r] = "write" /\ arg'[r] = a /\ out'[r] = o
    BY <2>6, <2>8, GotoShape DEF Writing
  <2>10. a.read = 0 \/ (w \in written /\ w.key = k)
    BY <2>6 DEF Nothing
  <2>11. a.read = 0 \/ HasRead(r)
    BY Zenon, <2>a, <2>6, <2>7, <2>9, <2>10 DEF HasRead
  <2>12. QED
    BY Zenon, <1>1, <1>2, <2>2, <2>a, <2>6, <2>8, <2>9, <2>11 DEF Quiet, Begins
<1>6. QED
  BY Zenon, <1>3, <1>4, <1>5 DEF Update

(* Requests that only read, and answers. *)
LEMMA AnswerShape ==
  ASSUME TypeOK, NEW r \in Requests, pc[r] \in {"idle", "notify"}, NEW reply \in Replies,
         Return(r, reply),
         reply \in {"DecodeErr", "empty"} => Unlocked /\ \E k \in Keys : CutOff(k),
         UNCHANGED <<fsVars, uids, ghosts, overlap>>
  PROVE  Quiet(r)
<1>1. OthersSame(r) /\ LocalsTyped' /\ pc'[r] = reply
  BY Zenon, ReturnShape
<1>2. UNCHANGED <<disk, dirs, rev, mu, starts, written, writes, current, cut>>
  BY Zenon DEF fsVars, ghosts
<1>3. overlap' = overlap /\ overlap \in BOOLEAN /\ uids' \in Nat
  BY Zenon DEF TypeOK
<1>4. pc'[r] \notin Writing
  BY Zenon, <1>1 DEF Writing, Replies
<1>5. Overlaps(r)
  <2>1. overlap' \in BOOLEAN /\ (overlap => overlap')
    <3>1. CASE overlap = TRUE
      BY <1>3, <3>1, Zenon
    <3>2. CASE overlap = FALSE
      BY <1>3, <3>2, Zenon
    <3>3. QED
      BY <1>3, <3>1, <3>2, Zenon
  <2>2. QED
    BY Zenon, <1>4, <2>1 DEF Overlaps
<1>6. dirs' \subseteq Namespaces \cup {Keys}
  BY Zenon, <1>2 DEF TypeOK
<1>7. QED
  BY Zenon, <1>1, <1>2, <1>3, <1>5, <1>6 DEF Quiet, Answers

(* A walk that comes on a file that was cut off. *)
LEMMA WalkFailsAt ==
  ASSUME NEW dir \in Namespaces \cup {Keys},
         (WalkFails(dir) /\ dir \in dirs) \/ \E k \in dir : disk[k] = Empty
  PROVE  \E k \in Keys : CutOff(k)
<1>1. dir \subseteq Keys
  BY Zenon, DiskAssumption
<1>2. PICK k \in dir : CutOff(k)
  BY Zenon DEF WalkFails, CutOff
<1>3. QED
  BY Zenon, <1>1, <1>2

LEMMA CollectionShape ==
  ASSUME TypeOK, NEW r \in Requests, NEW dir \in Namespaces \cup {Keys}, NEW sel \in Selectors,
         DeleteCollection(r, dir, sel)
  PROVE  Quiet(r)
<1>1. /\ Overlaps(r) /\ dirs' \subseteq Namespaces \cup {Keys} /\ pc[r] = "idle" /\ Unlocked
      /\ UNCHANGED <<disk, rev, starts, written, writes, current, cut>> /\ uids' \in Nat
  BY Zenon, StartWritingOverlaps DEF DeleteCollection, StartWriting, Start, ghosts, TypeOK
<1>2. CASE mu' = r /\ pc' = [pc EXCEPT ![r] = "visit"] /\ UNCHANGED <<arg, out>>
  <2>1. OthersSame(r) /\ LocalsTyped' /\ pc'[r] = "visit"
    BY Zenon, <1>2 DEF TypeOK, OthersSame, LocalsTyped, Writing
  <2>2. QED
    BY Zenon, <1>1, <1>2, <2>1 DEF Quiet, Visits
<1>3. CASE /\ WalkFails(dir) /\ UNCHANGED mu
           /\ Return(r, IF dir \in dirs THEN "DecodeErr" ELSE "WalkErr")
  <2>1. CASE dir \in dirs
    BY Zenon, <1>1, <1>3, <2>1, ReturnShape, WalkFailsAt DEF Quiet, Answers, Replies
  <2>2. CASE dir \notin dirs
    BY Zenon, <1>1, <1>3, <2>2, ReturnShape DEF Quiet, Answers, Replies
  <2>3. QED
    BY Zenon, <2>1, <2>2
<1>4. CASE Return(r, "ok") /\ UNCHANGED mu
  BY Zenon, <1>1, <1>4, ReturnShape DEF Quiet, Answers, Replies
<1>5. QED
  BY Zenon, <1>2, <1>3, <1>4 DEF DeleteCollection

LEMMA ReadShape ==
  ASSUME TypeOK, NEW r \in Requests,
         \/ \E k \in Keys : Get(r, k)
         \/ \E dir \in Namespaces \cup {Keys} : List(r, dir)
         \/ Notify(r)
         \/ Refuse(r)
  PROVE  Quiet(r)
<1>1. UNCHANGED <<fsVars, uids, ghosts, overlap>> /\ pc[r] \in {"idle", "notify"}
  BY Zenon DEF Get, List, Notify, Refuse, Start
<1>2. ASSUME NEW k \in Keys, Get(r, k)
      PROVE  Quiet(r)
  <2>1. CASE \/ disk[k] = Torn /\ Return(r, "DecodeErr")
             \/ disk[k] = Empty /\ Return(r, "empty")
    BY Zenon, <1>1, <1>2, <2>1, AnswerShape DEF Get, Start, Replies, CutOff
  <2>2. CASE Return(r, "NotFound") \/ Return(r, "ok")
    BY Zenon, <1>1, <2>2, AnswerShape DEF Replies
  <2>3. QED
    BY Zenon, <1>2, <2>1, <2>2 DEF Get
<1>3. ASSUME NEW dir \in Namespaces \cup {Keys}, List(r, dir)
      PROVE  Quiet(r)
  <2>1. CASE \/ WalkFails(dir) /\ dir \in dirs /\ Return(r, "DecodeErr")
             \/ (\E k \in dir : disk[k] = Empty) /\ Return(r, "empty")
    BY Zenon, <1>1, <1>3, <2>1, AnswerShape, WalkFailsAt DEF List, Start, Replies
  <2>2. CASE Return(r, "WalkErr") \/ Return(r, "ok")
    BY Zenon, <1>1, <2>2, AnswerShape DEF Replies
  <2>3. QED
    BY Zenon, <1>3, <2>1, <2>2 DEF List
<1>4. ASSUME Notify(r) \/ Refuse(r)
      PROVE  Quiet(r)
  <2>1. CASE Return(r, "ok") \/ Return(r, "Invalid")
    BY Zenon, <1>1, <2>1, AnswerShape DEF Replies
  <2>2. QED
    BY Zenon, <1>4, <2>1 DEF Notify, Refuse
<1>5. QED
  BY Zenon, <1>2, <1>3, <1>4

(* Every step, by what it does to the disk. *)
Writes(r) ==
  Truncate(r) \/ Part(r) \/ Fill(r) \/ FillFails(r) \/ CallFails(r) \/ RemoveOut(r)

LEMMA StepShape ==
  ASSUME TypeOK, [Next]_vars
  PROVE  \/ \E r \in Requests : Quiet(r) \/ Writes(r)
         \/ Restart
         \/ UNCHANGED vars
<1>1. ASSUME NEW r \in Requests, Begin(r)
      PROVE  Quiet(r)
  BY Zenon, <1>1, CreateShape, UpdateShape, DeleteShape, ReadShape, CollectionShape DEF Begin
<1>2. ASSUME NEW r \in Requests, Proceed(r)
      PROVE  Quiet(r) \/ Writes(r)
  BY Zenon, <1>2, ReadShape DEF Proceed, Writes
<1>3. QED
  BY Zenon, <1>1, <1>2 DEF Next, Answered

-----------------------------------------------------------------------------
(* What the steps that touch the disk do. *)

LEMMA TruncateEffect ==
  ASSUME TypeInv, NEW r \in Requests, Truncate(r)
  PROVE  /\ arg[r] \in Arg /\ arg[r].key \in Keys /\ out[r] \in versionedData
         /\ pc[r] = "write" /\ pc'[r] = "fill" /\ OthersSame(r) /\ LocalsTyped'
         /\ UNCHANGED <<dirs, uids, arg, out, starts, written, writes, current, cut, overlap>>
         /\ mu = Nil /\ mu' = r /\ rev' = rev + 1
         /\ disk' = [disk EXCEPT ![arg[r].key] = Empty]
<1>1. pc[r] = "write" /\ arg[r] \in Arg /\ out[r] \in versionedData
  BY Zenon DEF Truncate, TypeInv, LocalsSet, Holding
<1>2. arg[r].key \in Keys
  BY Zenon, <1>1 DEF Arg
<1>3. /\ UNCHANGED <<dirs, uids, arg, out, starts, written, writes, current, cut, overlap>>
      /\ mu = Nil /\ mu' = r /\ rev' = rev + 1
      /\ disk' = [disk EXCEPT ![arg[r].key] = Empty]
      /\ pc' = [pc EXCEPT ![r] = "fill"]
  BY Zenon DEF Truncate, WriteTruncate, Unlocked, ghosts
<1>4. pc'[r] = "fill" /\ OthersSame(r) /\ LocalsTyped'
  BY Zenon, <1>3 DEF TypeInv, TypeOK, OthersSame, LocalsTyped, Writing
<1>5. QED
  BY Zenon, <1>1, <1>2, <1>3, <1>4

LEMMA PartEffect ==
  ASSUME TypeInv, NEW r \in Requests, Part(r)
  PROVE  /\ arg[r].key \in Keys /\ pc[r] = "fill" /\ OthersSame(r)
         /\ disk' = [disk EXCEPT ![arg[r].key] = Torn]
         /\ UNCHANGED <<dirs, rev, mu, uids, pc, arg, out>>
         /\ UNCHANGED <<starts, written, writes, current, cut, overlap>>
<1>1. pc[r] = "fill" /\ arg[r] \in Arg
  BY Zenon DEF Part, TypeInv, LocalsSet, Holding
<1>2. arg[r].key \in Keys
  BY Zenon, <1>1 DEF Arg
<1>3. QED
  BY Zenon, <1>1, <1>2 DEF Part, WritePart, reqVars, ghosts, OthersSame

LEMMA CallFailsEffect ==
  ASSUME TypeInv, NEW r \in Requests, CallFails(r)
  PROVE  /\ pc[r] \in {"write", "remove"} /\ pc'[r] = "IOErr" /\ OthersSame(r) /\ LocalsTyped'
         /\ mu = Nil /\ mu' = Nil /\ rev' = rev + 1
         /\ UNCHANGED <<disk, dirs, uids, starts, written, writes, current, cut, overlap>>
<1>1. OthersSame(r) /\ LocalsTyped' /\ pc'[r] = "IOErr"
  BY Zenon, ReturnShape DEF CallFails, Replies, TypeInv
<1>2. QED
  BY Zenon, <1>1 DEF CallFails, Refused, Unlocked, ghosts

LEMMA FillFailsEffect ==
  ASSUME TypeInv, NEW r \in Requests, FillFails(r)
  PROVE  /\ arg[r].key \in Keys
         /\ pc[r] = "fill" /\ pc'[r] = "IOErr" /\ OthersSame(r) /\ LocalsTyped'
         /\ mu = r /\ mu' = Nil
         /\ current' = [current EXCEPT ![arg[r].key] = 0]
         /\ cut' = cut \cup {arg[r].key}
         /\ UNCHANGED <<disk, dirs, rev, uids, starts, written, writes, overlap>>
<1>1. OthersSame(r) /\ LocalsTyped' /\ pc'[r] = "IOErr"
  BY Zenon, ReturnShape DEF FillFails, Replies, TypeInv
<1>2. pc[r] = "fill" /\ arg[r] \in Arg
  BY Zenon DEF FillFails, TypeInv, LocalsSet, Holding
<1>3. arg[r].key \in Keys
  BY Zenon, <1>2 DEF Arg
<1>4. QED
  BY Zenon, <1>1, <1>2, <1>3 DEF FillFails, WriteStop

(* The write that is completed. *)
WriteOf(r) ==
  [n |-> writes + 1, key |-> arg[r].key, start |-> starts, version |-> rev,
   data |-> out[r].data, read |-> arg[r].read, replaced |-> current[arg[r].key]]

LEMMA FillEffect ==
  ASSUME TypeInv, Numbered, NEW r \in Requests, Fill(r)
  PROVE  /\ arg[r] \in Arg /\ arg[r].key \in Keys /\ out[r] \in versionedData
         /\ pc[r] = "fill" /\ pc'[r] \in {"remove", "notify", "IOErr"}
         /\ OthersSame(r) /\ LocalsTyped'
         /\ pc'[r] # "IOErr" => arg'[r] = arg[r] /\ out'[r] \in versionedData
         /\ UNCHANGED <<dirs, uids, rev, starts, cut, overlap>>
         /\ mu = r /\ mu' = Nil
         /\ disk' = [disk EXCEPT ![arg[r].key] = [version |-> rev, data |-> out[r].data]]
         /\ [version |-> rev, data |-> out[r].data] \in versionedData
         /\ WriteOf(r) \in Write /\ WriteOf(r) \notin written
         /\ written' = written \cup {WriteOf(r)}
         /\ writes \in Nat /\ writes' = writes + 1
         /\ current' = [current EXCEPT ![arg[r].key] = writes + 1]
<1> DEFINE k == arg[r].key
           file == [version |-> rev, data |-> out[r].data]
<1>1. pc[r] = "fill" /\ arg[r] \in Arg /\ out[r] \in versionedData
  BY Zenon DEF Fill, TypeInv, LocalsSet, Holding
<1>2. k \in Keys /\ arg[r].read \in Nat /\ out[r].data \in Object
  BY Zenon, <1>1 DEF Arg, versionedData
<1>3. writes \in Nat /\ rev \in Nat /\ starts \in Nat /\ current[k] \in Nat
  BY <1>2, DiskAssumption DEF TypeInv, TypeOK
<1>4. file \in versionedData
  BY Zenon, <1>2, <1>3 DEF versionedData
<1>5. WriteOf(r) \in Write
  BY <1>2, <1>3 DEF WriteOf, Write
<1>6. WriteOf(r) \notin written
  <2>1. WriteOf(r).n = writes + 1
    BY Zenon DEF WriteOf
  <2>2. QED
    BY <1>3, <2>1 DEF Numbered
<1>7. written' = written \cup {WriteOf(r)}
  BY Zenon DEF Fill, WriteOf
<1>8. writes' = writes + 1
  BY Zenon DEF Fill
<1>9. /\ UNCHANGED <<dirs, uids, rev, starts, cut, overlap>>
      /\ mu = r /\ mu' = Nil /\ disk' = [disk EXCEPT ![k] = file]
      /\ current' = [current EXCEPT ![k] = writes + 1]
  BY Zenon DEF Fill, WriteFill
<1>10. disk'[k] = file
  BY Zenon, <1>2, <1>9 DEF TypeInv, TypeOK
<1>11. \/ \E label \in {"remove", "notify"} : Goto(r, label, arg[r], disk'[k])
       \/ Return(r, "IOErr")
  BY Zenon DEF Fill
<1>12. /\ OthersSame(r) /\ LocalsTyped' /\ pc'[r] \in {"remove", "notify", "IOErr"}
       /\ pc'[r] # "IOErr" => arg'[r] = arg[r] /\ out'[r] \in versionedData
  <2>1. ASSUME NEW label \in {"remove", "notify"}, Goto(r, label, arg[r], disk'[k])
        PROVE  /\ OthersSame(r) /\ LocalsTyped' /\ pc'[r] = label /\ arg'[r] = arg[r]
               /\ out'[r] \in versionedData
    BY <1>1, <1>4, <1>10, <2>1, GotoShape DEF TypeInv, Writing
  <2>2. CASE Return(r, "IOErr")
    BY Zenon, <2>2, ReturnShape DEF TypeInv, Replies
  <2>3. QED
    BY Zenon, <1>11, <2>1, <2>2
<1>13. QED
  BY Zenon, <1>1, <1>2, <1>3, <1>4, <1>5, <1>6, <1>7, <1>8, <1>9, <1>12

LEMMA RemoveEffect ==
  ASSUME TypeInv, NEW r \in Requests, RemoveOut(r)
  PROVE  /\ arg[r] \in Arg /\ arg[r].key \in Keys /\ out[r] \in versionedData
         /\ pc[r] = "remove" /\ OthersSame(r) /\ LocalsTyped'
         /\ \/ pc'[r] = "notify" /\ arg'[r] \in Arg /\ out'[r] \in versionedData
            \/ pc'[r] = "NotFound"
         /\ UNCHANGED <<dirs, uids, mu, starts, written, writes, cut, overlap>>
         /\ mu = Nil /\ rev' = rev + 1
         /\ disk' = [disk EXCEPT ![arg[r].key] = ErrNotExist]
         /\ current' = [current EXCEPT ![arg[r].key] = 0]
<1>1. pc[r] = "remove" /\ arg[r] \in Arg /\ out[r] \in versionedData
  BY Zenon DEF RemoveOut, TypeInv, LocalsSet, Holding
<1>2. arg[r].key \in Keys
  BY Zenon, <1>1 DEF Arg
<1>3. /\ UNCHANGED <<dirs, uids, mu, starts, written, writes, cut, overlap>>
      /\ mu = Nil /\ rev' = rev + 1
      /\ disk' = [disk EXCEPT ![arg[r].key] = ErrNotExist]
      /\ current' = [current EXCEPT ![arg[r].key] = 0]
  BY Zenon DEF RemoveOut, Remove, Unlocked
<1>4. Goto(r, "notify", arg[r], out[r]) \/ Return(r, "NotFound")
  BY Zenon DEF RemoveOut
<1>5. CASE Goto(r, "notify", arg[r], out[r])
  <2>1. OthersSame(r) /\ LocalsTyped' /\ pc'[r] = "notify" /\ arg'[r] = arg[r] /\ out'[r] = out[r]
    BY Zenon, <1>1, <1>5, GotoShape DEF TypeInv, Writing
  <2>2. QED
    BY Zenon, <1>1, <1>2, <1>3, <2>1
<1>6. CASE Return(r, "NotFound")
  <2>1. OthersSame(r) /\ LocalsTyped' /\ pc'[r] = "NotFound"
    BY Zenon, <1>6, ReturnShape DEF TypeInv, Replies
  <2>2. QED
    BY Zenon, <1>1, <1>2, <1>3, <2>1
<1>7. QED
  BY Zenon, <1>4, <1>5, <1>6

LEMMA RestartEffect ==
  ASSUME TypeInv, Restart
  PROVE  /\ starts' = starts + 1 /\ starts' \in 1..MaxStarts /\ starts \in Nat
         /\ rev' = 1 /\ mu' = Nil
         /\ \A r \in Requests :
              pc'[r] = "aborted" \/ (pc'[r] = pc[r] /\ pc[r] \in {"idle"} \cup Replies)
         /\ LocalsTyped'
         /\ current' = [k \in Keys |-> IF CutOff(k) THEN 0 ELSE current[k]]
         /\ cut' = cut \cup {k \in Keys : InHand(k, {"fill"})}
         /\ UNCHANGED <<disk, dirs, uids, written, writes, overlap>>
<1>1. starts' = starts + 1 /\ starts' \in 1..MaxStarts /\ starts \in Nat
  BY DiskAssumption DEF Restart, TypeInv, TypeOK
<1>2. \A r \in Requests :
        pc'[r] = "aborted" \/ (pc'[r] = pc[r] /\ pc[r] \in {"idle"} \cup Replies)
  BY Zenon DEF Restart
<1>3. LocalsTyped'
  BY Zenon, <1>2 DEF Restart, LocalsTyped, Replies
<1>4. QED
  BY Zenon, <1>1, <1>2, <1>3 DEF Restart

-----------------------------------------------------------------------------
(* Types and the numbers of writes, one step. *)

LEMMA NumberedNext == TypeInv /\ Numbered /\ [Next]_vars => Numbered'
<1> SUFFICES ASSUME TypeInv, Numbered, [Next]_vars PROVE Numbered'
  BY Zenon
<1>0. /\ TypeOK /\ writes \in Nat /\ written \subseteq Write
      /\ \A r \in Requests : pc[r] \in {"write", "fill"} => arg[r].read \in Nat
  BY Zenon DEF TypeInv, TypeOK, LocalsSet, Holding, Arg
<1>1. ASSUME NEW r \in Requests, Fill(r)
      PROVE  Numbered'
  <2> DEFINE w == WriteOf(r)
  <2>1. /\ writes' = writes + 1
        /\ written' = written \cup {w} /\ OthersSame(r)
        /\ pc[r] = "fill" /\ pc'[r] \notin {"write", "fill"}
    BY Zenon, <1>1, FillEffect
  <2>2. w.n = writes + 1 /\ w.read <= writes + 1
    BY <1>0, <2>1 DEF WriteOf, Numbered
  <2>3. \A v \in written : v.n \in 1..writes /\ v.read <= writes /\ v.read \in Nat
    BY Zenon, <1>0 DEF Numbered, Write
  <2>4. \A q \in Requests : pc'[q] \in {"write", "fill"} => arg'[q].read <= writes + 1
    BY <1>0, <2>1 DEF Numbered, OthersSame
  <2> HIDE DEF w
  <2>5. QED
    BY <1>0, <2>1, <2>2, <2>3, <2>4 DEF Numbered
<1>2. ASSUME UNCHANGED <<written, writes>>,
             \A q \in Requests : pc'[q] \in {"write", "fill"} => arg'[q].read <= writes
      PROVE  Numbered'
  BY Zenon, <1>2 DEF Numbered
<1>3. ASSUME NEW r \in Requests, Quiet(r)
      PROVE  Numbered'
  <2>1. pc'[r] \in {"write", "fill"} => arg'[r].read <= writes
    <3>1. pc'[r] \in {"write", "fill"} => arg'[r].read = 0 \/ HasRead(r)
      BY Zenon, <1>3 DEF Quiet, Answers, Begins, Visits, Replies
    <3>2. HasRead(r) => arg'[r].read <= writes
      BY <1>0 DEF HasRead, Numbered
    <3>3. 0 <= writes
      BY <1>0
    <3>4. QED
      BY Zenon, <3>1, <3>2, <3>3
  <2>2. QED
    BY Zenon, <1>2, <1>3, <2>1 DEF Quiet, OthersSame, Numbered
<1>4. ASSUME NEW r \in Requests, Writes(r), ~Fill(r)
      PROVE  Numbered'
  <2>1. CASE Truncate(r)
    BY Zenon, <1>2, <2>1, TruncateEffect DEF OthersSame, Numbered
  <2>2. CASE RemoveOut(r)
    BY Zenon, <1>2, <2>2, RemoveEffect DEF OthersSame, Numbered
  <2>3. CASE Part(r)
    BY Zenon, <1>2, <2>3, PartEffect DEF Numbered
  <2>4. CASE CallFails(r)
    BY Zenon, <1>2, <2>4, CallFailsEffect DEF OthersSame, Numbered
  <2>5. CASE FillFails(r)
    BY Zenon, <1>2, <2>5, FillFailsEffect DEF OthersSame, Numbered
  <2>6. QED
    BY Zenon, <1>4, <2>1, <2>2, <2>3, <2>4, <2>5 DEF Writes
<1>5. CASE Restart
  BY Zenon, <1>2, <1>5, RestartEffect DEF Replies
<1>6. CASE UNCHANGED vars
  BY Zenon, <1>2, <1>6 DEF vars, reqVars, ghosts, Numbered
<1>7. QED
  BY Zenon, <1>0, <1>1, <1>3, <1>4, <1>5, <1>6, StepShape DEF Writes

LEMMA TypeNext == TypeInv /\ Numbered /\ [Next]_vars => TypeInv'
<1> SUFFICES ASSUME TypeInv, Numbered, [Next]_vars PROVE TypeInv'
  BY Zenon
<1>0. TypeOK /\ LocalsSet
  BY Zenon DEF TypeInv
(* What is left when the locals have their types. *)
<1> DEFINE Shared == /\ disk \in [Keys -> DiskFile]
                     /\ dirs \subseteq Namespaces \cup {Keys}
                     /\ rev \in Nat /\ uids \in Nat /\ starts \in 1..MaxStarts
                     /\ written \subseteq Write /\ writes \in Nat
                     /\ current \in [Keys -> 0..writes]
                     /\ cut \subseteq Keys
                     /\ overlap \in BOOLEAN
           Mutex == \A r \in Requests : pc[r] \in {"fill", "visit"} <=> mu = r
<1>1. Shared /\ Mutex /\ Nil \notin Requests
  BY Zenon, <1>0, DiskAssumption DEF TypeOK
<1>2. LocalsTyped' /\ LocalsSet' /\ Shared' /\ Mutex' => TypeInv'
  BY Zenon DEF TypeInv, TypeOK, LocalsTyped
<1> HIDE DEF Shared, Mutex
<1>3. ASSUME NEW r \in Requests, OthersSame(r),
             pc'[r] \in Holding => arg'[r] \in Arg /\ out'[r] \in versionedData
      PROVE  LocalsSet'
  BY Zenon, <1>0, <1>3 DEF LocalsSet, OthersSame
<1>4. ASSUME NEW r \in Requests, Quiet(r)
      PROVE  TypeInv'
  <2>1. LocalsSet' /\ LocalsTyped'
    BY Zenon, <1>3, <1>4 DEF Quiet, Answers, Begins, Visits, Holding, Replies
  <2>2. Shared'
    BY Zenon, <1>1, <1>4 DEF Quiet, Overlaps, Shared
  <2>3. Mutex'
    BY Zenon, <1>1, <1>4 DEF Quiet, OthersSame, Answers, Begins, Visits, Mutex, Replies, Unlocked
  <2>4. QED
    BY Zenon, <1>2, <2>1, <2>2, <2>3
<1>5. ASSUME NEW r \in Requests, Truncate(r)
      PROVE  TypeInv'
  <2>1. LocalsSet' /\ LocalsTyped'
    BY Zenon, <1>3, <1>5, TruncateEffect DEF Holding
  <2>2. Shared'
    BY <1>1, <1>5, TruncateEffect, EmptyType DEF Shared, DiskFile
  <2>3. Mutex'
    BY Zenon, <1>1, <1>5, TruncateEffect DEF Mutex, OthersSame
  <2>4. QED
    BY <1>2, <2>1, <2>2, <2>3
<1>6. ASSUME NEW r \in Requests, Fill(r)
      PROVE  TypeInv'
  <2>1. LocalsSet' /\ LocalsTyped'
    BY Zenon, <1>3, <1>6, FillEffect DEF Holding
  <2>2. Shared'
    <3>1. disk' \in [Keys -> DiskFile]
      BY ZenonT(40), <1>1, <1>6, FillEffect DEF Shared, DiskFile
    <3>2. written' \subseteq Write /\ writes' \in Nat /\ current' \in [Keys -> 0..writes']
      <4>1. /\ writes \in Nat /\ writes' = writes + 1 /\ written' = written \cup {WriteOf(r)}
            /\ WriteOf(r) \in Write /\ arg[r].key \in Keys
            /\ current' = [current EXCEPT ![arg[r].key] = writes + 1]
        BY Zenon, <1>6, FillEffect
      <4>2. current \in [Keys -> 0..writes] /\ written \subseteq Write
        BY Zenon, <1>1 DEF Shared
      <4>3. QED
        BY <4>1, <4>2
    <3>3. QED
      BY Zenon, <1>1, <1>6, <3>1, <3>2, FillEffect DEF Shared
  <2>3. Mutex'
    BY ZenonT(40), <1>1, <1>6, FillEffect DEF Mutex, OthersSame
  <2>4. QED
    BY <1>2, <2>1, <2>2, <2>3
<1>7. ASSUME NEW r \in Requests, RemoveOut(r)
      PROVE  TypeInv'
  <2>1. LocalsSet' /\ LocalsTyped'
    BY ZenonT(40), <1>3, <1>7, RemoveEffect DEF Holding
  <2>2. Shared'
    BY <1>1, <1>7, RemoveEffect DEF Shared, DiskFile
  <2>3. Mutex'
    BY Zenon, <1>1, <1>7, RemoveEffect DEF Mutex, OthersSame
  <2>4. QED
    BY <1>2, <2>1, <2>2, <2>3
<1>a. ASSUME NEW r \in Requests, Part(r)
      PROVE  TypeInv'
  <2>1. LocalsSet' /\ LocalsTyped'
    BY Zenon, <1>0, <1>a, PartEffect DEF LocalsSet, LocalsTyped, TypeOK
  <2>2. Shared'
    BY <1>1, <1>a, PartEffect DEF Shared, DiskFile
  <2>3. Mutex'
    BY Zenon, <1>1, <1>a, PartEffect DEF Mutex
  <2>4. QED
    BY <1>2, <2>1, <2>2, <2>3
<1>b. ASSUME NEW r \in Requests, CallFails(r)
      PROVE  TypeInv'
  <2>1. LocalsSet' /\ LocalsTyped'
    BY Zenon, <1>3, <1>b, CallFailsEffect DEF Holding
  <2>2. Shared'
    BY <1>1, <1>b, CallFailsEffect DEF Shared
  <2>3. Mutex'
    BY Zenon, <1>1, <1>b, CallFailsEffect DEF Mutex, OthersSame
  <2>4. QED
    BY <1>2, <2>1, <2>2, <2>3
<1>c. ASSUME NEW r \in Requests, FillFails(r)
      PROVE  TypeInv'
  <2>1. LocalsSet' /\ LocalsTyped'
    BY Zenon, <1>3, <1>c, FillFailsEffect DEF Holding
  <2>2. Shared'
    BY <1>1, <1>c, FillFailsEffect DEF Shared
  <2>3. Mutex'
    BY Zenon, <1>1, <1>c, FillFailsEffect DEF Mutex, OthersSame
  <2>4. QED
    BY <1>2, <2>1, <2>2, <2>3
<1>8. CASE Restart
  <2>1. LocalsSet' /\ LocalsTyped'
    BY Zenon, <1>8, RestartEffect DEF LocalsSet, Holding, Replies
  <2>2. Shared'
    BY <1>1, <1>8, RestartEffect DEF Shared
  <2>3. Mutex'
    BY Zenon, <1>1, <1>8, RestartEffect DEF Mutex, Replies
  <2>4. QED
    BY Zenon, <1>2, <2>1, <2>2, <2>3
<1>9. CASE UNCHANGED vars
  BY Zenon, <1>0, <1>9 DEF vars, fsVars, reqVars, ghosts, TypeInv, TypeOK, LocalsSet
<1>10. QED
  BY Zenon, <1>0, <1>4, <1>5, <1>6, <1>7, <1>a, <1>b, <1>c, <1>8, <1>9, StepShape DEF Writes

-----------------------------------------------------------------------------
(* Files of which a write was cut off, one step. *)

(* While the mutex is free nobody is in the middle of a Write. *)
LEMMA UnlockedNoFill ==
  ASSUME TypeOK, mu = Nil
  PROVE  \A r \in Requests : pc[r] \notin {"fill", "visit"}
BY Zenon, DiskAssumption DEF TypeOK

(* One request at a time is. *)
LEMMA OneFill ==
  ASSUME TypeOK, NEW r \in Requests, pc[r] = "fill"
  PROVE  \A q \in Requests : pc[q] = "fill" => q = r
<1>1. \A q \in Requests : pc[q] \in {"fill", "visit"} => mu = q
  BY Zenon DEF TypeOK
<1>2. QED
  BY Zenon, <1>1

(* A change of one file leaves the others as they were. *)
LEMMA CutElsewhere ==
  ASSUME TypeOK, NEW file \in DiskFile, NEW k \in Keys, disk' = [disk EXCEPT ![k] = file],
         NEW j \in Keys, j # k
  PROVE  CutOff(j)' <=> CutOff(j)
BY Zenon DEF TypeOK, CutOff

LEMMA CutNext == TypeInv /\ Numbered /\ VersionInv /\ CutInv /\ [Next]_vars => CutInv'
<1> SUFFICES ASSUME TypeInv, Numbered, VersionInv, CutInv, [Next]_vars PROVE CutInv'
  BY Zenon
<1>0. /\ TypeOK /\ disk \in [Keys -> DiskFile] /\ cut \subseteq Keys /\ rev \in Nat /\ rev >= 1
      /\ Empty \in DiskFile /\ Torn \in DiskFile
  <2>1. TypeOK /\ disk \in [Keys -> DiskFile] /\ cut \subseteq Keys /\ rev \in Nat /\ rev >= 1
    BY Zenon DEF TypeInv, TypeOK, VersionInv
  <2>2. QED
    BY Zenon, <2>1, EmptyType DEF DiskFile
<1> DEFINE Filling(r) == pc[r] = "fill" => CutOff(arg[r].key)
           Owed(k) == k \in cut \/ ~CutOff(k) \/ InHand(k, {"fill"})
           Seen(r) == pc[r] \in {"DecodeErr", "empty"} => cut # {}
<1>1. /\ \A r \in Requests : Filling(r) /\ Seen(r)
      /\ \A k \in Keys : Owed(k)
  BY Zenon DEF CutInv, CutOnlyByFailure
<1>2. ASSUME \A r \in Requests : Filling(r)' /\ Seen(r)', \A k \in Keys : Owed(k)'
      PROVE  CutInv'
  BY Zenon, <1>2 DEF CutInv, CutOnlyByFailure
(* A step of r that is not in the middle of a Write, and leaves the disk alone. *)
<1>3. ASSUME NEW r \in Requests, OthersSame(r), UNCHANGED <<disk, cut>>,
             pc[r] # "fill", pc'[r] # "fill", Seen(r)'
      PROVE  CutInv'
  <2>1. \A q \in Requests : Filling(q)' /\ Seen(q)'
    BY Zenon, <1>1, <1>3 DEF OthersSame, CutOff
  <2>2. \A k \in Keys : Owed(k)'
    BY Zenon, <1>1, <1>3 DEF OthersSame, CutOff, InHand
  <2>3. QED
    BY Zenon, <1>2, <2>1, <2>2
(* A step of r that changes the file it has in hand, while nobody else writes. *)
<1>4. ASSUME NEW r \in Requests, OthersSame(r), NEW k \in Keys, k = arg[r].key,
             NEW file \in DiskFile, disk' = [disk EXCEPT ![k] = file], UNCHANGED cut,
             \A q \in Requests : pc[q] = "fill" => q = r,
             Filling(r)', Owed(k)', pc'[r] \notin {"DecodeErr", "empty"}
      PROVE  CutInv'
  <2>1. \A q \in Requests : Filling(q)' /\ Seen(q)'
    BY Zenon, <1>1, <1>4 DEF OthersSame
  <2>2. ASSUME NEW j \in Keys, j # k
        PROVE  Owed(j)'
    <3>1. CutOff(j)' <=> CutOff(j)
      BY Zenon, <1>0, <1>4, <2>2, CutElsewhere
    <3>2. ~InHand(j, {"fill"})
      BY Zenon, <1>4, <2>2 DEF InHand
    <3>3. QED
      BY Zenon, <1>1, <1>4, <3>1, <3>2
  <2>3. QED
    BY Zenon, <1>2, <1>4, <2>1, <2>2
<1>5. ASSUME NEW r \in Requests, Quiet(r)
      PROVE  CutInv'
  <2>1. /\ UNCHANGED <<disk, cut>> /\ OthersSame(r) /\ pc[r] # "fill" /\ pc'[r] # "fill"
    BY Zenon, <1>5 DEF Quiet, Answers, Begins, Visits, Replies
  <2>2. ASSUME pc'[r] \in {"DecodeErr", "empty"}
        PROVE  cut # {}
    <3>1. PICK k \in Keys : CutOff(k) /\ mu = Nil
      BY Zenon, <1>5, <2>2 DEF Quiet, Answers, Begins, Visits, Unlocked
    <3>2. ~InHand(k, {"fill"})
      BY Zenon, <1>0, <3>1, UnlockedNoFill DEF InHand
    <3>3. QED
      BY Zenon, <1>1, <3>1, <3>2
  <2>3. QED
    BY Zenon, <1>3, <2>1, <2>2
<1>6. ASSUME NEW r \in Requests, Truncate(r)
      PROVE  CutInv'
  <2>1. /\ arg[r].key \in Keys /\ pc'[r] = "fill" /\ OthersSame(r)
        /\ UNCHANGED <<arg, cut>> /\ mu = Nil
        /\ disk' = [disk EXCEPT ![arg[r].key] = Empty]
    BY Zenon, <1>6, TruncateEffect
  <2>2. CutOff(arg[r].key)' /\ InHand(arg[r].key, {"fill"})'
    BY Zenon, <1>0, <2>1 DEF CutOff, InHand
  <2>3. \A q \in Requests : pc[q] # "fill"
    BY Zenon, <1>0, <2>1, UnlockedNoFill
  <2>4. QED
    BY Zenon, <1>0, <1>4, <2>1, <2>2, <2>3
<1>7. ASSUME NEW r \in Requests, Part(r)
      PROVE  CutInv'
  <2>1. /\ arg[r].key \in Keys /\ pc[r] = "fill" /\ OthersSame(r)
        /\ UNCHANGED <<pc, arg, cut>>
        /\ disk' = [disk EXCEPT ![arg[r].key] = Torn]
    BY Zenon, <1>7, PartEffect
  <2>2. CutOff(arg[r].key)' /\ InHand(arg[r].key, {"fill"})'
    BY Zenon, <1>0, <2>1 DEF CutOff, InHand
  <2>3. \A q \in Requests : pc[q] = "fill" => q = r
    BY Zenon, <1>0, <2>1, OneFill
  <2>4. QED
    BY Zenon, <1>0, <1>4, <2>1, <2>2, <2>3
<1>8. ASSUME NEW r \in Requests, Fill(r)
      PROVE  CutInv'
  <2> DEFINE new == [version |-> rev, data |-> out[r].data]
  <2>1. PICK k \in Keys, file \in versionedData : k = arg[r].key /\ file = new
    BY ZenonT(40), <1>8, FillEffect
  <2>2. /\ pc[r] = "fill" /\ pc'[r] \in {"remove", "notify", "IOErr"} /\ OthersSame(r)
        /\ disk' = [disk EXCEPT ![k] = file] /\ UNCHANGED cut
    BY ZenonT(40), <1>8, <2>1, FillEffect
  <2>3. file # Empty /\ file # Torn /\ file \in DiskFile
    <3>1. file.version = rev /\ rev # NoVersion
      BY <1>0, <2>1 DEF NoVersion
    <3>2. QED
      BY Zenon, <2>1, <3>1, EmptyType, DiskAssumption DEF DiskFile, File
  <2>4. ~CutOff(k)'
    BY Zenon, <1>0, <2>1, <2>2, <2>3 DEF CutOff
  <2>5. \A q \in Requests : pc[q] = "fill" => q = r
    BY Zenon, <1>0, <2>2, OneFill
  <2>6. QED
    BY Zenon, <1>4, <2>1, <2>2, <2>3, <2>4, <2>5
<1>9. ASSUME NEW r \in Requests, FillFails(r)
      PROVE  CutInv'
  <2>1. /\ arg[r].key \in Keys /\ pc[r] = "fill" /\ pc'[r] = "IOErr"
        /\ OthersSame(r) /\ UNCHANGED disk /\ cut' = cut \cup {arg[r].key}
    BY Zenon, <1>9, FillFailsEffect
  <2>2. \A q \in Requests : Filling(q)' /\ Seen(q)'
    BY Zenon, <1>1, <2>1 DEF OthersSame, CutOff
  <2>3. ASSUME NEW k \in Keys PROVE Owed(k)'
    <3>1. CASE k \in cut \/ ~CutOff(k)
      BY Zenon, <2>1, <3>1 DEF CutOff
    <3>2. CASE InHand(k, {"fill"})
      BY Zenon, <2>1, <3>2 DEF OthersSame, InHand
    <3>3. QED
      BY Zenon, <1>1, <3>1, <3>2
  <2>4. QED
    BY Zenon, <1>2, <2>2, <2>3
<1>10. ASSUME NEW r \in Requests, CallFails(r)
      PROVE  CutInv'
  BY Zenon, <1>3, <1>10, CallFailsEffect
<1>11. ASSUME NEW r \in Requests, RemoveOut(r)
      PROVE  CutInv'
  <2>1. PICK k \in Keys : k = arg[r].key
    BY Zenon, <1>11, RemoveEffect
  <2>2. /\ pc'[r] \in {"notify", "NotFound"} /\ OthersSame(r) /\ mu = Nil
        /\ disk' = [disk EXCEPT ![k] = ErrNotExist] /\ UNCHANGED cut
    BY Zenon, <1>11, <2>1, RemoveEffect
  <2>3. ErrNotExist # Empty /\ ErrNotExist # Torn /\ ErrNotExist \in DiskFile
    BY Zenon, EmptyType, DiskAssumption, ErrNotExistAssumption DEF DiskFile, File
  <2>4. ~CutOff(k)'
    BY Zenon, <1>0, <2>1, <2>2, <2>3 DEF CutOff
  <2>5. \A q \in Requests : pc[q] # "fill"
    BY Zenon, <1>0, <2>2, UnlockedNoFill
  <2>6. QED
    BY Zenon, <1>4, <2>1, <2>2, <2>3, <2>4, <2>5
<1>12. CASE Restart
  <2>1. /\ cut' = cut \cup {k \in Keys : InHand(k, {"fill"})} /\ UNCHANGED disk
        /\ \A r \in Requests :
             pc'[r] = "aborted" \/ (pc'[r] = pc[r] /\ pc[r] \in {"idle"} \cup Replies)
    BY Zenon, <1>12, RestartEffect
  <2>2. \A q \in Requests : Filling(q)' /\ Seen(q)'
    BY Zenon, <1>1, <2>1 DEF Replies
  <2>3. \A k \in Keys : Owed(k)'
    BY Zenon, <1>1, <2>1 DEF CutOff
  <2>4. QED
    BY Zenon, <1>2, <2>2, <2>3
<1>13. CASE UNCHANGED vars
  BY Zenon, <1>13 DEF vars, fsVars, reqVars, ghosts, CutInv, CutOnlyByFailure, CutOff, InHand
<1>14. QED
  BY Zenon, <1>0, <1>5, <1>6, <1>7, <1>8, <1>9, <1>10, <1>11, <1>12, <1>13, StepShape DEF Writes

-----------------------------------------------------------------------------
(* Versions, one step. *)

LEMMA VersionNext == TypeInv /\ Numbered /\ VersionInv /\ [Next]_vars => VersionInv'
<1> SUFFICES ASSUME TypeInv, Numbered, VersionInv, [Next]_vars PROVE VersionInv'
  OBVIOUS
<1>0. /\ TypeOK /\ rev \in Nat /\ starts \in Nat /\ starts >= 1
      /\ \A w \in written : w.version \in Nat /\ w.start \in Nat
  BY DiskAssumption DEF TypeInv, TypeOK, Write
<1>1. ASSUME UNCHANGED <<written, starts>>, rev' = rev + 1 \/ rev' = rev,
             rev' = rev => \A r \in Requests : pc'[r] = "fill" => pc[r] = "fill"
      PROVE  VersionInv'
  BY <1>0, <1>1 DEF VersionInv, VersionsPerStart
<1>2. ASSUME NEW r \in Requests, Quiet(r)
      PROVE  VersionInv'
  <2>1. pc'[r] # "fill"
    BY Zenon, <1>2 DEF Quiet, Answers, Begins, Visits, Replies
  <2>2. QED
    BY Zenon, <1>1, <1>2, <2>1 DEF Quiet, OthersSame
<1>3. ASSUME NEW r \in Requests, Truncate(r) \/ RemoveOut(r) \/ CallFails(r)
      PROVE  VersionInv'
  <2>1. rev' = rev + 1 /\ UNCHANGED <<written, starts>>
    BY Zenon, <1>3, TruncateEffect, RemoveEffect, CallFailsEffect
  <2>2. rev' # rev
    BY <1>0, <2>1
  <2>3. QED
    BY Zenon, <1>1, <2>1, <2>2
<1>4. ASSUME NEW r \in Requests, Fill(r)
      PROVE  VersionInv'
  <2>1. /\ pc[r] = "fill" /\ written' = written \cup {WriteOf(r)} /\ UNCHANGED <<rev, starts>>
        /\ mu' = Nil
    BY Zenon, <1>4, FillEffect
  <2>2. TypeOK'
    BY Zenon, TypeNext DEF TypeInv
  <2>3. \A q \in Requests : pc'[q] # "fill"
    BY Zenon, <2>1, <2>2, DiskAssumption DEF TypeOK
  <2>4. WriteOf(r).start = starts /\ WriteOf(r).version = rev
    BY Zenon DEF WriteOf
  <2>5. \A w \in written : w.start = starts => w.version < rev
    BY Zenon, <2>1 DEF VersionInv
  <2>6. VersionsPerStart'
    BY <1>0, <2>1, <2>4, <2>5 DEF VersionsPerStart, VersionInv
  <2>7. QED
    BY <1>0, <2>1, <2>3, <2>4, <2>5, <2>6 DEF VersionInv
<1>a. ASSUME NEW r \in Requests, Part(r) \/ FillFails(r)
      PROVE  VersionInv'
  <2>1. CASE Part(r)
    BY Zenon, <1>1, <2>1, PartEffect
  <2>2. CASE FillFails(r)
    BY Zenon, <1>1, <2>2, FillFailsEffect DEF OthersSame
  <2>3. QED
    BY Zenon, <1>a, <2>1, <2>2
<1>5. CASE Restart
  <2>1. starts' = starts + 1 /\ rev' = 1 /\ UNCHANGED written
    BY Zenon, <1>5, RestartEffect
  <2>2. QED
    BY <1>0, <2>1 DEF VersionInv, VersionsPerStart
<1>6. CASE UNCHANGED vars
  BY Zenon, <1>1, <1>6 DEF vars, fsVars, reqVars, ghosts
<1>7. QED
  BY Zenon, <1>0, <1>2, <1>3, <1>4, <1>a, <1>5, <1>6, StepShape DEF Writes

-----------------------------------------------------------------------------
(* What is on disk, one step. *)

LEMMA DiskNext ==
  TypeInv /\ Numbered /\ CutInv /\ VersionInv /\ DiskInv /\ [Next]_vars => DiskInv'
<1> SUFFICES ASSUME TypeInv, Numbered, CutInv, VersionInv, DiskInv, [Next]_vars,
                    NEW j \in Keys, Whole(j)'
             PROVE  HoldsCurrent(j)'
  BY Zenon DEF DiskInv
<1>0. /\ TypeOK /\ disk \in [Keys -> DiskFile] /\ starts \in Nat
      /\ current \in [Keys -> 0..writes]
  BY DiskAssumption DEF TypeInv, TypeOK
<1>1. ASSUME disk'[j] = disk[j], current'[j] = current[j], UNCHANGED starts,
             UNCHANGED written \/ \E w : w.key # j /\ written' = written \cup {w}
      PROVE  HoldsCurrent(j)'
  <2>1. HoldsCurrent(j)
    BY Zenon, <1>1 DEF DiskInv, Whole, Exists, CutOff
  <2>2. QED
    BY Zenon, <1>1, <2>1 DEF HoldsCurrent
<1>2. ASSUME NEW r \in Requests, Quiet(r)
      PROVE  HoldsCurrent(j)'
  BY Zenon, <1>1, <1>2 DEF Quiet
<1>3. ASSUME NEW r \in Requests, Truncate(r)
      PROVE  HoldsCurrent(j)'
  <2>1. /\ disk' = [disk EXCEPT ![arg[r].key] = Empty]
        /\ UNCHANGED <<written, current, starts>>
    BY Zenon, <1>3, TruncateEffect
  <2>2. j # arg[r].key
    BY Zenon, <1>0, <2>1 DEF Whole, Exists, CutOff
  <2>3. QED
    BY Zenon, <1>0, <1>1, <2>1, <2>2
<1>4. ASSUME NEW r \in Requests, Fill(r)
      PROVE  HoldsCurrent(j)'
  <2> DEFINE k == arg[r].key
             file == [version |-> rev, data |-> out[r].data]
             n == writes + 1
  <2>1. /\ k \in Keys /\ disk' = [disk EXCEPT ![k] = file] /\ UNCHANGED starts
        /\ written' = written \cup {WriteOf(r)} /\ current' = [current EXCEPT ![k] = n]
    BY ZenonT(40), <1>4, FillEffect
  <2>2. /\ WriteOf(r).n = n /\ WriteOf(r).key = k /\ WriteOf(r).start = starts
        /\ WriteOf(r).version = rev
    BY ZenonT(40) DEF WriteOf
  <2>3. CASE j = k
    <3>1. disk'[j].version = rev /\ current'[j] = n
      BY ZenonT(40), <1>0, <2>1, <2>3
    <3>2. QED
      BY ZenonT(40), <2>1, <2>2, <2>3, <3>1 DEF HoldsCurrent
  <2>4. CASE j # k
    <3>1. disk'[j] = disk[j] /\ current'[j] = current[j]
      BY Zenon, <1>0, <2>1, <2>4
    <3>2. QED
      BY Zenon, <1>1, <2>1, <2>2, <2>4, <3>1
  <2>5. QED
    BY Zenon, <2>3, <2>4
<1>5. ASSUME NEW r \in Requests, RemoveOut(r)
      PROVE  HoldsCurrent(j)'
  <2>1. /\ disk' = [disk EXCEPT ![arg[r].key] = ErrNotExist]
        /\ current' = [current EXCEPT ![arg[r].key] = 0]
        /\ UNCHANGED <<written, starts>>
    BY Zenon, <1>5, RemoveEffect
  <2>2. j # arg[r].key
    BY Zenon, <1>0, <2>1 DEF Whole, Exists, CutOff
  <2>3. QED
    BY Zenon, <1>0, <1>1, <2>1, <2>2
<1>a. ASSUME NEW r \in Requests, Part(r)
      PROVE  HoldsCurrent(j)'
  <2>1. /\ disk' = [disk EXCEPT ![arg[r].key] = Torn]
        /\ UNCHANGED <<written, current, starts>>
    BY Zenon, <1>a, PartEffect
  <2>2. j # arg[r].key
    BY Zenon, <1>0, <2>1 DEF Whole, CutOff
  <2>3. QED
    BY Zenon, <1>0, <1>1, <2>1, <2>2
<1>b. ASSUME NEW r \in Requests, FillFails(r)
      PROVE  HoldsCurrent(j)'
  <2>1. /\ pc[r] = "fill" /\ current' = [current EXCEPT ![arg[r].key] = 0]
        /\ UNCHANGED <<disk, written, starts>>
    BY Zenon, <1>b, FillFailsEffect
  <2>2. CutOff(arg[r].key)
    BY Zenon, <2>1 DEF CutInv
  <2>3. j # arg[r].key
    BY Zenon, <2>1, <2>2 DEF Whole, CutOff
  <2>4. QED
    BY Zenon, <1>0, <1>1, <2>1, <2>3
<1>c. ASSUME NEW r \in Requests, CallFails(r)
      PROVE  HoldsCurrent(j)'
  BY Zenon, <1>1, <1>c, CallFailsEffect
<1>6. CASE Restart
  <2>1. /\ starts' = starts + 1 /\ UNCHANGED <<disk, written>>
        /\ current' = [k \in Keys |-> IF CutOff(k) THEN 0 ELSE current[k]]
    BY Zenon, <1>6, RestartEffect
  <2>2. Whole(j) /\ current'[j] = current[j]
    BY Zenon, <2>1 DEF Whole, Exists, CutOff
  <2>3. \A v \in written : v.start # starts'
    BY <1>0, <2>1 DEF VersionInv, TypeOK, Write
  <2>4. HoldsCurrent(j)
    BY Zenon, <2>2 DEF DiskInv
  <2>5. QED
    BY Zenon, <2>1, <2>2, <2>3, <2>4 DEF HoldsCurrent
<1>7. CASE UNCHANGED vars
  BY Zenon, <1>1, <1>7 DEF vars, fsVars, ghosts
<1>8. QED
  BY Zenon, <1>0, <1>2, <1>3, <1>4, <1>5, <1>a, <1>b, <1>c, <1>6, <1>7, StepShape DEF Writes

-----------------------------------------------------------------------------
(* Updates while nothing overlaps, one step. *)

LEMMA OverlapStays ==
  ASSUME TypeInv, Numbered, [Next]_vars, ~overlap'
  PROVE  ~overlap
<1>1. overlap' = overlap => ~overlap
  OBVIOUS
<1>2. ASSUME NEW r \in Requests, Quiet(r)
      PROVE  ~overlap
  BY <1>2, Zenon DEF Quiet, Overlaps
<1>3. ASSUME NEW r \in Requests, Writes(r)
      PROVE  overlap' = overlap
  BY Zenon, <1>3 DEF Writes, Truncate, Part, Fill, FillFails, CallFails, RemoveOut
<1>4. Restart \/ UNCHANGED vars => overlap' = overlap
  BY Zenon, RestartEffect DEF vars
<1>5. QED
  BY <1>1, <1>2, <1>3, <1>4, StepShape, Zenon DEF TypeInv

LEMMA ReadNext ==
  TypeInv /\ Numbered /\ VersionInv /\ DiskInv /\ ReadInv /\ [Next]_vars => ReadInv'
<1> SUFFICES ASSUME TypeInv, Numbered, VersionInv, DiskInv, ReadInv, [Next]_vars, ~overlap'
             PROVE  Alone' /\ \A r \in Requests : FindsRead(r)'
  BY Zenon DEF ReadInv
<1>0. ~overlap
  BY Zenon, OverlapStays
<1>1. TypeOK /\ Alone /\ \A r \in Requests : FindsRead(r)
  BY <1>0, Zenon DEF ReadInv, TypeInv
<1>2. ASSUME NEW r \in Requests, Quiet(r)
      PROVE  Alone' /\ \A q \in Requests : FindsRead(q)'
  <2>1. /\ OthersSame(r) /\ UNCHANGED <<disk, written, current, starts>>
        /\ pc'[r] \in Writing => \A q \in Requests : pc[q] \notin Writing
    BY <1>2, Zenon DEF Quiet, Overlaps
  <2>2. Alone'
    BY Zenon, <1>1, <2>1 DEF Alone, OthersSame
  <2>3. ASSUME pc'[r] \in {"write", "fill"}, arg'[r].read # 0,
               NEW v \in written, v.n = arg'[r].read, v.start = starts
        PROVE  current[arg'[r].key] = arg'[r].read
    <3>1. arg'[r] \in Arg /\ HasRead(r)
      BY Zenon, <1>2, <2>3 DEF Quiet, Answers, Begins, Visits, Replies
    <3>2. v.key = arg'[r].key /\ Whole(v.key) /\ v.version >= 1 /\ v.version \in Nat
      BY ZenonT(40), <1>1, <2>3, <3>1 DEF HasRead, Numbered, VersionInv, TypeOK, Write
    <3>3. disk[v.key].version = v.version
      <4>1. PICK w \in written : /\ w.n = arg'[r].read
                                 /\ w.version # NoVersion => disk[w.key].version = w.version
        BY Zenon, <3>1 DEF HasRead
      <4>2. w = v
        BY Zenon, <2>3, <4>1 DEF Numbered
      <4>3. v.version # NoVersion
        BY <3>2 DEF NoVersion
      <4>4. QED
        BY Zenon, <4>1, <4>2, <4>3
    <3>4. PICK c \in written : /\ c.n = current[v.key] /\ c.version = disk[v.key].version
                               /\ c.start = starts
      <4>1. v.key \in Keys
        BY Zenon, <1>1 DEF TypeOK, Write
      <4>2. HoldsCurrent(v.key)
        BY Zenon, <3>2, <4>1 DEF DiskInv
      <4>3. QED
        BY Zenon, <2>3, <4>2 DEF HoldsCurrent
    <3>5. c = v
      BY Zenon, <2>3, <3>3, <3>4 DEF VersionInv, VersionsPerStart
    <3>6. QED
      BY Zenon, <2>3, <3>2, <3>4, <3>5
  <2>4. FindsRead(r)'
    BY Zenon, <2>1, <2>3 DEF FindsRead
  <2>5. QED
    BY ZenonT(40), <1>1, <2>1, <2>2, <2>4 DEF FindsRead, OthersSame
<1>3. ASSUME NEW r \in Requests, Truncate(r)
      PROVE  Alone' /\ \A q \in Requests : FindsRead(q)'
  <2>1. /\ OthersSame(r) /\ pc[r] = "write" /\ UNCHANGED <<arg, written, current, starts>>
    BY ZenonT(40), <1>3, TruncateEffect
  <2>2. QED
    BY Zenon, <1>1, <2>1 DEF Alone, FindsRead, OthersSame, Writing
<1>a. ASSUME NEW r \in Requests, Part(r)
      PROVE  Alone' /\ \A q \in Requests : FindsRead(q)'
  BY Zenon, <1>1, <1>a, PartEffect DEF Alone, FindsRead
<1>4. ASSUME NEW r \in Requests, Fill(r) \/ FillFails(r) \/ CallFails(r) \/ RemoveOut(r)
      PROVE  Alone' /\ \A q \in Requests : FindsRead(q)'
  <2>1. /\ OthersSame(r) /\ pc[r] \in Writing /\ pc'[r] \notin {"write", "fill"}
    <3>1. CASE Fill(r)
      BY ZenonT(40), <3>1, FillEffect DEF Writing
    <3>2. CASE RemoveOut(r)
      BY ZenonT(40), <3>2, RemoveEffect DEF Writing
    <3>3. CASE FillFails(r) \/ CallFails(r)
      BY Zenon, <3>3, FillFailsEffect, CallFailsEffect DEF Writing
    <3>4. QED
      BY Zenon, <1>4, <3>1, <3>2, <3>3
  <2>2. \A q \in Requests : q # r => pc'[q] \notin Writing
    BY Zenon, <1>1, <2>1 DEF Alone, OthersSame
  <2>3. QED
    BY Zenon, <2>1, <2>2 DEF Alone, FindsRead, Writing
<1>5. CASE Restart
  <2>1. \A r \in Requests : pc'[r] \in {"idle"} \cup Replies
    BY Zenon, <1>5, RestartEffect DEF Replies
  <2>2. QED
    BY Zenon, <2>1 DEF Alone, FindsRead, Writing, Replies
<1>6. CASE UNCHANGED vars
  BY Zenon, <1>1, <1>6 DEF vars, reqVars, ghosts, Alone, FindsRead
<1>7. QED
  BY Zenon, <1>1, <1>2, <1>3, <1>a, <1>4, <1>5, <1>6, StepShape DEF Writes

LEMMA NoLostNext ==
  ASSUME TypeInv, Numbered, ReadInv, NoLostUpdate, [Next]_vars
  PROVE  NoLostUpdate'
<1> SUFFICES ASSUME ~overlap', NEW w \in written', w.read # 0, NEW v \in written',
                    v.n = w.read, v.start = w.start
             PROVE  w.replaced = v.n
  BY Zenon DEF NoLostUpdate
<1>0. ~overlap
  BY Zenon, OverlapStays
<1>1. /\ TypeOK /\ \A r \in Requests : FindsRead(r)
      /\ \A x \in written : x.read # 0 =>
           \A y \in written : y.n = x.read /\ y.start = x.start => x.replaced = y.n
  BY <1>0, Zenon DEF ReadInv, TypeInv, NoLostUpdate
<1>2. CASE UNCHANGED written
  BY Zenon, <1>1, <1>2
<1>3. ASSUME NEW r \in Requests, Fill(r)
      PROVE  w.replaced = v.n
  <2>1. /\ pc[r] = "fill" /\ written' = written \cup {WriteOf(r)} /\ writes \in Nat
        /\ arg[r] \in Arg
    BY ZenonT(40), <1>3, FillEffect
  <2>2. /\ WriteOf(r).n = writes + 1 /\ WriteOf(r).start = starts /\ WriteOf(r).read = arg[r].read
        /\ WriteOf(r).replaced = current[arg[r].key]
    BY ZenonT(40) DEF WriteOf
  <2>3. arg[r].read <= writes /\ arg[r].read \in Nat
    BY Zenon, <2>1 DEF Numbered, Arg
  <2>4. \A x \in written : x.read <= writes /\ x.read \in Nat
    BY Zenon, <1>1 DEF Numbered, TypeOK, Write
  <2>5. v \in written
    <3>1. w.read <= writes /\ w.read \in Nat
      BY Zenon, <2>1, <2>2, <2>3, <2>4
    <3>2. WriteOf(r).n # w.read
      BY <2>1, <2>2, <3>1
    <3>3. QED
      BY Zenon, <2>1, <3>2
  <2>6. CASE w \in written
    BY Zenon, <1>1, <2>5, <2>6
  <2>7. CASE w = WriteOf(r)
    BY Zenon, <1>1, <2>1, <2>2, <2>5, <2>7 DEF FindsRead
  <2>8. QED
    BY Zenon, <2>1, <2>6, <2>7
<1>4. ASSUME NEW r \in Requests, Writes(r), ~Fill(r)
      PROVE  UNCHANGED written
  BY Zenon, <1>4 DEF Writes, Truncate, Part, FillFails, CallFails, RemoveOut, ghosts
<1>5. QED
  BY Zenon, <1>1, <1>2, <1>3, <1>4, StepShape, RestartEffect DEF Quiet, vars, ghosts

-----------------------------------------------------------------------------
LEMMA DiskRESTInit == Init => DiskRESTInv
<1> SUFFICES ASSUME Init PROVE DiskRESTInv
  BY Zenon
<1>1. writes = 0 /\ written = {}
  BY Zenon DEF Init
<1>2. /\ \A r \in Requests : pc[r] = "idle"
      /\ \A k \in Keys : disk[k] = ErrNotExist
      /\ cut = {} /\ rev = 1 /\ mu = Nil
  BY Zenon DEF Init, NewRealFS
<1>3. ErrNotExist # Torn /\ Nil \notin Requests
  BY Zenon, DiskAssumption DEF File
<1>4. TypeInv
  <2>1. disk \in [Keys -> DiskFile] /\ dirs \subseteq Namespaces \cup {Keys}
    BY Zenon DEF Init, DiskFile
  <2>2. rev \in Nat /\ uids \in Nat /\ starts \in 1..MaxStarts
    BY <1>2, DiskAssumption DEF Init, NoUID
  <2>3. /\ pc \in [Requests -> {"idle"} \cup Writing \cup Replies]
        /\ arg \in [Requests -> Arg \cup {Nil}]
        /\ out \in [Requests -> versionedData \cup {Nil}]
    BY Zenon DEF Init
  <2>4. current \in [Keys -> 0..writes] /\ overlap \in BOOLEAN
    <3>1. current = [k \in Keys |-> 0] /\ overlap = FALSE
      BY Zenon DEF Init
    <3>2. 0 \in 0..writes
      BY <1>1
    <3>3. QED
      BY Zenon, <3>1, <3>2
  <2>5. \A r \in Requests : pc[r] \in {"fill", "visit"} <=> mu = r
    BY Zenon, <1>2, <1>3
  <2>6. QED
    BY Zenon, <1>1, <1>2, <2>1, <2>2, <2>3, <2>4, <2>5 DEF TypeInv, TypeOK, LocalsSet, Holding
<1>5. Numbered /\ VersionInv
  BY <1>1, <1>2 DEF Numbered, VersionInv, VersionsPerStart
<1>a. CutInv
  <2>1. \A k \in Keys : ~CutOff(k)
    BY Zenon, <1>2, <1>3, EmptyType, ErrNotExistAssumption DEF CutOff
  <2>2. QED
    BY Zenon, <1>2, <2>1 DEF CutInv, CutOnlyByFailure
<1>6. DiskInv /\ ReadInv /\ NoLostUpdate
  BY Zenon, <1>1, <1>2 DEF DiskInv, Whole, Exists, ReadInv, Alone, FindsRead, Writing, NoLostUpdate
<1>7. QED
  BY Zenon, <1>4, <1>5, <1>a, <1>6 DEF DiskRESTInv

LEMMA DiskRESTNext == DiskRESTInv /\ [Next]_vars => DiskRESTInv'
BY Zenon, TypeNext, NumberedNext, CutNext, VersionNext, DiskNext, ReadNext, NoLostNext DEF DiskRESTInv

LEMMA DiskRESTCorrect == Spec => []DiskRESTInv
BY DiskRESTInit, DiskRESTNext, PTL DEF Spec

(* Every variable keeps its type, and between two steps the mutex of RealFS is held
   exactly by a Write that has truncated its file or a DeleteCollection in its walk. *)
THEOREM TypeCorrect == Spec => []TypeOK
<1>1. DiskRESTInv => TypeOK
  BY Zenon DEF DiskRESTInv, TypeInv
<1>2. QED
  BY <1>1, DiskRESTCorrect, PTL

(* Write truncates and fills under the mutex that every reader takes: a file is found
   empty or cut short, and a request fails to decode one or gets the object of an empty
   one, only after a crash or an error of the operating system has cut off a write. *)
THEOREM CutByFailure == Spec => []CutOnlyByFailure
<1>1. DiskRESTInv => CutOnlyByFailure
  BY Zenon DEF DiskRESTInv, CutInv
<1>2. QED
  BY <1>1, DiskRESTCorrect, PTL

(* incrementRev runs in every Write and every Remove: between two starts of the server
   no version is given to two writes. *)
THEOREM VersionsUnique == Spec => []VersionsPerStart
<1>1. DiskRESTInv => VersionsPerStart
  BY Zenon DEF DiskRESTInv, VersionInv
<1>2. QED
  BY <1>1, DiskRESTCorrect, PTL

(* The comparison of versions in Update, before a Write that compares nothing, is
   enough as long as no two requests that write overlap: an update of a version that
   was read since the last start replaces just the write that was read. *)
THEOREM UpdatesKept == Spec => []NoLostUpdate
<1>1. DiskRESTInv => NoLostUpdate
  BY Zenon DEF DiskRESTInv
<1>2. QED
  BY <1>1, DiskRESTCorrect, PTL

(* A request that is somewhere else, or has another file in hand, after the step. *)
LEMMA NotInHand ==
  ASSUME NEW r \in Requests, OthersSame(r), NEW k \in Keys, NEW labels, ~InHand(k, labels),
         pc'[r] \in labels => arg'[r].key # k
  PROVE  ~InHand(k, labels)'
BY Zenon DEF InHand, OthersSame

(* No request repairs what a write that was cut off has left: a part of an object stays
   for good, however often the server is started again, and an empty file stays until
   it is removed. *)
THEOREM CutStays == Spec => CutFilesStay
<1> DEFINE Kept(k) == /\ Stuck(k) => Stuck(k)'
                      /\ Blank(k) => Blank(k)' \/ ~Exists(k)'
           Stops == {"write", "fill", "remove"}
           Writers == {"write", "fill"}
<1>1. ASSUME DiskRESTInv, [Next]_vars, NEW k \in Keys
      PROVE  Kept(k)
  <2>0. TypeInv /\ TypeOK /\ Numbered /\ disk \in [Keys -> DiskFile]
    BY Zenon, <1>1 DEF DiskRESTInv, TypeInv, TypeOK
  <2>1. ASSUME disk'[k] = disk[k],
               disk[k] = Torn /\ ~InHand(k, Stops) => ~InHand(k, Stops)',
               disk[k] = Empty /\ ~InHand(k, Writers) => ~InHand(k, Writers)'
        PROVE  Kept(k)
    BY Zenon, <2>1 DEF Stuck, Blank
  (* A step that ends the Write or the Remove, or changes another file. *)
  <2>2. ASSUME NEW r \in Requests, OthersSame(r), disk'[k] = disk[k],
               pc'[r] \in Stops => pc[r] \in Writers /\ arg'[r].key = arg[r].key
        PROVE  Kept(k)
    <3>1. ~InHand(k, Stops) => ~InHand(k, Stops)'
      BY Zenon, <2>2 DEF InHand, OthersSame
    <3>2. ~InHand(k, Writers) => ~InHand(k, Writers)'
      BY Zenon, <2>2 DEF InHand, OthersSame
    <3>3. QED
      BY Zenon, <2>1, <2>2, <3>1, <3>2
  <2>3. ASSUME NEW r \in Requests, pc[r] \in Writers, arg[r].key = k
        PROVE  Kept(k)
    BY Zenon, <2>3 DEF Stuck, Blank, InHand
  <2>4. ASSUME NEW r \in Requests, Quiet(r)
        PROVE  Kept(k)
    <3>1. /\ UNCHANGED disk /\ OthersSame(r)
          /\ pc'[r] \in Stops => disk[arg'[r].key] # Torn
          /\ pc'[r] \in Writers => ~CutOff(arg'[r].key)
      BY Zenon, <2>4 DEF Quiet, Answers, Begins, Visits, Replies
    <3>2. disk[k] = Torn /\ ~InHand(k, Stops) => ~InHand(k, Stops)'
      BY Zenon, <3>1, NotInHand
    <3>3. disk[k] = Empty /\ ~InHand(k, Writers) => ~InHand(k, Writers)'
      BY Zenon, <3>1, NotInHand DEF CutOff
    <3>4. QED
      BY Zenon, <2>1, <3>1, <3>2, <3>3
  <2>5. ASSUME NEW r \in Requests, Truncate(r)
        PROVE  Kept(k)
    BY Zenon, <2>0, <2>2, <2>3, <2>5, TruncateEffect
  <2>6. ASSUME NEW r \in Requests, Part(r)
        PROVE  Kept(k)
    BY Zenon, <2>0, <2>2, <2>3, <2>6, PartEffect
  <2>7. ASSUME NEW r \in Requests, Fill(r)
        PROVE  Kept(k)
    BY ZenonT(40), <2>0, <2>2, <2>3, <2>7, FillEffect
  <2>8. ASSUME NEW r \in Requests, FillFails(r) \/ CallFails(r)
        PROVE  Kept(k)
    BY Zenon, <2>0, <2>2, <2>8, FillFailsEffect, CallFailsEffect
  <2>9. ASSUME NEW r \in Requests, RemoveOut(r)
        PROVE  Kept(k)
    <3>1. /\ pc[r] = "remove" /\ pc'[r] \in {"notify", "NotFound"} /\ OthersSame(r)
          /\ disk' = [disk EXCEPT ![arg[r].key] = ErrNotExist]
      BY Zenon, <2>0, <2>9, RemoveEffect
    <3>2. CASE arg[r].key = k
      <4>1. ~Stuck(k)
        BY Zenon, <3>1, <3>2 DEF Stuck, InHand
      <4>2. ~Exists(k)'
        BY Zenon, <2>0, <3>1, <3>2 DEF Exists
      <4>3. QED
        BY Zenon, <4>1, <4>2
    <3>3. CASE arg[r].key # k
      BY Zenon, <2>0, <2>2, <3>1, <3>3
    <3>4. QED
      BY Zenon, <3>2, <3>3
  <2>10. CASE Restart
    <3>1. UNCHANGED disk /\ \A r \in Requests : pc'[r] \notin Stops \cup Writers
      BY Zenon, <2>0, <2>10, RestartEffect DEF Replies
    <3>2. QED
      BY Zenon, <2>1, <3>1 DEF InHand
  <2>11. CASE UNCHANGED vars
    BY Zenon, <2>1, <2>11 DEF vars, fsVars, reqVars, InHand
  <2>12. QED
    BY Zenon, <1>1, <2>0, <2>4, <2>5, <2>6, <2>7, <2>8, <2>9, <2>10, <2>11, StepShape DEF Writes
<1>2. DiskRESTInv /\ [Next]_vars => [\A k \in Keys : Kept(k)]_vars
  BY Zenon, <1>1
<1>3. QED
  BY <1>2, DiskRESTCorrect, PTL DEF Spec, CutFilesStay
=============================================================================
