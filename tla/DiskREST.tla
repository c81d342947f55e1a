------------------------------ MODULE DiskREST ------------------------------
(***************************************************************************)
(* The REST handlers of filepathREST over RealFS, and a server that may    *)
(* crash and start again on the same directory.  The handlers are those of *)
(* FilepathREST; the file system under them makes no comparison and never  *)
(* asks for a retry.                                                       *)
(***************************************************************************)
EXTENDS RealFS

CONSTANTS
  Drafts,         \* bodies of Create requests
  Changes,        \* contents of Update requests
  Selectors,      \* label selectors of List and DeleteCollection: sets of specs
  MaxStarts       \* how often the server is started

ASSUME DiskAssumption ==
  /\ Drafts \subseteq Draft
  /\ Changes \subseteq Change
  /\ Selectors \subseteq SUBSET Specs
  /\ Namespaces \subseteq SUBSET Keys
  /\ MaxStarts \in Nat \ {0}
  /\ Nil \notin Requests
  /\ Torn \notin File
  /\ Zero \in Draft /\ Zero.finalizers = {}

VARIABLES
  uids,      \* the last UID given out
  pc,        \* where each request is; its reply when it has been answered
  arg,       \* what a request was called with
  out,       \* the object it is about to write, remove or announce
  starts,    \* how often the server was started
  written,   \* history variable: the writes that were completed
  writes,    \* history variable: how many they are
  current,   \* history variable: the number of the write on disk, 0 for none
  cut,       \* history variable: files of which a write was cut off
  overlap    \* history variable: two requests that write have overlapped

reqVars == <<uids, pc, arg, out>>
ghosts == <<starts, written, writes, current, cut>>
vars == <<fsVars, reqVars, ghosts, overlap>>

Arg == [key : Keys, via : {"create", "update", "delete"}, change : Change \cup {Nil},
        read : Nat]

(* "empty" is an answer with the object of an empty file. *)
Replies == {"ok", "empty", "NotFound", "AlreadyExists", "Conflict", "Invalid",
            "NotObject", "DecodeErr", "WalkErr", "IOErr", "aborted"}

(* A request that has begun to write, up to its answer. *)
Writing == {"write", "fill", "remove", "notify", "visit"}

Init ==
  /\ NewRealFS
  /\ disk = [k \in Keys |-> ErrNotExist]
  /\ dirs = {Keys}
  /\ uids = NoUID
  /\ pc = [r \in Requests |-> "idle"]
  /\ arg = [r \in Requests |-> Nil]
  /\ out = [r \in Requests |-> Nil]
  /\ starts = 1
  /\ written = {} /\ writes = 0
  /\ current = [k \in Keys |-> 0]
  /\ cut = {}
  /\ overlap = FALSE

-----------------------------------------------------------------------------
Return(r, reply) ==
  /\ pc' = [pc EXCEPT ![r] = reply]
  /\ arg' = [arg EXCEPT ![r] = Nil]
  /\ out' = [out EXCEPT ![r] = Nil]

Goto(r, label, a, o) ==
  /\ pc' = [pc EXCEPT ![r] = label]
  /\ arg' = [arg EXCEPT ![r] = a]
  /\ out' = [out EXCEPT ![r] = o]

Start(r) == pc[r] = "idle" /\ Unlocked

StartWriting(r) ==
  /\ Start(r)
  /\ overlap' = (overlap \/ \E q \in Requests : pc[q] \in Writing)

(* A request at one of these points has the file k in hand. *)
InHand(k, labels) == \E r \in Requests : pc[r] \in labels /\ arg[r].key = k

-----------------------------------------------------------------------------
(* A faulty variant: a file that does not decode counts as missing. *)
CreateUnlessReadable(r, k, draft) ==
  /\ StartWriting(r)
  /\ ~Readable(k)
  /\ uids' = uids + 1
  /\ EnsureDir(k)
  /\ Goto(r, "write", [key |-> k, via |-> "create", change |-> Nil, read |-> 0],
          [version |-> NoVersion, data |-> FillObjectMetaSystemFields(draft, uids + 1)])
  /\ UNCHANGED <<disk, rev, mu, ghosts>>

(* Create, up to the check that the file does not exist. *)
Create(r, k, draft) ==
  /\ StartWriting(r)
  /\ uids' = uids + 1
  /\ EnsureDir(k)
  /\ \/ Exists(k) /\ Return(r, "AlreadyExists")
     \/ /\ ~Exists(k)
        /\ Goto(r, "write", [key |-> k, via |-> "create", change |-> Nil, read |-> 0],
                [version |-> NoVersion,
                 data |-> FillObjectMetaSystemFields(draft, uids + 1)])
  /\ UNCHANGED <<disk, rev, mu, ghosts>>

(* A faulty variant: the version that the request names is not compared. *)
UpdateAnyVersion(r, k, change, w) ==
  /\ StartWriting(r)
  /\ Readable(k) /\ disk[k] # Empty
  /\ EnsureDir(k)
  /\ LET input == disk[k]
     IN  Goto(r, "write", [key |-> k, via |-> "update", change |-> change, read |-> w.n],
              [version |-> input.version,
               data    |-> BeforeUpdate(change.sub, UpdatedObject(change, 0, input).data,
                                        input.data)])
  /\ UNCHANGED <<disk, rev, mu, uids, ghosts>>

(* Update: Get and the closure, up to the Write.  Its client has read the write
   w, and names its version.  The object of an empty file has no version, and an
   update without one is invalid. *)
Update(r, k, change, w) ==
  LET input  == disk[k]
      asked  == UpdatedObject(change, w.version, input)
      output == BeforeUpdate(change.sub, asked.data, input.data)
      a == [key |-> k, via |-> "update", change |-> change, read |-> w.n]
  IN  /\ StartWriting(r)
      /\ \/ input = Torn /\ Return(r, "DecodeErr") /\ UNCHANGED dirs
         \/ input = ErrNotExist /\ ~change.force /\ Return(r, "NotFound") /\ UNCHANGED dirs
         \/ /\ input = ErrNotExist /\ change.force
            /\ EnsureDir(k)
            /\ Return(r, IF asked.version # NoVersion THEN "Conflict" ELSE "NotObject")
         \/ /\ Readable(k)
            /\ EnsureDir(k)
            /\ \/ asked.version # input.version /\ Return(r, "Conflict")
               \/ /\ asked.version = input.version
                  /\ \/ asked.version = NoVersion
                     \/ ~ValidateObjectMetaAccessorUpdate(output, input.data)
                  /\ Return(r, "Invalid")
               \/ /\ asked.version = input.version
                  /\ asked.version # NoVersion
                  /\ ValidateObjectMetaAccessorUpdate(output, input.data)
                  /\ Goto(r, "write", a, [version |-> input.version, data |-> output])
      /\ UNCHANGED <<disk, rev, mu, uids, ghosts>>

(* Delete, up to the Write of the deletion timestamp or the Remove. *)
Delete(r, k) ==
  LET oldObj == disk[k]
      a == [key |-> k, via |-> "delete", change |-> Nil, read |-> 0]
  IN  /\ StartWriting(r)
      /\ \/ oldObj = Torn /\ Return(r, "DecodeErr")
         \/ oldObj = ErrNotExist /\ Return(r, "NotFound")
         \/ /\ Readable(k)
            /\ oldObj.data.finalizers # {}
            /\ Goto(r, "write", a, [oldObj EXCEPT !.data.deleting = TRUE])
         \/ /\ Readable(k)
            /\ oldObj.data.finalizers = {}
            /\ Goto(r, "remove", a, oldObj)
      /\ UNCHANGED <<fsVars, uids, ghosts>>

-----------------------------------------------------------------------------
(* fs.Write of the object in hand: WriteFile empties the file, writes a part of the
   object and then all of it. *)
Truncate(r) ==
  /\ pc[r] = "write"
  /\ WriteTruncate(r, arg[r].key)
  /\ pc' = [pc EXCEPT ![r] = "fill"]
  /\ UNCHANGED <<uids, arg, out, ghosts, overlap>>

Part(r) ==
  /\ pc[r] = "fill"
  /\ WritePart(r, arg[r].key)
  /\ UNCHANGED <<reqVars, ghosts, overlap>>

(* The file is complete; even so WriteFile may fail to close it. *)
Fill(r) ==
  LET k == arg[r].key
      n == writes + 1
      removes == arg[r].via = "update" /\ Drained(out[r].data)
  IN  /\ pc[r] = "fill"
      /\ WriteFill(r, k, out[r].data)
      /\ \/ Goto(r, IF removes THEN "remove" ELSE "notify", arg[r], disk'[k])
         \/ Return(r, "IOErr")
      /\ written' = written \cup
                      {[n |-> n, key |-> k, start |-> starts, version |-> rev,
                        data |-> out[r].data, read |-> arg[r].read,
                        replaced |-> current[k]]}
      /\ writes' = n
      /\ current' = [current EXCEPT ![k] = n]
      /\ UNCHANGED <<uids, starts, cut, overlap>>

(* WriteFile fails before the file is complete. *)
FillFails(r) ==
  /\ pc[r] = "fill"
  /\ WriteStop(r)
  /\ Return(r, "IOErr")
  /\ current' = [current EXCEPT ![arg[r].key] = 0]
  /\ cut' = cut \cup {arg[r].key}
  /\ UNCHANGED <<uids, starts, written, writes, overlap>>

(* fs.Write or fs.Remove fails and has left the file alone. *)
CallFails(r) ==
  /\ pc[r] \in {"write", "remove"}
  /\ Refused
  /\ Return(r, "IOErr")
  /\ UNCHANGED <<uids, ghosts, overlap>>

(* fs.Remove by Update or Delete; the revision grows even if it fails. *)
RemoveOut(r) ==
  LET k == arg[r].key
  IN  /\ pc[r] = "remove"
      /\ Remove(k)
      /\ \/ Exists(k) /\ Goto(r, "notify", arg[r], out[r])
         \/ ~Exists(k) /\ Return(r, "NotFound")
      /\ current' = [current EXCEPT ![k] = 0]
      /\ UNCHANGED <<uids, starts, written, writes, cut, overlap>>

(* notifyWatchers, whose work is in WatchSet, and the answer. *)
Notify(r) ==
  /\ pc[r] = "notify"
  /\ Return(r, "ok")
  /\ UNCHANGED <<fsVars, uids, ghosts, overlap>>

-----------------------------------------------------------------------------
Get(r, k) ==
  /\ Start(r)
  /\ \/ disk[k] = Torn /\ Return(r, "DecodeErr")
     \/ disk[k] = ErrNotExist /\ Return(r, "NotFound")
     \/ Readable(k) /\ Return(r, IF disk[k] = Empty THEN "empty" ELSE "ok")
  /\ UNCHANGED <<fsVars, uids, ghosts, overlap>>

(* A faulty variant: the walk does not take the mutex. *)
ListUnlocked(r, dir) ==
  /\ pc[r] = "idle"
  /\ \/ WalkFails(dir) /\ Return(r, IF dir \in dirs THEN "DecodeErr" ELSE "WalkErr")
     \/ /\ ~WalkFails(dir)
        /\ Return(r, IF \E k \in dir : disk[k] = Empty THEN "empty" ELSE "ok")
  /\ UNCHANGED <<fsVars, uids, ghosts, overlap>>

List(r, dir) ==
  /\ Start(r)
  /\ \/ WalkFails(dir) /\ Return(r, IF dir \in dirs THEN "DecodeErr" ELSE "WalkErr")
     \/ /\ ~WalkFails(dir)
        /\ Return(r, IF \E k \in dir : disk[k] = Empty THEN "empty" ELSE "ok")
  /\ UNCHANGED <<fsVars, uids, ghosts, overlap>>

(* DeleteCollection: at the first file that matches the visitor calls Remove,
   which waits for the mutex that VisitDir holds.  No step leads on from there. *)
DeleteCollection(r, dir, selector) ==
  LET matching == {k \in dir : Readable(k) /\ disk[k].data.spec \in selector}
  IN  /\ StartWriting(r)
      /\ \/ /\ dir \in dirs
            /\ matching # {}
            /\ mu' = r
            /\ pc' = [pc EXCEPT ![r] = "visit"]
            /\ UNCHANGED <<arg, out>>
         \/ /\ WalkFails(dir)
            /\ Return(r, IF dir \in dirs THEN "DecodeErr" ELSE "WalkErr")
            /\ UNCHANGED mu
         \/ ~WalkFails(dir) /\ matching = {} /\ Return(r, "ok") /\ UNCHANGED mu
      /\ UNCHANGED <<disk, dirs, rev, uids, ghosts>>

(* A request is turned down by validation or admission, its context is done, or
   the operating system does not let it read a file or make a directory. *)
Refuse(r) ==
  /\ pc[r] = "idle"
  /\ Return(r, "Invalid")
  /\ UNCHANGED <<fsVars, uids, ghosts, overlap>>

-----------------------------------------------------------------------------
(* The server goes down, in the middle of whatever it does, and starts again
   with NewRealFS on the same directory. *)
Restart ==
  /\ starts < MaxStarts
  /\ starts' = starts + 1
  /\ rev' = 1
  /\ mu' = Nil
  /\ pc' = [r \in Requests |-> IF pc[r] \in {"idle"} \cup Replies THEN pc[r] ELSE "aborted"]
  /\ arg' = [r \in Requests |-> Nil]
  /\ out' = [r \in Requests |-> Nil]
  /\ current' = [k \in Keys |-> IF CutOff(k) THEN 0 ELSE current[k]]
  /\ cut' = cut \cup {k \in Keys : InHand(k, {"fill"})}
  /\ UNCHANGED <<disk, dirs, uids, written, writes, overlap>>

(* A client that has read nothing names no version. *)
Nothing == [n |-> 0, version |-> NoVersion]

Begin(r) ==
  \/ \E k \in Keys, d \in Drafts : Create(r, k, d)
  \/ \E k \in Keys, c \in Changes : \E w \in {Nothing} \cup {v \in written : v.key = k} :
       Update(r, k, c, w)
  \/ \E k \in Keys : Delete(r, k) \/ Get(r, k)
  \/ \E dir \in Namespaces \cup {Keys} : List(r, dir)
  \/ \E dir \in Namespaces \cup {Keys}, sel \in Selectors : DeleteCollection(r, dir, sel)
  \/ Refuse(r)

Proceed(r) ==
  \/ Truncate(r)
  \/ Part(r)
  \/ Fill(r)
  \/ FillFails(r)
  \/ CallFails(r)
  \/ RemoveOut(r)
  \/ Notify(r)

Answered ==
  /\ \A r \in Requests : pc[r] \in Replies
  /\ UNCHANGED vars

Next == (\E r \in Requests : Begin(r) \/ Proceed(r)) \/ Restart \/ Answered

(* A request that has begun goes on: Go schedules its goroutine, and its mutex
   starves nobody. *)
Fairness == \A r \in Requests : WF_vars(Proceed(r))

Spec == Init /\ [][Next]_vars

FairSpec == Spec /\ Fairness

-----------------------------------------------------------------------------
Write == [n : Nat, key : Keys, start : Nat, version : Nat, data : Object, read : Nat,
          replaced : Nat]

(* Every variable has its type, and the mutex is held across steps only by a
   Write or a DeleteCollection. *)
TypeOK ==
  /\ disk \in [Keys -> DiskFile]
  /\ dirs \subseteq Namespaces \cup {Keys}
  /\ rev \in Nat /\ uids \in Nat /\ starts \in 1..MaxStarts
  /\ pc \in [Requests -> {"idle"} \cup Writing \cup Replies]
  /\ arg \in [Requests -> Arg \cup {Nil}]
  /\ out \in [Requests -> versionedData \cup {Nil}]
  /\ \A r \in Requests : pc[r] \in {"fill", "visit"} <=> mu = r
  /\ written \subseteq Write /\ writes \in Nat
  /\ current \in [Keys -> 0..writes]
  /\ cut \subseteq Keys
  /\ overlap \in BOOLEAN

(* Nobody sees a file half written: a file is empty or cut short only while its
   writer holds the mutex, or because a crash or an error of the operating system
   has cut off a write of it; and until that has happened no request fails to
   decode a file, or is answered with the object of an empty one. *)
CutOnlyByFailure ==
  /\ \A k \in Keys \ cut : CutOff(k) => InHand(k, {"fill"})
  /\ cut = {} => \A r \in Requests : pc[r] \notin {"DecodeErr", "empty"}

(* What a write that was cut off has left can not be repaired by a request, nor by
   starting the server again.  A file with a part of an object stays for good: Create
   finds that it exists, Update and Delete fail to decode it.  An empty file is never
   written again: Update finds no version to compare; but Delete removes it.  Only a
   request that had read the file before the other's write was cut off escapes this. *)
Stuck(k) == disk[k] = Torn /\ ~InHand(k, {"write", "fill", "remove"})

Blank(k) == disk[k] = Empty /\ ~InHand(k, {"write", "fill"})

CutFilesStay ==
  [][\A k \in Keys :
       /\ Stuck(k) => Stuck(k)'
       /\ Blank(k) => Blank(k)' \/ ~Exists(k)']_vars

(* While no two requests that write have overlapped, which fs.go says is so where
   RealFS is used, no update is lost, though Write compares no versions: an update
   that names a version its client read since the server was started replaces
   exactly that write. *)
NoLostUpdate ==
  ~overlap =>
    \A w \in written : w.read # 0 =>
      \A v \in written : v.n = w.read /\ v.start = w.start => w.replaced = v.n

(* Until the server is started again no version is given out twice, whatever
   overlaps and fails: incrementRev is called by every Write and every Remove. *)
VersionsPerStart ==
  \A v, w \in written : v.start = w.start /\ v.version = w.version => v = w

(* Every request is answered, unless a DeleteCollection has taken the mutex for
   good: whatever else fails on its way, Write, Remove and Read release it. *)
RequestsAnswered ==
  \A r \in Requests :
    pc[r] \in Writing ~> pc[r] \in Replies \/ \E q \in Requests : pc[q] = "visit"

-----------------------------------------------------------------------------
(* What the interfaces say, and the code over RealFS does not keep. *)

(* A resourceVersion "can be used by clients to determine when objects have
   changed": two states of an object have different versions.  After a restart
   the counter gives out the same versions again. *)
VersionTellsChange ==
  \A v, w \in written : v.key = w.key /\ v.version = w.version => v.data = w.data

(* "DeleteCollection selects all resources in the storage matching given
   'listOptions' and deletes them": it comes to an end. *)
CollectionAnswered == \A r \in Requests : pc[r] = "visit" ~> pc[r] \in Replies
=============================================================================
