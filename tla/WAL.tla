-------------------------------- MODULE WAL ---------------------------------
(***************************************************************************)
(* The write-ahead log of one shard (storage/wal.py): append() puts an     *)
(* entry into a buffer, and two threads move the buffer to the segment     *)
(* files with the same _flush_batch(): the event loop when it calls        *)
(* flush() at the end of a request, and the group-commit thread whenever   *)
(* its timed wait ends.  The lock covers taking the buffer and nothing     *)
(* else, so two batches are written at the same time, through one file     *)
(* object that either thread may replace.                                  *)
(*                                                                         *)
(* A crash is the death of the process: what the files were handed stays,  *)
(* what is in Python's file buffer survives as far as it was spilled, and  *)
(* the entry in which the spill stopped is torn.                           *)
(*                                                                         *)
(* Entries have any size, so a segment may be full before any entry.       *)
(* gc(), which nothing calls, and the S3 upload are not modelled.          *)
(***************************************************************************)
EXTENDS Naturals, Sequences, SequencesExt

CONSTANTS
    Entries,      \* the entries clients append, each once
    Torn,         \* the remains of an entry whose write was cut off
    MaxSegment,   \* bound on _segment_id
    Env           \* "crash", "rotate" and "close", as far as they happen

ASSUME SegmentAssumption == MaxSegment \in Nat
ASSUME TornAssumption == Torn \notin Entries
ASSUME EnvAssumption == Env \subseteq {"crash", "rotate", "close"}

VARIABLES
    buffer,     \* _buffer
    batch,      \* the rest of the batch each thread is writing
    pc,         \* where each thread is in _flush_batch
    seg,        \* _segment_id
    path,       \* the segment each thread was about to open
    file,       \* the segment _segment_file was opened for
    open,       \* _segment_file is not closed
    fbuf,       \* what _segment_file has not handed to the system
    files,      \* the segment files
    request,    \* entries the current request appended
    acked,      \* history: entries of requests that were acknowledged
    appended,   \* history: the entries that were appended
    lost,       \* history: the entries an exception or a crash dropped
    late        \* history: the entries appended when a file had a torn tail

vars == <<buffer, batch, pc, seg, path, file, open, fbuf, files, request, acked, appended, lost,
          late>>

Threads == {"client", "flusher"}
Segments == 0..MaxSegment

\* "entry": about to write an entry; "open": opening the next segment for it;
\* "write": writing it there; "flush": the batch is written; "dead": the thread
\* ended, or the log was closed.
Location == {"idle", "entry", "open", "write", "flush", "dead"}

TypeOK ==
    /\ buffer \in Seq(Entries)
    /\ batch \in [Threads -> Seq(Entries)]
    /\ pc \in [Threads -> Location]
    /\ seg \in Segments
    /\ path \in [Threads -> Segments]
    /\ file \in Segments
    /\ open \in BOOLEAN
    /\ fbuf \in Seq(Entries)
    /\ files \in [Segments -> Seq(Entries \cup {Torn})]
    /\ request \in SUBSET Entries
    /\ acked \in SUBSET Entries
    /\ appended \in SUBSET Entries
    /\ lost \in SUBSET Entries
    /\ late \in SUBSET Entries

-----------------------------------------------------------------------------
(* What the segment files hold, and what read_all returns of it: each       *)
(* segment up to its first torn entry, behind which the framing is lost.    *)

Slots == UNION {{s} \X DOMAIN files[s] : s \in Segments}
At(p) == files[p[1]][p[2]]
Readable(p) == \A i \in 1..p[2] : files[p[1]][i] # Torn
Written == {At(p) : p \in Slots} \ {Torn}
ReadAll == {At(p) : p \in {q \in Slots : Readable(q)}}

TornTail == \E p \in Slots : At(p) = Torn

-----------------------------------------------------------------------------

Init ==
    /\ buffer = <<>>
    /\ batch = [t \in Threads |-> <<>>]
    /\ pc = [t \in Threads |-> "idle"]
    /\ seg = 0
    /\ path = [t \in Threads |-> 0]
    /\ file = 0
    /\ open = TRUE
    /\ fbuf = <<>>
    /\ files = [s \in Segments |-> <<>>]
    /\ request = {}
    /\ acked = {}
    /\ appended = {}
    /\ lost = {}
    /\ late = {}

\* append
AppendEntry(e) ==
    /\ pc["client"] = "idle"
    /\ e \notin appended
    /\ buffer' = Append(buffer, e)
    /\ request' = request \cup {e}
    /\ appended' = appended \cup {e}
    /\ late' = IF TornTail THEN late \cup {e} ELSE late
    /\ UNCHANGED <<batch, pc, seg, path, file, open, fbuf, files, acked, lost>>

\* Mutant: the buffer is copied and not cleared.
TakeBufferKeeps(t) ==
    /\ batch' = [batch EXCEPT ![t] = buffer]
    /\ buffer' = buffer
    /\ pc' = [pc EXCEPT ![t] = "entry"]

\* Under the lock: the whole buffer becomes the batch of thread t.
TakeBuffer(t) ==
    /\ batch' = [batch EXCEPT ![t] = buffer]
    /\ buffer' = <<>>
    /\ pc' = [pc EXCEPT ![t] = "entry"]

\* flush() returns to the request, which is acknowledged.
Acknowledge ==
    /\ acked' = acked \cup request
    /\ request' = {}

\* Mutant: the request is acknowledged when its batch is taken.
FlushAcksTaken ==
    /\ pc["client"] = "idle"
    /\ \/ /\ buffer # <<>>
          /\ TakeBuffer("client")
          /\ Acknowledge
       \/ /\ buffer = <<>>
          /\ Acknowledge
          /\ UNCHANGED <<buffer, batch, pc>>
    /\ UNCHANGED <<seg, path, file, open, fbuf, files, appended, lost, late>>

\* flush, called by a request or by close
Flush ==
    /\ pc["client"] = "idle"
    /\ \/ /\ buffer # <<>>
          /\ TakeBuffer("client")
          /\ UNCHANGED <<request, acked>>
       \/ /\ buffer = <<>>
          /\ Acknowledge
          /\ UNCHANGED <<buffer, batch, pc>>
    /\ UNCHANGED <<seg, path, file, open, fbuf, files, appended, lost, late>>

\* Mutant: the group-commit thread waits for a full batch, without a timeout.
GroupCommitFullBatch ==
    /\ pc["flusher"] = "idle"
    /\ \/ Len(buffer) > 1 /\ TakeBuffer("flusher")
       \/ Len(buffer) <= 1 /\ UNCHANGED <<buffer, batch, pc>>
    /\ UNCHANGED <<seg, path, file, open, fbuf, files, request, acked, appended, lost, late>>

\* One turn of _group_commit_loop: the wait ends, by notify or by timeout.
GroupCommit ==
    /\ pc["flusher"] = "idle"
    /\ \/ buffer # <<>> /\ TakeBuffer("flusher")
       \/ buffer = <<>> /\ UNCHANGED <<buffer, batch, pc>>
    /\ UNCHANGED <<seg, path, file, open, fbuf, files, request, acked, appended, lost, late>>

\* Closing a file object hands its buffer to the system.
CloseFile ==
    /\ files' = [files EXCEPT ![file] = @ \o fbuf]
    /\ fbuf' = <<>>
    /\ open' = FALSE

\* _rotate_if_needed, when the entry does not fit: the next id, and
\* _open_segment closes the file.
Rotate(t) ==
    /\ "rotate" \in Env
    /\ pc[t] = "entry"
    /\ files[file] # <<>> \/ fbuf # <<>>
    /\ seg < MaxSegment
    /\ seg' = seg + 1
    /\ path' = [path EXCEPT ![t] = seg + 1]
    /\ CloseFile
    /\ pc' = [pc EXCEPT ![t] = "open"]
    /\ UNCHANGED <<buffer, batch, file, request, acked, appended, lost, late>>

\* Mutant: the segment is opened for writing, not for appending.
OpenSegmentTruncates(t) ==
    /\ pc[t] = "open"
    /\ file' = seg
    /\ open' = TRUE
    /\ files' = [files EXCEPT ![seg] = <<>>]
    /\ fbuf' = <<>>
    /\ pc' = [pc EXCEPT ![t] = "write"]
    /\ UNCHANGED <<buffer, batch, seg, path, request, acked, appended, lost, late>>

\* The rest of _open_segment.  The name is made from _segment_id after the
\* close, so the other thread may have raised the id before or after that; a
\* file it opened meanwhile is dropped, and flushed when it is collected.
OpenSegment(t) ==
    /\ pc[t] = "open"
    /\ \E s \in path[t]..seg : file' = s
    /\ open' = TRUE
    /\ files' = [files EXCEPT ![file] = @ \o fbuf]
    /\ fbuf' = <<>>
    /\ pc' = [pc EXCEPT ![t] = "write"]
    /\ UNCHANGED <<buffer, batch, seg, path, request, acked, appended, lost, late>>

\* Mutant: the whole batch is handed to the file where one entry should be.
WriteBatch(t) ==
    /\ pc[t] \in {"entry", "write"}
    /\ open
    /\ fbuf' = Append(fbuf, batch[t])
    /\ batch' = [batch EXCEPT ![t] = Tail(@)]
    /\ pc' = [pc EXCEPT ![t] = IF Len(batch[t]) = 1 THEN "flush" ELSE "entry"]
    /\ UNCHANGED <<buffer, seg, path, file, open, files, request, acked, appended, lost, late>>

\* write: an entry goes to Python's buffer of the file that is open now.
Write(t) ==
    /\ pc[t] \in {"entry", "write"}
    /\ open
    /\ fbuf' = Append(fbuf, Head(batch[t]))
    /\ batch' = [batch EXCEPT ![t] = Tail(@)]
    /\ pc' = [pc EXCEPT ![t] = IF Len(batch[t]) = 1 THEN "flush" ELSE "entry"]
    /\ UNCHANGED <<buffer, seg, path, file, open, files, request, acked, appended, lost, late>>

\* The end of _flush_batch: the file is flushed, and flush() returns.
FlushFile(t) ==
    /\ pc[t] = "flush"
    /\ open
    /\ files' = [files EXCEPT ![file] = @ \o fbuf]
    /\ fbuf' = <<>>
    /\ pc' = [pc EXCEPT ![t] = "idle"]
    /\ IF t = "client" THEN Acknowledge ELSE UNCHANGED <<request, acked>>
    /\ UNCHANGED <<buffer, batch, seg, path, file, open, appended, lost, late>>

\* A closed file raises ValueError: the request fails, the group-commit
\* thread ends, and the rest of the batch is gone.
WriteRaises(t) ==
    /\ pc[t] \in {"entry", "write", "flush"}
    /\ ~open
    /\ batch' = [batch EXCEPT ![t] = <<>>]
    /\ pc' = [pc EXCEPT ![t] = IF t = "client" THEN "idle" ELSE "dead"]
    /\ request' = IF t = "client" THEN {} ELSE request
    /\ lost' = lost \cup ToSet(batch[t])
    /\ UNCHANGED <<buffer, seg, path, file, open, fbuf, files, acked, appended, late>>

\* The end of close, after its flush: the group-commit thread is not joined.
Close ==
    /\ "close" \in Env
    /\ pc["client"] = "idle"
    /\ buffer = <<>>
    /\ request = {}
    /\ CloseFile
    /\ pc' = [pc EXCEPT !["client"] = "dead"]
    /\ UNCHANGED <<buffer, batch, seg, path, file, request, acked, appended, lost, late>>

\* The process dies; a new one opens segment 0 again.
CrashRestart ==
    /\ "crash" \in Env
    /\ \E n \in 0..Len(fbuf), cut \in {<<>>, <<Torn>>} :
          /\ cut # <<>> => n < Len(fbuf)
          /\ files' = [files EXCEPT ![file] = @ \o SubSeq(fbuf, 1, n) \o cut]
    /\ buffer' = <<>>
    /\ batch' = [t \in Threads |-> <<>>]
    /\ pc' = [t \in Threads |-> "idle"]
    /\ seg' = 0
    /\ path' = [t \in Threads |-> 0]
    /\ file' = 0
    /\ open' = TRUE
    /\ fbuf' = <<>>
    /\ request' = {}
    /\ lost' = lost \cup (appended \ Written')
    /\ UNCHANGED <<acked, appended, late>>

FlushBatch(t) == Rotate(t) \/ OpenSegment(t) \/ Write(t) \/ FlushFile(t) \/ WriteRaises(t)

Next ==
    \/ \E e \in Entries : AppendEntry(e)
    \/ Flush
    \/ GroupCommit
    \/ \E t \in Threads : FlushBatch(t)
    \/ Close
    \/ CrashRestart

Spec == Init /\ [][Next]_vars

\* Threads inside _flush_batch go on, and the timed wait of the group-commit
\* thread ends; that clients append or flush is not assumed.
FairSpec ==
    /\ Spec
    /\ \A t \in Threads : WF_vars(FlushBatch(t))
    /\ WF_vars(GroupCommit)

-----------------------------------------------------------------------------
(* Properties *)

\* Whichever thread takes an entry, and whatever fails or restarts meanwhile,
\* no entry is in the log twice: replay applies it at most once.
LoggedOnce == \A p, q \in Slots : At(p) = At(q) /\ At(p) # Torn => p = q

\* read_all returns the entries of an acknowledged request.
AckedIsDurable == acked \subseteq ReadAll

\* What read_all returned once it returns forever: opening, rotating, closing
\* and restarting only ever append.
ReadableStays ==
    [][\A p \in Slots : At(p) # Torn /\ Readable(p)
          => p \in Slots' /\ At(p)' = At(p) /\ Readable(p)']_vars

\* An acknowledged entry is one that read_all returns, or that the group-commit
\* thread or the open file still holds, or that a crash or a closed file
\* dropped, or that was appended when a segment already had a torn tail: nothing
\* cuts the tail off, so such an entry may be written behind it, where read_all
\* does not look.  (AckedIsDurable, the stronger promise, does not hold.)
AckedNotForgotten ==
    acked \subseteq ReadAll \cup ToSet(batch["flusher"]) \cup ToSet(fbuf) \cup lost \cup late

\* Group commit: an appended entry is written, flushed or not, unless a
\* crash or a closed file dropped it or ended the thread.
GroupCommitHappens ==
    \A e \in Entries :
        (e \in appended) ~> (e \in Written \cup lost \/ pc["flusher"] = "dead")
=============================================================================
