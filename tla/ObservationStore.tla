--------------------------- MODULE ObservationStore ---------------------------
(***************************************************************************)
(* The durable segmented log of rucelium-store with its persistent dedup   *)
(* index.  An append is three separate writes (record line, newline, index *)
(* line), each file synced in sync mode, and then the update of the        *)
(* in-memory state; the process or the machine may stop between any two of *)
(* these steps or in the middle of one.                                    *)
(*                                                                         *)
(* A file is a sequence of tokens: a record or index entry, the newline    *)
(* that ends a line, or a fragment of an entry that a write left behind.   *)
(* A fragment makes the line it is on undecodable, but for one that is a   *)
(* part of the node id only: with the next index entry, "1" and "1 6" are  *)
(* the line of (11, 6).                                                    *)
(* EventStore is the same design keyed by event id, without retention.     *)
(***************************************************************************)
EXTENDS Naturals, Sequences, FiniteSets

CONSTANTS RecordKeys,   \* the (node_id, sequence) dedup keys
          Measured,     \* key -> measured_ns of its sample
          Modes,        \* the options it is opened with, what it is given to
                        \* store, and what may then fail
          MaxFaults     \* bound: failures in one behaviour

Fault == {"crash",      \* the process dies, between or inside two writes
          "linecut",    \* ... also right between a record line and its newline
          "power",      \* power loss: unsynced bytes go, file by file
          "ioerror"}    \* a write fails after part of it reached the file

ASSUME StoreAssumption ==
  /\ Measured \in [RecordKeys -> Nat]
  /\ Modes \subseteq [sync : BOOLEAN, max : Nat \ {0}, keys : SUBSET RecordKeys,
                      faults : SUBSET Fault]
  /\ MaxFaults \in Nat

VARIABLES mode,         \* sync and segment_max_records, and the failures around them
          segFiles,     \* disk: contents of the segment files, in name order
          idxFile,      \* disk: contents of dedup.idx
          segSynced,    \* how much of each segment file sync_data has covered
          idxSynced,    \* how much of dedup.idx sync_data has covered
          status,       \* "up", "down", or "corrupt" when open has refused
          seen,         \* memory: dedup keys
          segments,     \* memory: record count and newest measurement of each
          pc,           \* the write that append performs next
          current,      \* the key being appended
          acked,        \* history: keys append has reported as stored
          horizon,      \* history: newest expiry any retention pass applied
          misread,      \* history: keys whose index line reads as another key
          faults        \* history: failures so far

disk   == <<segFiles, idxFile, segSynced, idxSynced>>
memory == <<seen, segments, pc, current>>
vars   == <<mode, disk, status, memory, acked, horizon, misread, faults>>

-----------------------------------------------------------------------------
(* Files and lines                                                         *)

Entry(k) == <<"entry", k>>
Newline  == <<"newline">>
Torn     == <<"torn">>
Digits   == <<"digits">>
NoKey == <<"none">>

LineStarts(f) == {i \in DOMAIN f : i = 1 \/ f[i - 1] = Newline}

EntryAt(f, i) == \E k \in RecordKeys : f[i] = Entry(k)

\* decode_line succeeds: the line is one whole record, terminated or final.
Decodes(f, i) == EntryAt(f, i) /\ (i = Len(f) \/ f[i + 1] = Newline)

Terminated(f, i) == \E j \in i .. Len(f) : f[j] = Newline

BadLines(f) == {i \in LineStarts(f) : ~Decodes(f, i)}

RecordLines(f) == {i \in LineStarts(f) : Decodes(f, i)}

\* The keys of the lines that decode.
KeySet(f) == {f[i][2] : i \in RecordLines(f)}

\* Fault: read_segment is never asked to repair.
Repaired_Never(f) == f

\* read_segment's torn-tail repair: an undecodable last line without its
\* newline is cut off.
Repaired(f) ==
  IF \E i \in BadLines(f) : ~Terminated(f, i)
  THEN SubSeq(f, 1, (CHOOSE i \in BadLines(f) : ~Terminated(f, i)) - 1)
  ELSE f

\* read_dedup_index cuts an unterminated last line even if it would parse.
RepairedIndex(f) ==
  IF \E i \in LineStarts(f) : ~Terminated(f, i)
  THEN SubSeq(f, 1, (CHOOSE i \in LineStarts(f) : ~Terminated(f, i)) - 1)
  ELSE f

\* The segment files after the repairs of open: only the final one is cut.
RepairedSegs ==
  [i \in DOMAIN segFiles |->
     IF i = Len(segFiles) THEN Repaired(segFiles[i]) ELSE segFiles[i]]

\* open finds nothing it must refuse as StoreError::Corrupt.
Readable ==
  /\ BadLines(RepairedIndex(idxFile)) = {}
  /\ \A i \in DOMAIN segFiles : BadLines(RepairedSegs[i]) = {}

Stored == UNION {KeySet(segFiles[i]) : i \in DOMAIN segFiles}

Newest(K) ==
  IF K = {} THEN 0
  ELSE CHOOSE m \in {Measured[k] : k \in K} : \A k \in K : Measured[k] <= m

SegmentInfo(f) == [records |-> Cardinality(RecordLines(f)), newest |-> Newest(KeySet(f))]

-----------------------------------------------------------------------------

\* A fresh directory; open creates it empty.
Init ==
  /\ mode \in Modes
  /\ segFiles = <<>> /\ idxFile = <<>>
  /\ segSynced = <<>> /\ idxSynced = 0
  /\ status = "down"
  /\ seen = {} /\ segments = <<>> /\ pc = "idle" /\ current = NoKey
  /\ acked = {} /\ horizon = 0 /\ misread = {} /\ faults = 0

-----------------------------------------------------------------------------
(* Opening the store                                                       *)

\* Fault: open trusts the index alone.
Missing_Ignored == {}

\* Keys that segments hold and the index lost.
Missing == (UNION {KeySet(RepairedSegs[i]) : i \in DOMAIN segFiles}) \ KeySet(RepairedIndex(idxFile))

\* Fault: merged keys are not written back.
IndexLines_Lost(K) == <<>>

\* Their lines in the index.  The code writes them in the order of its scan,
\* which no property tells from any other.
IndexLines(K) ==
  LET ks == CHOOSE o \in [1 .. Cardinality(K) -> K] : K = {o[i] : i \in DOMAIN o}
  IN [i \in 1 .. 2 * Cardinality(K) |->
        IF i % 2 = 1 THEN Entry(ks[(i + 1) \div 2]) ELSE Newline]

LeastOf(a, b) == IF a <= b THEN a ELSE b

\* Fault: the dedup set is rebuilt from the segments, without the index.
Open_SegmentsOnly ==
  /\ status = "down"
  /\ Readable
  /\ segFiles' = RepairedSegs
  /\ idxFile' = RepairedIndex(idxFile) \o IndexLines(Missing)
  /\ segSynced' = [i \in DOMAIN segFiles |-> LeastOf(segSynced[i], Len(RepairedSegs[i]))]
  /\ idxSynced' = LeastOf(idxSynced, Len(RepairedIndex(idxFile)))
  /\ seen' = UNION {KeySet(RepairedSegs[i]) : i \in DOMAIN segFiles}
  /\ segments' = [i \in DOMAIN segFiles |-> SegmentInfo(RepairedSegs[i])]
  /\ status' = "up"
  /\ UNCHANGED <<mode, pc, current, acked, horizon, misread, faults>>

\* ObservationStore::open: index first, then the segments; keys missing from
\* the index are written back to it.
Open ==
  /\ status = "down"
  /\ Readable
  /\ segFiles' = RepairedSegs
  /\ idxFile' = RepairedIndex(idxFile) \o IndexLines(Missing)
  /\ segSynced' = [i \in DOMAIN segFiles |-> LeastOf(segSynced[i], Len(RepairedSegs[i]))]
  /\ idxSynced' = IF mode.sync /\ Missing # {} THEN Len(idxFile')
                  ELSE LeastOf(idxSynced, Len(RepairedIndex(idxFile)))
  /\ seen' = KeySet(RepairedIndex(idxFile)) \cup Missing
  /\ segments' = [i \in DOMAIN segFiles |-> SegmentInfo(RepairedSegs[i])]
  /\ pc' = "idle" /\ current' = NoKey
  /\ status' = "up"
  /\ misread' = misread \ seen'
  /\ UNCHANGED <<mode, acked, horizon, faults>>

\* open returns StoreError::Corrupt and the daemon does not start.  The index
\* is repaired before the segments are read.
OpenCorrupt ==
  /\ status = "down"
  /\ ~Readable
  /\ status' = "corrupt"
  /\ idxFile' = IF BadLines(RepairedIndex(idxFile)) = {} THEN RepairedIndex(idxFile)
                ELSE idxFile
  /\ idxSynced' = LeastOf(idxSynced, Len(idxFile'))
  /\ UNCHANGED <<mode, segFiles, segSynced, memory, acked, horizon, misread, faults>>

-----------------------------------------------------------------------------
(* append                                                                  *)

\* The key is known: Ok(Duplicate), which tells the caller it is stored.
AppendDuplicate(k) ==
  /\ status = "up" /\ pc = "idle"
  /\ k \in seen
  /\ acked' = acked \cup {k}
  /\ UNCHANGED <<mode, disk, status, memory, horizon, misread, faults>>

\* A new key: roll to a new segment if there is none or the last is full.
AppendBegin(k) ==
  /\ status = "up" /\ pc = "idle"
  /\ k \notin seen
  /\ current' = k /\ pc' = "line"
  /\ segments' = IF segments = <<>> \/ segments[Len(segments)].records >= mode.max
                 THEN Append(segments, [records |-> 0, newest |-> 0])
                 ELSE segments
  /\ UNCHANGED <<mode, disk, status, seen, acked, horizon, misread, faults>>

\* Append tokens to the last segment's file, which the first write creates.
ToSegment(tokens) ==
  IF Len(segFiles) < Len(segments)
  THEN /\ segFiles' = Append(segFiles, tokens)
       /\ segSynced' = Append(segSynced, 0)
  ELSE /\ segFiles' = [segFiles EXCEPT ![Len(segFiles)] = @ \o tokens]
       /\ UNCHANGED segSynced

WriteLine ==
  /\ pc = "line"
  /\ ToSegment(<<Entry(current)>>)
  /\ pc' = "newline"
  /\ UNCHANGED <<mode, idxFile, idxSynced, status, seen, segments, current, acked, horizon, misread, faults>>

WriteNewline ==
  /\ pc = "newline"
  /\ ToSegment(<<Newline>>)
  /\ pc' = IF mode.sync THEN "sync" ELSE "index"
  /\ UNCHANGED <<mode, idxFile, idxSynced, status, seen, segments, current, acked, horizon, misread, faults>>

\* Fault: the segment is not synced before the index is written.
SyncSegment_Skipped ==
  /\ pc = "sync"
  /\ pc' = "index"
  /\ UNCHANGED <<mode, disk, status, seen, segments, current, acked, horizon, misread, faults>>

\* sync_data on the segment, in sync mode.
SyncSegment ==
  /\ pc = "sync"
  /\ segSynced' = [segSynced EXCEPT ![Len(segSynced)] = Len(segFiles[Len(segFiles)])]
  /\ pc' = "index"
  /\ UNCHANGED <<mode, segFiles, idxFile, idxSynced, status, seen, segments, current,
                 acked, horizon, misread, faults>>

EndsInDigits(f) == f # <<>> /\ f[Len(f)] = Digits

\* A line for k behind f, which is read as the entry of key r: as that of k,
\* unless digits are left there.  With those it is the entry of some other
\* node's key; which one is not told here.
LineRead(f, k, r) ==
  IF EndsInDigits(f) THEN SubSeq(f, 1, Len(f) - 1) \o <<Entry(r), Newline>>
  ELSE f \o <<Entry(k), Newline>>

\* append_dedup_lines: the entry and its newline in one write.
WriteIndex ==
  /\ pc = "index"
  /\ \E r \in RecordKeys :
       /\ ~EndsInDigits(idxFile) => r = current
       /\ idxFile' = LineRead(idxFile, current, r)
       /\ misread' = IF r = current THEN misread ELSE misread \cup {current}
  /\ pc' = IF mode.sync THEN "indexsync" ELSE "commit"
  /\ UNCHANGED <<mode, segFiles, segSynced, idxSynced, status, seen, segments, current,
                 acked, horizon, faults>>

\* sync_data on the index, in sync mode.
SyncIndex ==
  /\ pc = "indexsync"
  /\ idxSynced' = Len(idxFile)
  /\ pc' = "commit"
  /\ UNCHANGED <<mode, segFiles, segSynced, idxFile, status, seen, segments, current,
                 acked, horizon, misread, faults>>

\* Fault: the newest measurement is that of the last record.
Commit_LastMeasured ==
  /\ pc = "commit"
  /\ seen' = seen \cup {current}
  /\ segments' = [segments EXCEPT ![Len(segments)] =
                    [records |-> @.records + 1, newest |-> Measured[current]]]
  /\ acked' = acked \cup {current}
  /\ pc' = "idle" /\ current' = NoKey
  /\ UNCHANGED <<mode, disk, status, horizon, misread, faults>>

\* Both writes are done: update the memory and return Ok(Appended).
Commit ==
  /\ pc = "commit"
  /\ seen' = seen \cup {current}
  /\ segments' = [segments EXCEPT ![Len(segments)] =
                    [records |-> @.records + 1,
                     newest |-> IF @.newest >= Measured[current] THEN @.newest
                                ELSE Measured[current]]]
  /\ acked' = acked \cup {current}
  /\ pc' = "idle" /\ current' = NoKey
  /\ UNCHANGED <<mode, disk, status, horizon, misread, faults>>

-----------------------------------------------------------------------------
(* Retention                                                               *)

InOrder(K) ==
  CHOOSE o \in [1 .. Cardinality(K) -> K] :
    K = {o[i] : i \in DOMAIN o} /\ \A i, j \in DOMAIN o : i < j => o[i] < o[j]

Without(s, drop) ==
  LET kept == InOrder(DOMAIN s \ drop)
  IN [i \in 1 .. Cardinality(DOMAIN s \ drop) |-> s[kept[i]]]

\* Segments whose newest measurement is not after the cutoff, never the last.
Expired(cutoff) == {i \in 1 .. Len(segments) - 1 : segments[i].newest <= cutoff}

DropSegments(drop) ==
  /\ segFiles' = Without(segFiles, drop)
  /\ segSynced' = Without(segSynced, drop)
  /\ segments' = Without(segments, drop)

\* enforce_retention with cutoff = now_ns - retention_ns.
EnforceRetention(cutoff) ==
  /\ status = "up" /\ pc = "idle"
  /\ Expired(cutoff) # {}
  /\ DropSegments(Expired(cutoff))
  /\ horizon' = IF horizon >= cutoff THEN horizon ELSE cutoff
  /\ UNCHANGED <<mode, idxFile, idxSynced, status, seen, pc, current, acked, misread, faults>>

-----------------------------------------------------------------------------
(* Failures                                                                *)

Fail(kind) == kind \in mode.faults /\ faults < MaxFaults /\ faults' = faults + 1

LoseMemory ==
  /\ status' = "down"
  /\ seen' = {} /\ segments' = <<>> /\ pc' = "idle" /\ current' = NoKey

\* The process ends between two calls.
Stop ==
  /\ status = "up" /\ pc = "idle"
  /\ LoseMemory
  /\ UNCHANGED <<mode, disk, acked, horizon, misread, faults>>

\* The process dies with its last write complete, partial, or not begun.
\* The state between a record line and its newline is "linecut".
Crash ==
  /\ status = "up" /\ pc # "idle"
  /\ Fail(IF pc = "newline" THEN "linecut" ELSE "crash")
  /\ \/ UNCHANGED <<segFiles, segSynced, idxFile, idxSynced>>
     \/ /\ pc = "line"
        /\ \E t \in {<<>>, <<Torn>>} : ToSegment(t)
        /\ UNCHANGED <<idxFile, idxSynced>>
     \/ /\ pc = "index"
        /\ \E t \in {Torn, Entry(current)} : idxFile' = Append(idxFile, t)
        /\ UNCHANGED <<segFiles, segSynced, idxSynced>>
  /\ LoseMemory
  /\ UNCHANGED <<mode, acked, horizon, misread>>

\* What may be left of a file of which n tokens are safely on disk.
Leftovers(f, n) ==
  {SubSeq(f, 1, m) : m \in n .. Len(f)}
    \cup {Append(SubSeq(f, 1, m), Torn) : m \in {i \in n .. Len(f) - 1 : f[i + 1] # Newline}}

\* open dies after its repairs, its index lines written up to some point.
OpenCut ==
  /\ status = "down"
  /\ Readable
  /\ Fail("crash")
  /\ segFiles' = RepairedSegs
  /\ idxFile' \in Leftovers(RepairedIndex(idxFile) \o IndexLines(Missing),
                            Len(RepairedIndex(idxFile)))
  /\ segSynced' = [i \in DOMAIN segFiles |-> LeastOf(segSynced[i], Len(RepairedSegs[i]))]
  /\ idxSynced' = LeastOf(idxSynced, Len(RepairedIndex(idxFile)))
  /\ UNCHANGED <<mode, status, memory, acked, horizon, misread>>

\* Power loss: each file loses its own unsynced bytes, and what is left of it
\* is on the disk.  The cut right between
\* a record line and its newline is "linecut" here too.
PowerLoss ==
  /\ status = "up"
  /\ Fail("power")
  /\ idxFile' \in Leftovers(idxFile, idxSynced)
  /\ idxSynced' = Len(idxFile')
  /\ \E left \in [DOMAIN segFiles -> UNION {Leftovers(segFiles[i], segSynced[i]) :
                                              i \in DOMAIN segFiles}] :
       /\ \A i \in DOMAIN segFiles :
            /\ left[i] \in Leftovers(segFiles[i], segSynced[i])
            /\ left[i] # <<>> /\ "linecut" \notin mode.faults => left[i][Len(left[i])] \in {Newline, Torn}
       /\ segFiles' = left
       /\ segSynced' = [i \in DOMAIN left |-> Len(left[i])]
  /\ LoseMemory
  /\ UNCHANGED <<mode, acked, horizon, misread>>

\* A write or the sync after it fails and append returns Err: the memory is
\* left as it was, the bytes that reached the file stay there, and the next
\* write goes behind them.  (After a crash open cuts them off first, so there
\* Torn stands for digits too.)
WriteFails ==
  /\ Fail("ioerror")
  /\ \/ /\ pc = "line"
        /\ UNCHANGED <<segFiles, segSynced>> \/ \E t \in {<<>>, <<Torn>>} : ToSegment(t)
        /\ UNCHANGED <<idxFile, idxSynced>>
     \/ /\ pc = "index"
        /\ \E t \in {<<>>, <<Torn>>, <<Digits>>, <<Entry(current)>>} :
             idxFile' = IF t = <<Digits>> /\ EndsInDigits(idxFile) THEN idxFile ELSE idxFile \o t
        /\ UNCHANGED <<segFiles, segSynced, idxSynced>>
     \/ /\ pc \in {"newline", "sync", "indexsync"}
        /\ UNCHANGED disk
  /\ pc' = "idle" /\ current' = NoKey
  /\ UNCHANGED <<mode, status, seen, segments, acked, horizon, misread>>

\* A retention pass ends early, after a part of its removals: one fails (Err)
\* or the process dies.
RetentionStops(cutoff, drop) ==
  /\ status = "up" /\ pc = "idle"
  /\ drop \subseteq Expired(cutoff) /\ drop # Expired(cutoff)
  /\ \A i \in drop, j \in Expired(cutoff) \ drop : i < j
  /\ horizon' = IF horizon >= cutoff THEN horizon ELSE cutoff
  /\ \/ /\ Fail("ioerror")
        /\ DropSegments(drop)
        /\ UNCHANGED <<status, seen, pc, current>>
     \/ /\ Fail("crash")
        /\ segFiles' = Without(segFiles, drop)
        /\ segSynced' = Without(segSynced, drop)
        /\ LoseMemory
  /\ UNCHANGED <<mode, idxFile, idxSynced, acked, misread>>

-----------------------------------------------------------------------------

Cutoffs == {Measured[k] : k \in mode.keys}

Next ==
  \/ Open \/ OpenCorrupt
  \/ \E k \in mode.keys : AppendDuplicate(k) \/ AppendBegin(k)
  \/ WriteLine \/ WriteNewline \/ SyncSegment \/ WriteIndex \/ SyncIndex \/ Commit
  \/ \E c \in Cutoffs : EnforceRetention(c)
  \/ Stop \/ Crash \/ OpenCut \/ PowerLoss \/ WriteFails
  \/ \E c \in Cutoffs, drop \in SUBSET DOMAIN segments : RetentionStops(c, drop)

Spec == Init /\ [][Next]_vars

-----------------------------------------------------------------------------

\* What the store is built to survive: crashes inside its writes, and in sync
\* mode the loss of what was never synced.
Tolerated == mode.faults = {"crash"} \/ (mode.sync /\ mode.faults = {"power"})

\* After such failures open never refuses the directory as StoreError::Corrupt.
NeverCorrupt == Tolerated => status # "corrupt"

\* "A crash mid-write must not poison the store": neither does one that falls
\* between a record line and its newline.
NeverPoisoned == status # "corrupt"

\* One record per key on disk, whatever failed between the record and its
\* index entry: a retry or a restart never stores a sample twice.
Unique(S) ==
  \A i, j \in DOMAIN S : \A a \in RecordLines(S[i]), b \in RecordLines(S[j]) :
    S[i][a] = S[j][b] => i = j /\ a = b

UniqueRecords == Tolerated => Unique(segFiles)

\* Between calls the memory is the one a restart would rebuild: the dedup set
\* is the one on disk, the per-segment metadata describes the files, and no
\* file outgrows segment_max_records, also after recoveries in the middle of it.
MemoryMatchesDisk ==
  Tolerated /\ status = "up" /\ pc = "idle" =>
    /\ seen = KeySet(idxFile)
    /\ Len(segments) = Len(segFiles)
    /\ \A i \in DOMAIN segFiles :
         segments[i] = SegmentInfo(segFiles[i]) /\ segments[i].records <= mode.max

\* Failures that the index outlives: power is lost only in sync mode, and
\* there is no other recovery whose index lines it could take back.
Lasting ==
  "power" \in mode.faults => mode.sync /\ mode.faults \subseteq {"power", "linecut"}

\* "Dedup keys are kept forever", also of records that retention deleted: a
\* running store knows every key it has ever acknowledged.  After a failed
\* write of the index, all but those whose own line stands behind the digits it
\* left and so reads as another key, until an open finds their record.
DedupForever == Lasting /\ status = "up" => acked \ misread \subseteq seen

\* A record of k is a whole line of some segment.
OnALine(k) ==
  \E i \in DOMAIN segFiles : \E j \in RecordLines(segFiles[i]) :
    segFiles[i][j] = Entry(k) /\ Terminated(segFiles[i], j)

\* Whatever fails but the power, writes and removals in the middle included: as
\* long as open would still read the directory, a whole record line of a key that
\* was acknowledged leaves the disk only for a retention pass whose cutoff it was
\* measured by.
KeptItsTime ==
  [][\A k \in acked \ misread :
       "power" \notin mode.faults /\ Readable /\ OnALine(k) =>
         OnALine(k)' \/ Measured[k] <= horizon']_vars

\* The store implements DurableLog: a key is known as soon as either file holds
\* it, and no tolerated failure takes back what append has answered.  So the
\* record of an acknowledged key stays readable until a retention pass whose
\* cutoff it was measured by.
Log == INSTANCE DurableLog WITH known <- KeySet(idxFile) \cup Stored,
                                present <- Stored, promised <- acked
ImplementsLog == Log!Init /\ [][Tolerated => Log!Next]_Log!lvars

-----------------------------------------------------------------------------
(* The inductive invariant: types.                                         *)

Token == {Entry(k) : k \in RecordKeys} \cup {Newline, Torn, Digits}

File == Seq(Token)

Steps == {"idle", "line", "newline", "sync", "index", "indexsync", "commit"}

TypeOK ==
  /\ mode \in Modes
  /\ segFiles \in Seq(File) /\ idxFile \in File
  /\ segSynced \in Seq(Nat) /\ Len(segSynced) = Len(segFiles)
  /\ \A i \in DOMAIN segFiles : segSynced[i] <= Len(segFiles[i])
  /\ idxSynced \in 0 .. Len(idxFile)
  /\ status \in {"up", "down", "corrupt"}
  /\ seen \in SUBSET RecordKeys /\ acked \in SUBSET RecordKeys
  /\ misread \in SUBSET RecordKeys
  /\ segments \in Seq([records : Nat, newest : Nat])
  /\ pc \in Steps /\ current \in RecordKeys \cup {NoKey}
  /\ horizon \in Nat /\ faults \in Nat

\* Where append stands.
InCall ==
  /\ pc # "idle" => status = "up" /\ current \in mode.keys /\ current \notin seen
  /\ pc \in {"sync", "indexsync"} => mode.sync
  /\ status = "up" => Len(segments) \in {Len(segFiles), Len(segFiles) + 1}
  /\ status = "up" /\ Len(segments) # Len(segFiles) => segments[Len(segments)].records = 0
  /\ pc = "line" => segments # <<>>
  /\ pc \notin {"idle", "line"} => Len(segments) = Len(segFiles) /\ segments # <<>>

-----------------------------------------------------------------------------
(* ... keys that the index keeps.                                          *)

\* Among the first n tokens of f is a whole line for k.
HasLine(f, n, k) ==
  \E i \in LineStarts(f) : i < n /\ f[i] = Entry(k) /\ f[i + 1] = Newline

\* Among them is a line that open will refuse.
Spoilt(f, n) == \E i \in BadLines(f), j \in 1 .. n : i <= j /\ f[j] = Newline

Keeps(f, n, K) == Spoilt(f, n) \/ \A k \in K : HasLine(f, n, k)

\* How much of the index no failure takes.
Safe == IF "power" \in mode.faults THEN idxSynced ELSE Len(idxFile)

IndexLasts ==
  Lasting =>
    /\ "power" \in mode.faults => idxSynced = Len(idxFile) \/ pc = "indexsync"
    /\ Keeps(idxFile, Safe, acked \ misread)
    /\ status = "up" => acked \ misread \subseteq seen /\ Keeps(idxFile, Safe, seen \ misread)
    /\ pc = "indexsync" => Keeps(idxFile, Len(idxFile), {current} \ misread)
    /\ pc = "commit" => Keeps(idxFile, Safe, {current} \ misread)

DedupInv == TypeOK /\ InCall /\ IndexLasts

-----------------------------------------------------------------------------
(* ... and what tolerated failures leave.                                  *)

Good(f) == BadLines(f) = {}

Ended(f) == Len(f) = 0 \/ f[Len(f)] = Newline

Clean(f) == Good(f) /\ Ended(f)

TornLast(f) == BadLines(f) = {Len(f)} /\ f[Len(f)] = Torn

\* The record of the key that is being appended is in its segment.
Written == pc \notin {"idle", "line"}

\* Every file has whole lines only, but for the end of the last segment and of
\* the index.
Whole ==
  /\ \A i \in DOMAIN segFiles :
       \/ Clean(segFiles[i])
       \/ i = Len(segFiles) /\ pc = "newline" /\ Good(segFiles[i])
       \/ i = Len(segFiles) /\ status # "up" /\ TornLast(segFiles[i])
  /\ Clean(idxFile) \/ (status # "up" /\ (Good(idxFile) \/ TornLast(idxFile)))

Filled == \A i \in DOMAIN segFiles : Cardinality(RecordLines(segFiles[i])) <= mode.max

\* The metadata of a segment before the record of k was written to it.
InfoBefore(f, k) ==
  [records |-> Cardinality(RecordLines(f)) - 1, newest |-> Newest(KeySet(f) \ {k})]

\* What the memory says of the files, in a call and between calls.
Remembered ==
  /\ KeySet(idxFile) = seen \cup (IF pc \in {"indexsync", "commit"} THEN {current} ELSE {})
  /\ Stored \subseteq seen \cup (IF Written THEN {current} ELSE {})
  /\ \A i \in DOMAIN segFiles :
       segments[i] = IF Written /\ i = Len(segFiles) THEN InfoBefore(segFiles[i], current)
                     ELSE SegmentInfo(segFiles[i])
  /\ pc = "idle" => Len(segments) = Len(segFiles)
  /\ Len(segments) # Len(segFiles) => segments[Len(segments)] = [records |-> 0, newest |-> 0]
  /\ pc # "idle" => segments[Len(segments)].records < mode.max
  /\ Written => current \in KeySet(segFiles[Len(segFiles)])
  /\ pc = "newline" => LET f == segFiles[Len(segFiles)] IN Len(f) # 0 /\ f[Len(f)] = Entry(current)
  /\ pc = "sync" => LET f == segFiles[Len(segFiles)] IN Len(f) > 1 /\ f[Len(f) - 1] = Entry(current)

\* In sync mode only the tokens of the current call are not on the disk.
Unsynced == IF pc = "newline" THEN 1 ELSE IF pc = "sync" THEN 2 ELSE 0

Synced ==
  "power" \in mode.faults =>
    \A i \in DOMAIN segFiles :
      segSynced[i] + (IF i = Len(segFiles) THEN Unsynced ELSE 0) = Len(segFiles[i])

Intact ==
  /\ status # "corrupt"
  /\ Whole /\ Filled /\ Synced /\ Unique(segFiles)
  /\ status = "up" => Remembered

StoreInv == DedupInv /\ (Tolerated => Intact /\ misread = {})
=============================================================================
