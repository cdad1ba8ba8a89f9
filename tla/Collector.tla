----------------------------- MODULE Collector -----------------------------
(***************************************************************************)
(* ipaddr-collector (IPADDRD/GO/SRC/main.go): one loop reads the agents'   *)
(* datagrams into a ring of buffers and starts a goroutine for each; the   *)
(* goroutine checks the frame and stores it as a report file named by the  *)
(* uuid of the agent's session, written under a temporary path and renamed *)
(* into place, where ipaddr-check reads and expires it.                    *)
(*                                                                         *)
(* A datagram is a session and what serve() makes of it: a report, or one  *)
(* that a check refuses (bad: length, crc, address count, flag), or one    *)
(* whose lengths do not fit and that it panics of (broken).  UDP may lose, *)
(* repeat, delay and reorder it, so any may come at any time.  Datagrams   *)
(* are numbered in the order they are read, and the number stands for the  *)
(* file (the inode) that is written for one.  The two paths survive the    *)
(* process.                                                                *)
(***************************************************************************)
EXTENDS Integers, Sequences, FiniteSets

CONSTANTS
  Sessions,       \* uuids of the agents' sessions
  RingSize,       \* buffers in RING
  RRL_THRESHOLD,  \* datagrams per window
  RRL_FACTOR,     \* above it one of so many is served
  MaxFrames,      \* bound on the datagrams that are read
  MaxFaults       \* bound on failing calls of the file system and kills

ASSUME CollectorAssumption ==
  /\ RingSize \in Nat \ {0, 1} /\ MaxFrames \in Nat /\ MaxFaults \in Nat
  /\ RRL_THRESHOLD \in Nat \ {0} /\ RRL_FACTOR \in Nat \ {0}

VARIABLES
  up,           \* is the process running
  reader,       \* listen_udp: "read", or "wait" for the next buffer
  ring_pos,     \* ring_pos
  in_use,       \* buffer -> RING[].in_use
  data,         \* buffer -> the datagram in RING[].data
  server,       \* buffer -> where the goroutine that serves it is
  job,          \* buffer -> the datagram the goroutine was started for
  count,        \* count
  rrl,          \* rrl
  f,            \* the RRL file: "nil", "open", "closed"
  tmp,          \* session -> its file under REPORT_PATH_NEW
  reports,      \* session -> its file under REPORT_PATH
  frames,       \* the datagrams read so far
  full,         \* files whose content is complete
  cut,          \* files with a write that failed
  passed,       \* datagrams served in this window
  overlap,      \* sessions that had two datagrams in service at once
  torn,         \* files whose goroutine was lost while it wrote them
  faults        \* faults so far

loop    == <<reader, ring_pos, count, rrl, f, passed>>
buffers == <<in_use, data, server, job>>
paths   == <<tmp, reports>>
past    == <<frames, full, cut, torn, overlap>>
vars    == <<up, loop, buffers, paths, past, faults>>

Buffers == 0 .. RingSize - 1
None    == 0                       \* no file, no datagram
Kinds   == {"report", "bad", "broken"}

Fault == faults < MaxFaults /\ faults' = faults + 1

Booted ==
  /\ reader = "read" /\ ring_pos = 0 /\ count = 0 /\ rrl = FALSE /\ f = "nil" /\ passed = 0
  /\ in_use = [b \in Buffers |-> FALSE] /\ data = [b \in Buffers |-> None]
  /\ server = [b \in Buffers |-> "none"] /\ job = [b \in Buffers |-> None]

Init ==
  /\ up = TRUE /\ Booted
  /\ tmp = [u \in Sessions |-> None] /\ reports = [u \in Sessions |-> None]
  /\ frames = <<>> /\ full = {} /\ cut = {} /\ torn = {} /\ overlap = {}
  /\ faults = 0

At(b, here) == server[b] = here

\* The process ends and takes its memory with it.
Down ==
  /\ up' = FALSE
  /\ reader' = "read" /\ ring_pos' = 0 /\ count' = 0 /\ rrl' = FALSE /\ f' = "nil" /\ passed' = 0
  /\ in_use' = [b \in Buffers |-> FALSE] /\ data' = [b \in Buffers |-> None]
  /\ server' = [b \in Buffers |-> "none"] /\ job' = [b \in Buffers |-> None]
  /\ torn' = torn \cup {job[b] : b \in {c \in Buffers : At(c, "write")}}

----------------------------------------------------------------------------
(* listen_udp. *)

Serving(b)  == server[b] # "none"
Session(n)  == frames[n].u
InService(u) == \E b \in Buffers : Serving(b) /\ Session(job[b]) = u

\* The window of RRL: a new one starts when the last one is over (fresh).
Count(fresh) == IF fresh THEN 1 ELSE count + 1

RrlDrops(c) == c > RRL_THRESHOLD /\ c % RRL_FACTOR # 0

Activates(c, fresh) == c > RRL_THRESHOLD /\ (fresh \/ ~rrl)

\* The RRL file at an activation: a file grown too big is renamed and closed, and
\* a file is opened if there never was one.
RrlFile(big) == CASE f = "nil" -> "open"
                  [] f # "nil" /\ big -> "closed"
                  [] OTHER -> f

NextBuffer == IF ring_pos = RingSize - 1 THEN 0 ELSE ring_pos + 1

\* A datagram is read into the current buffer, and dropped or served.
Read(u, kind, fresh, big) ==
  LET n == Len(frames) + 1  c == Count(fresh) IN
  /\ up /\ reader = "read" /\ n <= MaxFrames
  /\ frames' = Append(frames, [u |-> u, kind |-> kind])
  /\ data' = [data EXCEPT ![ring_pos] = n]
  /\ count' = c
  /\ IF Activates(c, fresh)
       THEN f' = RrlFile(big) /\ rrl' = TRUE
       ELSE rrl' = (rrl /\ ~fresh) /\ UNCHANGED f
  /\ IF RrlDrops(c)
       THEN /\ passed' = IF fresh THEN 0 ELSE passed
            /\ UNCHANGED <<reader, ring_pos, in_use, server, job, overlap>>
       ELSE /\ passed' = IF fresh THEN 1 ELSE passed + 1
            /\ in_use' = [in_use EXCEPT ![ring_pos] = TRUE]
            /\ server' = [server EXCEPT ![ring_pos] = "check"]
            /\ job' = [job EXCEPT ![ring_pos] = n]
            /\ overlap' = IF InService(u) THEN overlap \cup {u} ELSE overlap
            /\ ring_pos' = NextBuffer
            /\ reader' = "wait"
  /\ UNCHANGED <<up, paths, full, cut, torn, faults>>

\* It goes on when the next buffer is released.
Released_Any == \E b \in Buffers : ~in_use[b]     \* (mutant) any free buffer will do
Released == ~in_use[ring_pos]

WaitBuffer ==
  /\ reader = "wait" /\ Released
  /\ reader' = "read"
  /\ UNCHANGED <<up, ring_pos, count, rrl, f, passed, buffers, paths, past, faults>>

----------------------------------------------------------------------------
(* serve, the goroutine of a buffer. *)

GoesTo(b, pc) == server' = [server EXCEPT ![b] = pc]
Uuid(b)       == Session(job[b])

DropTo_None == "none"         \* (mutant) the early returns come before the defer
DropTo == "release"

\* A panic of a goroutine ends the process.
Panics == Down /\ UNCHANGED <<paths, frames, full, cut, overlap>>

\* The checks of the frame, and its conversion to strings.
Kind(b) == frames[data[b]].kind

CheckFrame(b) ==
  /\ At(b, "check") /\ Kind(b) # "broken"
  /\ GoesTo(b, IF Kind(b) = "report" THEN "open" ELSE DropTo)
  /\ UNCHANGED <<up, loop, in_use, data, job, paths, past, faults>>

CheckPanics(b) ==
  /\ At(b, "check") /\ Kind(b) = "broken"
  /\ Panics /\ UNCHANGED faults

AfterOpen_Rename == "rename"    \* (mutant) renamed when created, not when closed
AfterOpen == "write"

\* O_CREATE|O_EXCL.
Create(b) ==
  /\ tmp[Uuid(b)] = None
  /\ tmp' = [tmp EXCEPT ![Uuid(b)] = job[b]]
  /\ GoesTo(b, AfterOpen)
  /\ UNCHANGED <<up, loop, in_use, data, job, reports, past, faults>>

OpenNew(b) == At(b, "open") /\ Create(b)

\* The file is there, or it cannot be created for another reason.
Refused(b) == IF tmp[Uuid(b)] # None THEN UNCHANGED faults ELSE Fault

OpenFails(b) ==
  /\ At(b, "open") /\ Refused(b)
  /\ GoesTo(b, "remove")
  /\ UNCHANGED <<up, loop, in_use, data, job, paths, past>>

\* The result of os.Remove is not looked at.
RemoveOld(b) ==
  /\ At(b, "remove")
  /\ \/ tmp' = [tmp EXCEPT ![Uuid(b)] = None] /\ UNCHANGED faults
     \/ Fault /\ UNCHANGED tmp
  /\ GoesTo(b, "reopen")
  /\ UNCHANGED <<up, loop, in_use, data, job, reports, past>>

OpenAgain(b) == At(b, "reopen") /\ Create(b)

OpenPanics(b) == At(b, "reopen") /\ Refused(b) /\ Panics

\* The lines of the report; the result of a write is not looked at.
WriteReport(b) ==
  /\ At(b, "write")
  /\ \/ full' = full \cup {job[b]} /\ UNCHANGED <<cut, faults>>
     \/ Fault /\ cut' = cut \cup {job[b]} /\ UNCHANGED full
  /\ GoesTo(b, "rename")
  /\ UNCHANGED <<up, loop, in_use, data, job, paths, frames, torn, overlap>>

\* The deferred Sync, Close and Rename; the result is not looked at either.
RenameReport(b) ==
  LET u == Uuid(b) IN
  /\ At(b, "rename")
  /\ IF tmp[u] # None
       THEN /\ reports' = [reports EXCEPT ![u] = tmp[u]]
            /\ tmp' = [tmp EXCEPT ![u] = None]
       ELSE UNCHANGED paths
  /\ GoesTo(b, "release")
  /\ UNCHANGED <<up, loop, in_use, data, job, past, faults>>

\* The first deferred call runs last.
ReleaseBuffer(b) ==
  /\ At(b, "release")
  /\ in_use' = [in_use EXCEPT ![b] = FALSE]
  /\ GoesTo(b, "none")
  /\ UNCHANGED <<up, loop, data, job, paths, past, faults>>

----------------------------------------------------------------------------
(* Around the collector. *)

\* A signal or a kill.
Stop ==
  /\ up /\ Fault /\ Down
  /\ UNCHANGED <<paths, frames, full, cut, overlap>>

StartAgain ==
  /\ ~up /\ up' = TRUE
  /\ UNCHANGED <<loop, buffers, paths, past, faults>>

\* ipaddr-check deletes the reports that were not renewed for five minutes.
Expire(u) ==
  /\ reports[u] # None
  /\ reports' = [reports EXCEPT ![u] = None]
  /\ UNCHANGED <<up, loop, buffers, tmp, past, faults>>

----------------------------------------------------------------------------
Serve(b) ==
  \/ CheckFrame(b) \/ CheckPanics(b) \/ OpenNew(b) \/ OpenFails(b) \/ RemoveOld(b) \/ OpenAgain(b)
  \/ OpenPanics(b) \/ WriteReport(b) \/ RenameReport(b) \/ ReleaseBuffer(b)

Next ==
  \/ \E u \in Sessions, kind \in Kinds, fresh, big \in BOOLEAN : Read(u, kind, fresh, big)
  \/ WaitBuffer \/ \E b \in Buffers : Serve(b)
  \/ Stop \/ StartAgain \/ \E u \in Sessions : Expire(u)

Spec == Init /\ [][Next]_vars

\* The goroutines are scheduled.  No datagram is bound to come.
Fairness == WF_vars(WaitBuffer) /\ \A b \in Buffers : WF_vars(Serve(b))
FairSpec == Spec /\ Fairness

----------------------------------------------------------------------------
(* Properties. *)

Files == 0 .. Len(frames)

TypeOK ==
  /\ {up, rrl} \subseteq BOOLEAN
  /\ reader \in {"read", "wait"} /\ ring_pos \in Buffers /\ f \in {"nil", "open", "closed"}
  /\ in_use \in [Buffers -> BOOLEAN] /\ data \in [Buffers -> Files] /\ job \in [Buffers -> Files]
  /\ server \in [Buffers -> {"none", "check", "open", "remove", "reopen", "write", "rename", "release"}]
  /\ frames \in Seq([u : Sessions, kind : Kinds]) /\ count \in Nat /\ passed \in Nat
  /\ tmp \in [Sessions -> Files] /\ reports \in [Sessions -> Files]
  /\ full \subseteq Files /\ cut \subseteq Files /\ torn \subseteq Files /\ overlap \subseteq Sessions /\ faults \in Nat

\* Why a report is consistent: the reader never meets a buffer in service, a
\* buffer in service has a datagram of its own, two goroutines of one session are
\* an overlap, and without one a goroutine that writes finds its own file.
ReadersTurn == reader = "read" => ~Serving(ring_pos)

Owned == \A b \in Buffers :
  (in_use[b] <=> Serving(b)) /\ (Serving(b) => job[b] # None /\ data[b] = job[b])

OnePerSession == \A b, c \in Buffers :
  b # c /\ Serving(b) /\ Serving(c) /\ Uuid(b) = Uuid(c) => Uuid(b) \in overlap

FilesOwned == \A b \in Buffers : Serving(b) /\ Uuid(b) \notin overlap =>
  /\ At(b, "write") => tmp[Uuid(b)] = job[b]
  /\ At(b, "rename") => tmp[Uuid(b)] = job[b] /\ job[b] \in full \cup cut

ServeInv == ReadersTurn /\ Owned /\ OnePerSession /\ FilesOwned

\* A goroutine reads the datagram it was started for: its buffer is not filled
\* again before it has released it.
BufferIsOwn == \A b \in Buffers : Serving(b) => in_use[b] /\ data[b] = job[b]

\* "Store consistent reports under this path": what ipaddr-check can read is a
\* complete report, unless the file system has refused a write, over kills, panics
\* and restarts, for a session whose datagrams were never in service two at a time;
Consistent(u) == reports[u] \in full \cup cut \cup {None}
SpacedConsistent == \A u \in Sessions \ overlap : Consistent(u)

\* and of the others, whose goroutines remove and rename each other's files, it is
\* complete, or its goroutine is still writing it, or was lost while it wrote it.
Writing(n) == \E b \in Buffers : At(b, "write") /\ job[b] = n
ReportsConsistent ==
  /\ SpacedConsistent
  /\ \A u \in overlap : Consistent(u) \/ Writing(reports[u]) \/ reports[u] \in torn

\* Why: so it is of every file under either path.
Accounted(n) == n \in full \cup cut \cup torn \cup {None} \/ Writing(n)
FilesAccounted == \A u \in Sessions : Accounted(tmp[u]) /\ Accounted(reports[u])

\* Above the threshold of a window at most one datagram of RRL_FACTOR is served.
RrlBound ==
  count > RRL_THRESHOLD =>
    (passed - RRL_THRESHOLD) * RRL_FACTOR < (count - RRL_THRESHOLD) + RRL_FACTOR

\* Why: a datagram is served above the threshold only when the count reaches the
\* next multiple of RRL_FACTOR.
Reached(c) == c - (c % RRL_FACTOR)

RrlInv ==
  /\ count <= RRL_THRESHOLD => passed <= count
  /\ count > RRL_THRESHOLD =>
       (passed - RRL_THRESHOLD) * RRL_FACTOR <= Reached(count) - Reached(RRL_THRESHOLD)

\* The loop is never held up for good: the buffer it waits for is released.
ReaderGoesOn == reader = "wait" ~> reader = "read"

=============================================================================
