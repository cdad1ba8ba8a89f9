-------------------------- MODULE Collector_proofs --------------------------
(***************************************************************************)
(* Proofs about Collector, for every set of sessions, every size of the    *)
(* ring, every threshold and every number of datagrams and faults.         *)
(***************************************************************************)
EXTENDS Collector, TLAPS

\* The ring is closed under going on to the next buffer.
LEMMA NextBufferType == ring_pos \in Buffers => NextBuffer \in Buffers /\ 0 \in Buffers
  BY CollectorAssumption DEF CollectorAssumption, NextBuffer, Buffers

\* A datagram that is read leaves the earlier ones where they are.
LEMMA FramesGrow ==
  ASSUME NEW m, frames \in Seq([u : Sessions, kind : Kinds]),
         m \in [u : Sessions, kind : Kinds], frames' = Append(frames, m)
  PROVE  /\ frames' \in Seq([u : Sessions, kind : Kinds])
         /\ Len(frames') = Len(frames) + 1
         /\ frames'[Len(frames) + 1] = m
         /\ \A n \in 1 .. Len(frames) : frames'[n] = frames[n]
  OBVIOUS

LEMMA Element ==
  ASSUME NEW S, NEW q \in Seq(S), NEW n \in 1 .. Len(q)
  PROVE  q[n] \in S
  OBVIOUS

\* A goroutine in service has a datagram.
LEMMA JobType ==
  ASSUME TypeOK, Owned, NEW b \in Buffers, Serving(b)
  PROVE  job[b] \in 1 .. Len(frames) /\ Uuid(b) \in Sessions
<1>1. job[b] \in 1 .. Len(frames)
  BY DEF TypeOK, Owned, Files, None
<1>2. frames \in Seq([u : Sessions, kind : Kinds])
  BY DEF TypeOK
<1>3. frames[job[b]] \in [u : Sessions, kind : Kinds]
  BY <1>1, <1>2, Element
<1>4. QED
  BY <1>1, <1>3 DEF Uuid, Session

\* A process that is gone serves nothing.
LEMMA DownType == TypeOK /\ Down =>
  /\ up' = FALSE /\ reader' = "read" /\ ring_pos' \in Buffers /\ rrl' = FALSE
  /\ f' = "nil" /\ count' = 0 /\ passed' = 0
  /\ in_use' = [b \in Buffers |-> FALSE] /\ server' = [b \in Buffers |-> "none"]
  /\ data' \in [Buffers -> {0}] /\ job' \in [Buffers -> {0}]
  BY NextBufferType DEF TypeOK, Down, None, NextBuffer

LEMMA DownTypeOK ==
  ASSUME TypeOK, Down, UNCHANGED <<tmp, reports, frames, full, cut, overlap>>, faults' \in Nat
  PROVE  TypeOK'
<1>1. 0 \in Files' /\ Files' = Files
  BY DEF Files, TypeOK
<1>2. data' \in [Buffers -> Files'] /\ job' \in [Buffers -> Files']
  BY <1>1, DownType
<1>3. tmp' \in [Sessions -> Files'] /\ reports' \in [Sessions -> Files']
  BY <1>1 DEF TypeOK
<1>4. full' \subseteq Files' /\ cut' \subseteq Files' /\ torn' \subseteq Files'
  <2>1. {job[b] : b \in {c \in Buffers : At(c, "write")}} \subseteq Files
    BY DEF TypeOK
  <2>2. QED
    BY <1>1, <2>1 DEF TypeOK, Down
<1>5. /\ in_use' \in [Buffers -> BOOLEAN]
      /\ server' \in [Buffers -> {"none", "check", "open", "remove", "reopen", "write", "rename", "release"}]
  BY DownType
<1>6. frames' \in Seq([u : Sessions, kind : Kinds]) /\ overlap' \subseteq Sessions
  BY DEF TypeOK
<1>7. {up', rrl'} \subseteq BOOLEAN /\ count' \in Nat /\ passed' \in Nat
  <2>1. up' = FALSE /\ rrl' = FALSE /\ count' = 0 /\ passed' = 0
    BY DownType
  <2>2. QED
    BY <2>1
<1>8. reader' \in {"read", "wait"} /\ ring_pos' \in Buffers /\ f' \in {"nil", "open", "closed"}
  BY DownType
<1>9. QED
  BY <1>2, <1>3, <1>4, <1>5, <1>6, <1>7, <1>8 DEF TypeOK

LEMMA DownInv ==
  ASSUME TypeOK, Down
  PROVE  ServeInv'
  BY DownType DEF ServeInv, ReadersTurn, Owned, OnePerSession, FilesOwned, Serving

LEMMA ReadType ==
  ASSUME TypeOK, NEW u \in Sessions, NEW kind \in Kinds, NEW fresh \in BOOLEAN,
         NEW big \in BOOLEAN, Read(u, kind, fresh, big)
  PROVE  TypeOK'
<1>1. /\ frames' = Append(frames, [u |-> u, kind |-> kind])
      /\ [u |-> u, kind |-> kind] \in [u : Sessions, kind : Kinds]
  BY DEF Read
<1>2. frames' \in Seq([u : Sessions, kind : Kinds]) /\ Len(frames') = Len(frames) + 1
  BY <1>1, FramesGrow DEF TypeOK
<1>3. Files \subseteq Files' /\ Len(frames) + 1 \in Files' /\ Len(frames) \in Nat
  BY <1>2 DEF Files, TypeOK
<1>4. Count(fresh) \in Nat /\ count' \in Nat
  BY DEF Read, Count, TypeOK
<1>5. f' \in {"nil", "open", "closed"} /\ rrl' \in BOOLEAN
  BY DEF Read, RrlFile, TypeOK
<1>6. data' \in [Buffers -> Files']
  BY <1>3 DEF Read, TypeOK
<1>7. /\ passed' \in Nat /\ reader' \in {"read", "wait"} /\ ring_pos' \in Buffers
      /\ in_use' \in [Buffers -> BOOLEAN] /\ job' \in [Buffers -> Files']
      /\ server' \in [Buffers -> {"none", "check", "open", "remove", "reopen", "write", "rename", "release"}]
      /\ overlap' \subseteq Sessions
  <2>1. CASE RrlDrops(Count(fresh))
    BY <1>3, <2>1 DEF Read, TypeOK
  <2>2. CASE ~RrlDrops(Count(fresh))
    <3>1. /\ passed' = (IF fresh THEN 1 ELSE passed + 1)
          /\ in_use' = [in_use EXCEPT ![ring_pos] = TRUE]
          /\ server' = [server EXCEPT ![ring_pos] = "check"]
          /\ job' = [job EXCEPT ![ring_pos] = Len(frames) + 1]
          /\ overlap' = (IF InService(u) THEN overlap \cup {u} ELSE overlap)
          /\ ring_pos' = NextBuffer /\ reader' = "wait"
      BY <2>2 DEF Read
    <3>2. job' \in [Buffers -> Files']
      BY <1>3, <3>1 DEF TypeOK
    <3>3. QED
      BY <3>1, <3>2, NextBufferType DEF TypeOK
  <2>3. QED
    BY <2>1, <2>2
<1>8. UNCHANGED <<up, tmp, reports, full, cut, torn, faults>>
  BY DEF Read, paths
<1>9. QED
  BY <1>2, <1>3, <1>4, <1>5, <1>6, <1>7, <1>8 DEF TypeOK

\* What a goroutine does keeps the types.
LEMMA ServeType ==
  ASSUME TypeOK, Owned, NEW b \in Buffers, Serve(b)
  PROVE  TypeOK'
<1> DEFINE Pcs == {"none", "check", "open", "remove", "reopen", "write", "rename", "release"}
<1>1. CASE CheckPanics(b) \/ OpenPanics(b)
  <2>1. Panics /\ faults' \in Nat
    BY <1>1 DEF CheckPanics, OpenPanics, Refused, Fault, TypeOK
  <2>2. QED
    BY <2>1, DownTypeOK DEF Panics, paths
<1>2. ASSUME UNCHANGED <<up, loop, data, job, frames, overlap, torn>>,
             server' \in [Buffers -> Pcs], in_use' \in [Buffers -> BOOLEAN],
             tmp' \in [Sessions -> Files], reports' \in [Sessions -> Files],
             full' \subseteq Files, cut' \subseteq Files, faults' \in Nat
      PROVE  TypeOK'
  BY <1>2 DEF TypeOK, loop, Files
<1>3. CASE CheckFrame(b)
  <2>1. server' \in [Buffers -> Pcs]
    BY <1>3 DEF CheckFrame, GoesTo, DropTo, TypeOK
  <2>2. QED
    BY <1>2, <1>3, <2>1 DEF CheckFrame, TypeOK, paths, past
<1>4. CASE (At(b, "open") \/ At(b, "reopen")) /\ Create(b)
  <2>1. Serving(b)
    BY <1>4 DEF At, Serving
  <2>2. job[b] \in Files
    BY DEF TypeOK
  <2>3. tmp' \in [Sessions -> Files] /\ server' \in [Buffers -> Pcs]
    BY <1>4, <2>2 DEF Create, AfterOpen, GoesTo, TypeOK
  <2>4. QED
    BY <1>2, <1>4, <2>3 DEF Create, TypeOK, past
<1>5. CASE OpenFails(b)
  <2>1. server' \in [Buffers -> Pcs] /\ faults' \in Nat
    BY <1>5 DEF OpenFails, Refused, Fault, GoesTo, TypeOK
  <2>2. QED
    BY <1>2, <1>5, <2>1 DEF OpenFails, TypeOK, paths, past
<1>6. CASE RemoveOld(b)
  <2>1. None \in Files
    BY DEF None, Files, TypeOK
  <2>2. tmp' \in [Sessions -> Files] /\ server' \in [Buffers -> Pcs] /\ faults' \in Nat
    BY <1>6, <2>1 DEF RemoveOld, Fault, GoesTo, TypeOK
  <2>3. QED
    BY <1>2, <1>6, <2>2 DEF RemoveOld, TypeOK, past
<1>7. CASE WriteReport(b)
  <2>1. server' \in [Buffers -> Pcs]
    BY <1>7 DEF WriteReport, GoesTo, TypeOK
  <2>2. job[b] \in Files
    BY DEF TypeOK
  <2>3. full' \subseteq Files /\ cut' \subseteq Files /\ faults' \in Nat
    BY <1>7, <2>2 DEF WriteReport, Fault, TypeOK
  <2>4. QED
    BY <1>2, <1>7, <2>1, <2>3 DEF WriteReport, TypeOK, paths
<1>8. CASE RenameReport(b)
  <2>1. server' \in [Buffers -> Pcs]
    BY <1>8 DEF RenameReport, GoesTo, TypeOK
  <2>2. Serving(b)
    BY <1>8 DEF RenameReport, At, Serving
  <2>3. Uuid(b) \in Sessions /\ tmp[Uuid(b)] \in Files /\ None \in Files
    BY <2>2, JobType DEF TypeOK, Files, None
  <2>4. tmp' \in [Sessions -> Files] /\ reports' \in [Sessions -> Files]
    BY <1>8, <2>3 DEF RenameReport, paths, TypeOK
  <2>5. QED
    BY <1>2, <1>8, <2>1, <2>4 DEF RenameReport, TypeOK, past
<1>9. CASE ReleaseBuffer(b)
  <2>1. server' \in [Buffers -> Pcs] /\ in_use' \in [Buffers -> BOOLEAN]
    BY <1>9 DEF ReleaseBuffer, GoesTo, TypeOK
  <2>2. QED
    BY <1>2, <1>9, <2>1 DEF ReleaseBuffer, TypeOK, paths, past
<1>10. QED
  BY <1>1, <1>3, <1>4, <1>5, <1>6, <1>7, <1>8, <1>9 DEF Serve, OpenNew, OpenAgain

\* The invariant of the service.
Inv == TypeOK /\ ServeInv

LEMMA InitInv == Init => Inv
<1> SUFFICES ASSUME Init PROVE Inv
  OBVIOUS
<1>1. 0 \in Files /\ frames = <<>> /\ Len(frames) = 0
  BY DEF Init, Files
<1>2. 0 \in Buffers
  BY CollectorAssumption DEF CollectorAssumption, Buffers
<1>3. TypeOK
  BY <1>1, <1>2 DEF Init, Booted, TypeOK, None
<1>4. ServeInv
  <2>1. \A b \in Buffers : ~Serving(b) /\ ~in_use[b]
    BY DEF Init, Booted, Serving
  <2>2. ring_pos \in Buffers
    BY <1>2 DEF Init, Booted
  <2>3. QED
    BY <2>1, <2>2 DEF ServeInv, ReadersTurn, Owned, OnePerSession, FilesOwned
<1>5. QED
  BY <1>3, <1>4 DEF Inv

LEMMA ReadInv ==
  ASSUME Inv, NEW u \in Sessions, NEW kind \in Kinds, NEW fresh \in BOOLEAN,
         NEW big \in BOOLEAN, Read(u, kind, fresh, big)
  PROVE  ServeInv'
<1> DEFINE n == Len(frames) + 1
<1> USE DEF Inv
<1>1. /\ frames' \in Seq([u : Sessions, kind : Kinds]) /\ Len(frames') = n
      /\ frames'[n].u = u /\ n \in Nat \ {0}
      /\ \A i \in 1 .. Len(frames) : frames'[i] = frames[i]
  <2>1. /\ frames' = Append(frames, [u |-> u, kind |-> kind])
        /\ [u |-> u, kind |-> kind] \in [u : Sessions, kind : Kinds]
    BY DEF Read
  <2>2. frames \in Seq([u : Sessions, kind : Kinds])
    BY DEF TypeOK
  <2>3. QED
    BY <2>1, <2>2, FramesGrow
<1>2. PICK p \in Buffers : p = ring_pos /\ ~Serving(p)
  BY DEF Read, ServeInv, ReadersTurn, TypeOK
<1>3. \A b \in Buffers : Serving(b) => job[b] \in 1 .. Len(frames) /\ Uuid(b) \in Sessions
  BY JobType DEF ServeInv
<1>4. data' = [data EXCEPT ![p] = n] /\ UNCHANGED <<up, tmp, full, cut>>
  BY <1>2 DEF Read, paths
<1>5. CASE RrlDrops(Count(fresh))
  <2>1. UNCHANGED <<reader, ring_pos, in_use, server, job, overlap>>
    BY <1>5 DEF Read
  <2>2. \A b \in Buffers : (Serving(b)' = Serving(b)) /\ (Serving(b) => Uuid(b)' = Uuid(b))
    BY <1>1, <1>3, <2>1 DEF Serving, Uuid, Session
  <2>3. ReadersTurn'
    BY <1>4, <2>1, <2>2, <1>2 DEF ServeInv, ReadersTurn, Serving
  <2>4. Owned'
    BY <1>2, <1>4, <2>1, <2>2 DEF ServeInv, Owned, TypeOK
  <2>5. OnePerSession'
    BY <2>1, <2>2 DEF ServeInv, OnePerSession
  <2>6. FilesOwned'
    BY <1>4, <2>1, <2>2 DEF ServeInv, FilesOwned, At
  <2>7. QED
    BY <2>3, <2>4, <2>5, <2>6 DEF ServeInv
<1>6. CASE ~RrlDrops(Count(fresh))
  <2>1. /\ in_use' = [in_use EXCEPT ![p] = TRUE]
        /\ server' = [server EXCEPT ![p] = "check"]
        /\ job' = [job EXCEPT ![p] = n]
        /\ overlap' = (IF InService(u) THEN overlap \cup {u} ELSE overlap)
        /\ reader' = "wait"
    BY <1>2, <1>6 DEF Read
  <2>2. Serving(p)' /\ Uuid(p)' = u /\ At(p, "check")'
    <3>1. server'[p] = "check" /\ job'[p] = n
      BY <1>2, <2>1 DEF TypeOK
    <3>2. QED
      BY <1>1, <3>1 DEF Serving, Uuid, Session, At
  <2>3. ASSUME NEW b \in Buffers, b # p
        PROVE  /\ Serving(b)' = Serving(b) /\ (Serving(b) => Uuid(b)' = Uuid(b))
               /\ server'[b] = server[b] /\ job'[b] = job[b]
    BY <1>1, <1>3, <2>1, <2>3 DEF TypeOK, Serving, Uuid, Session
  <2>4. ReadersTurn'
    BY <2>1 DEF ReadersTurn
  <2>5. Owned'
    BY <1>1, <1>2, <1>4, <2>1, <2>2, <2>3 DEF ServeInv, Owned, TypeOK, Serving, None
  <2>6. OnePerSession'
    <3>1. SUFFICES ASSUME NEW b \in Buffers, NEW c \in Buffers, b # c, Serving(b)', Serving(c)',
                          Uuid(b)' = Uuid(c)'
                   PROVE  Uuid(b)' \in overlap'
      BY DEF OnePerSession
    <3>2. CASE b # p /\ c # p
      BY <2>1, <2>3, <3>1, <3>2 DEF ServeInv, OnePerSession
    <3>3. CASE b = p
      BY <2>1, <2>2, <2>3, <3>1, <3>3 DEF InService, Uuid
    <3>4. CASE c = p
      BY <2>1, <2>2, <2>3, <3>1, <3>4 DEF InService, Uuid
    <3>5. QED
      BY <3>2, <3>3, <3>4
  <2>7. FilesOwned'
    <3>1. SUFFICES ASSUME NEW b \in Buffers, Serving(b)', Uuid(b)' \notin overlap'
                   PROVE  (/\ At(b, "write") => tmp[Uuid(b)] = job[b]
                           /\ At(b, "rename") => tmp[Uuid(b)] = job[b] /\ job[b] \in full \cup cut)'
      BY DEF FilesOwned
    <3>2. CASE b = p
      BY <2>2, <3>2 DEF At
    <3>3. CASE b # p
      BY <1>4, <2>1, <2>3, <3>1, <3>3 DEF ServeInv, FilesOwned, At
    <3>4. QED
      BY <3>2, <3>3
  <2>8. QED
    BY <2>4, <2>5, <2>6, <2>7 DEF ServeInv
<1>7. QED
  BY <1>5, <1>6

\* Where a goroutine may go, what it must have found there, and what it leaves
\* alone, unless it panics.
LEMMA ServeStep ==
  ASSUME TypeOK, NEW b \in Buffers, Serve(b), ~Panics, Uuid(b) \in Sessions
  PROVE  /\ UNCHANGED <<up, reader, ring_pos, data, job, frames, torn, overlap>>
         /\ \A c \in Buffers \ {b} : server'[c] = server[c] /\ in_use'[c] = in_use[c]
         /\ \A u \in Sessions \ {Uuid(b)} : tmp'[u] = tmp[u] /\ reports'[u] = reports[u]
         /\ full \subseteq full' /\ cut \subseteq cut'
         /\ IF server[b] = "release" THEN ~in_use'[b] /\ server'[b] = "none"
                                    ELSE in_use'[b] = in_use[b] /\ server'[b] # "none"
         /\ server'[b] = "write" => tmp'[Uuid(b)] = job[b]
         /\ server'[b] = "rename" => server[b] = "write" /\ tmp' = tmp
         /\ server[b] = "write" => job[b] \in full' \cup cut'
         /\ tmp'[Uuid(b)] \in {tmp[Uuid(b)], None} \/ server'[b] = "write"
         /\ reports'[Uuid(b)] \in {reports[Uuid(b)], tmp[Uuid(b)]}
         /\ reports' = reports \/ server[b] = "rename"
<1>1. CASE CheckFrame(b)
  BY <1>1 DEF CheckFrame, GoesTo, DropTo, At, TypeOK, loop, paths, past
<1>2. CASE (At(b, "open") \/ At(b, "reopen")) /\ Create(b)
  BY <1>2 DEF Create, AfterOpen, GoesTo, At, TypeOK, loop, past
<1>3. CASE OpenFails(b)
  BY <1>3 DEF OpenFails, GoesTo, At, TypeOK, loop, paths, past
<1>4. CASE RemoveOld(b)
  <2>1. tmp' = [tmp EXCEPT ![Uuid(b)] = None] \/ tmp' = tmp
    BY <1>4 DEF RemoveOld
  <2>2. QED
    BY <1>4, <2>1 DEF RemoveOld, GoesTo, At, TypeOK, loop, past
<1>5. CASE WriteReport(b)
  BY <1>5 DEF WriteReport, GoesTo, At, TypeOK, loop, paths
<1>6. CASE RenameReport(b)
  BY <1>6 DEF RenameReport, GoesTo, At, TypeOK, loop, paths, past
<1>7. CASE ReleaseBuffer(b)
  BY <1>7 DEF ReleaseBuffer, GoesTo, At, TypeOK, loop, paths, past
<1>8. QED
  BY <1>1, <1>2, <1>3, <1>4, <1>5, <1>6, <1>7 DEF Serve, OpenNew, OpenAgain, CheckPanics, OpenPanics

\* What a goroutine does, it does in service.
LEMMA ServeServes == \A b \in Buffers : Serve(b) => Serving(b)
  BY DEF Serve, CheckFrame, CheckPanics, OpenNew, OpenFails, RemoveOld, OpenAgain, OpenPanics,
         WriteReport, RenameReport, ReleaseBuffer, At, Serving

\* A goroutine that goes on disturbs no other session, and no other goroutine of
\* its own if there is no overlap.
LEMMA ServeKeeps ==
  ASSUME Inv, NEW b \in Buffers, Serve(b)
  PROVE  ServeInv'
<1> USE DEF Inv
<1>1. CASE Panics
  BY <1>1, DownInv DEF Panics
<1>2. \A c \in Buffers : Serving(c) => job[c] \in 1 .. Len(frames) /\ Uuid(c) \in Sessions
  BY JobType DEF ServeInv
<1>3. Serving(b) /\ Uuid(b) \in Sessions
  BY <1>2, ServeServes
<1>4. ASSUME ~Panics
      PROVE  /\ UNCHANGED <<up, reader, ring_pos, data, job, frames, overlap>>
             /\ \A c \in Buffers \ {b} : server'[c] = server[c] /\ in_use'[c] = in_use[c]
             /\ \A u \in Sessions \ {Uuid(b)} : tmp'[u] = tmp[u]
             /\ full \subseteq full' /\ cut \subseteq cut'
             /\ IF server[b] = "release" THEN ~in_use'[b] /\ server'[b] = "none"
                                        ELSE in_use'[b] = in_use[b] /\ server'[b] # "none"
             /\ server'[b] = "write" => tmp'[Uuid(b)] = job[b]
             /\ server'[b] = "rename" => /\ server[b] = "write" /\ tmp' = tmp
                                         /\ job[b] \in full' \cup cut'
  BY <1>3, <1>4, ServeStep
<1>5. CASE ~Panics
  <2>1. \A c \in Buffers : server'[c] # "none" => server[c] # "none"
    BY <1>3, <1>4, <1>5 DEF Serving
  <2>0. UNCHANGED <<reader, ring_pos, job, frames, overlap>> /\ ring_pos \in Buffers
    BY <1>4, <1>5 DEF TypeOK
  <2>2. ReadersTurn'
    BY <2>0, <2>1 DEF ServeInv, ReadersTurn, Serving
  <2>3. Owned'
    BY <1>3, <1>4, <1>5, <2>1 DEF ServeInv, Owned, Serving
  <2>4. OnePerSession'
    BY <2>0, <2>1 DEF ServeInv, OnePerSession, Serving, Uuid, Session
  <2>5. FilesOwned'
    <3>1. SUFFICES ASSUME NEW c \in Buffers, Serving(c)', Uuid(c)' \notin overlap'
                   PROVE  (/\ At(c, "write") => tmp[Uuid(c)] = job[c]
                           /\ At(c, "rename") => tmp[Uuid(c)] = job[c] /\ job[c] \in full \cup cut)'
      BY DEF FilesOwned
    <3>2. CASE c = b
      BY <1>3, <1>4, <1>5, <2>0, <2>1, <3>1, <3>2 DEF ServeInv, FilesOwned, At, Serving, Uuid, Session
    <3>3. CASE c # b
      <4>1. Uuid(c) # Uuid(b) /\ Uuid(c) \in Sessions
        BY <1>2, <1>3, <2>0, <2>1, <3>1, <3>3 DEF ServeInv, OnePerSession, Serving, Uuid, Session
      <4>2. QED
        BY <1>4, <1>5, <2>0, <2>1, <3>1, <3>3, <4>1 DEF ServeInv, FilesOwned, At, Serving, Uuid, Session
    <3>4. QED
      BY <3>2, <3>3
  <2>6. QED
    BY <2>2, <2>3, <2>4, <2>5 DEF ServeInv
<1>6. QED
  BY <1>1, <1>5

LEMMA NextInv == Inv /\ [Next]_vars => Inv'
<1> SUFFICES ASSUME Inv, [Next]_vars PROVE Inv'
  OBVIOUS
<1> USE DEF Inv
<1>1. ASSUME NEW u \in Sessions, NEW kind \in Kinds, NEW fresh \in BOOLEAN, NEW big \in BOOLEAN,
             Read(u, kind, fresh, big)
      PROVE  Inv'
  BY <1>1, ReadType, ReadInv
<1>2. ASSUME NEW b \in Buffers, Serve(b)
      PROVE  Inv'
  BY <1>2, ServeType, ServeKeeps DEF ServeInv
<1>3. ASSUME UNCHANGED <<ring_pos, buffers, tmp, past, count, rrl, f, passed>>,
             reports' \in [Sessions -> Files], reader' \in {"read", "wait"}, up' \in BOOLEAN,
             faults' \in Nat, reader' = "read" => ~Serving(ring_pos)
      PROVE  Inv'
  <2>1. TypeOK'
    BY <1>3 DEF TypeOK, buffers, past, Files
  <2>2. ServeInv'
    BY <1>3 DEF ServeInv, ReadersTurn, Owned, OnePerSession, FilesOwned, Serving, Uuid, Session, At,
                buffers, past
  <2>3. QED
    BY <2>1, <2>2
<1>4. CASE WaitBuffer
  <2>1. ~Serving(ring_pos)
    BY <1>4 DEF WaitBuffer, Released, ServeInv, Owned, TypeOK
  <2>2. QED
    BY <1>3, <1>4, <2>1 DEF WaitBuffer, paths, TypeOK
<1>5. CASE Stop
  <2>1. Down /\ UNCHANGED <<paths, frames, full, cut, overlap>> /\ faults' \in Nat
    BY <1>5 DEF Stop, Fault, TypeOK
  <2>2. TypeOK'
    BY <2>1, DownTypeOK DEF paths
  <2>3. QED
    BY <2>1, <2>2, DownInv
<1>6. CASE StartAgain
  BY <1>3, <1>6 DEF StartAgain, loop, paths, ServeInv, ReadersTurn, TypeOK
<1>7. ASSUME NEW u \in Sessions, Expire(u)
      PROVE  Inv'
  <2>1. None \in Files
    BY DEF None, Files, TypeOK
  <2>2. QED
    BY <1>3, <1>7, <2>1 DEF Expire, loop, ServeInv, ReadersTurn, TypeOK
<1>8. CASE UNCHANGED vars
  BY <1>3, <1>8 DEF vars, loop, paths, ServeInv, ReadersTurn, TypeOK
<1>9. QED
  BY <1>1, <1>2, <1>4, <1>5, <1>6, <1>7, <1>8 DEF Next

\* Every variable of the collector holds a value of its kind.
THEOREM TypeCorrect == Spec => []TypeOK
<1>1. Inv => TypeOK
  BY DEF Inv
<1>2. QED
  BY InitInv, NextInv, <1>1, PTL DEF Spec

\* The invariant of the service: the reader meets no buffer in service, and a
\* goroutine whose session has no other one finds the file it has created.
THEOREM ServeInvCorrect == Spec => []ServeInv
<1>1. Inv => ServeInv
  BY DEF Inv
<1>2. QED
  BY InitInv, NextInv, <1>1, PTL DEF Spec

\* No goroutine ever reads a buffer that was filled again, whatever the size of
\* the ring and however slow the goroutines are.
THEOREM BufferIsOwnCorrect == Spec => []BufferIsOwn
<1>1. Inv => BufferIsOwn
  BY DEF Inv, ServeInv, Owned, BufferIsOwn
<1>2. QED
  BY InitInv, NextInv, <1>1, PTL DEF Spec

\* The reports of a session: what a step of the collector, a kill, a restart or
\* ipaddr-check does leaves them complete, if the session had no overlap.
LEMMA StepConsistent ==
  ASSUME Inv, SpacedConsistent, [Next]_vars
  PROVE  SpacedConsistent'
<1> USE DEF Inv
<1>1. SUFFICES ASSUME NEW u \in Sessions, u \notin overlap' PROVE Consistent(u)'
  BY DEF SpacedConsistent
<1>2. CASE UNCHANGED <<reports, full, cut>> /\ overlap \subseteq overlap'
  BY <1>1, <1>2 DEF SpacedConsistent, Consistent
<1>3. ASSUME NEW v \in Sessions, NEW kind \in Kinds, NEW fresh \in BOOLEAN, NEW big \in BOOLEAN,
             Read(v, kind, fresh, big)
      PROVE  Consistent(u)'
  BY <1>2, <1>3 DEF Read, paths
<1>4. ASSUME NEW b \in Buffers, Serve(b)
      PROVE  Consistent(u)'
  <2>1. CASE CheckFrame(b) \/ OpenNew(b) \/ OpenFails(b) \/ RemoveOld(b) \/ OpenAgain(b) \/ ReleaseBuffer(b)
    BY <1>2, <2>1 DEF CheckFrame, OpenNew, OpenFails, RemoveOld, OpenAgain, ReleaseBuffer, Create, paths, past
  <2>2. CASE CheckPanics(b) \/ OpenPanics(b)
    BY <1>2, <2>2 DEF CheckPanics, OpenPanics, Panics, paths
  <2>3. CASE WriteReport(b)
    BY <1>1, <2>3 DEF WriteReport, paths, SpacedConsistent, Consistent
  <2>4. CASE RenameReport(b)
    <3>1. Serving(b) /\ At(b, "rename") /\ UNCHANGED <<full, cut, overlap>>
      BY <2>4 DEF RenameReport, At, Serving, past
    <3>2. Consistent(u)
      BY <1>1, <3>1 DEF SpacedConsistent
    <3>3. CASE u # Uuid(b)
      <4>1. reports'[u] = reports[u]
        BY <2>4, <3>3 DEF RenameReport, paths, TypeOK
      <4>2. QED
        BY <3>1, <3>2, <4>1 DEF Consistent
    <3>4. CASE u = Uuid(b)
      <4>1. tmp[u] \in full \cup cut
        BY <1>1, <3>1, <3>4 DEF ServeInv, FilesOwned
      <4>2. reports'[u] \in {tmp[u], reports[u]}
        BY <2>4, <3>4 DEF RenameReport, paths, TypeOK
      <4>3. QED
        BY <3>1, <3>2, <4>1, <4>2 DEF Consistent
    <3>5. QED
      BY <3>3, <3>4
  <2>5. QED
    BY <1>4, <2>1, <2>2, <2>3, <2>4 DEF Serve
<1>5. CASE WaitBuffer \/ Stop \/ StartAgain \/ UNCHANGED vars
  BY <1>2, <1>5 DEF WaitBuffer, Stop, StartAgain, paths, past, vars
<1>6. ASSUME NEW v \in Sessions, Expire(v)
      PROVE  Consistent(u)'
  BY <1>1, <1>6 DEF Expire, past, SpacedConsistent, Consistent, TypeOK
<1>7. QED
  BY <1>3, <1>4, <1>5, <1>6 DEF Next

\* Every report ipaddr-check can find of a session whose datagrams were never in
\* service two at a time is complete, unless the file system refused a write.
THEOREM SpacedConsistentCorrect == Spec => []SpacedConsistent
<1>1. Init => SpacedConsistent
  BY DEF Init, SpacedConsistent, Consistent
<1>2. Inv /\ SpacedConsistent /\ [Next]_vars => SpacedConsistent'
  BY StepConsistent
<1>3. QED
  BY InitInv, NextInv, <1>1, <1>2, PTL DEF Spec

\* A file that is complete, being written or lost stays so: who writes one
\* completes it, or a panic or a kill takes his goroutine.
LEMMA StaysAccounted ==
  ASSUME Inv, [Next]_vars, NEW n, Accounted(n)
  PROVE  Accounted(n)'
<1> USE DEF Inv
<1>1. CASE UNCHANGED <<server, job, full, cut, torn>>
  BY <1>1 DEF Accounted, Writing, At
<1>2. CASE Down /\ UNCHANGED <<full, cut>>
  BY <1>2 DEF Down, Accounted, Writing
<1>3. ASSUME NEW v \in Sessions, NEW kind \in Kinds, NEW fresh \in BOOLEAN, NEW big \in BOOLEAN,
             Read(v, kind, fresh, big)
      PROVE  Accounted(n)'
  <2>1. /\ UNCHANGED <<full, cut, torn>> /\ ~Serving(ring_pos)
        /\ \A b \in Buffers \ {ring_pos} : server'[b] = server[b] /\ job'[b] = job[b]
    BY <1>3 DEF Read, ServeInv, ReadersTurn, TypeOK
  <2>2. QED
    BY <2>1 DEF Accounted, Writing, At, Serving
<1>4. ASSUME NEW b \in Buffers, Serve(b), ~Panics
      PROVE  Accounted(n)'
  <2>1. Uuid(b) \in Sessions
    BY <1>4, ServeServes, JobType DEF ServeInv
  <2>2. /\ UNCHANGED <<job, torn>> /\ full \subseteq full' /\ cut \subseteq cut'
        /\ \A c \in Buffers \ {b} : server'[c] = server[c]
        /\ server[b] = "write" => job[b] \in full' \cup cut'
    BY <1>4, <2>1, ServeStep
  <2>3. QED
    BY <2>2 DEF Accounted, Writing, At
<1>5. CASE WaitBuffer \/ StartAgain \/ UNCHANGED vars \/ \E u \in Sessions : Expire(u)
  BY <1>1, <1>5 DEF WaitBuffer, StartAgain, Expire, buffers, past, vars
<1>6. QED
  BY <1>2, <1>3, <1>4, <1>5 DEF Next, Stop, Panics

LEMMA StepAccounted ==
  ASSUME Inv, FilesAccounted, [Next]_vars
  PROVE  FilesAccounted'
<1> USE DEF Inv
<1>1. SUFFICES ASSUME NEW u \in Sessions
               PROVE  Accounted(tmp[u])' /\ Accounted(reports[u])'
  BY DEF FilesAccounted
<1>2. Accounted(tmp[u]) /\ Accounted(reports[u]) /\ Accounted(None)
  BY DEF FilesAccounted, Accounted
<1>3. ASSUME tmp'[u] \in {tmp[u], None}, reports'[u] \in {reports[u], tmp[u], None}
      PROVE  Accounted(tmp[u])' /\ Accounted(reports[u])'
  <2>1. \A n \in {tmp[u], reports[u], None} : Accounted(n)
    BY <1>2
  <2>2. ASSUME NEW n \in {tmp[u], reports[u], None}
        PROVE  n \in full' \cup cut' \cup torn' \cup {None} \/ \E b \in Buffers : At(b, "write")' /\ job'[b] = n
    BY <2>1, StaysAccounted DEF Accounted, Writing
  <2>3. QED
    BY <1>3, <2>2 DEF Accounted, Writing
<1>4. ASSUME NEW b \in Buffers, Serve(b), ~Panics
      PROVE  Accounted(tmp[u])' /\ Accounted(reports[u])'
  <2>1. Uuid(b) \in Sessions
    BY <1>4, ServeServes, JobType DEF ServeInv
  <2>2. CASE u # Uuid(b) \/ tmp'[u] \in {tmp[u], None}
    BY <1>3, <1>4, <2>1, <2>2, ServeStep
  <2>3. CASE u = Uuid(b) /\ server'[b] = "write"
    <3>1. tmp'[u] = job[b] /\ job' = job /\ reports'[u] \in {reports[u], tmp[u]}
      BY <1>4, <2>1, <2>3, ServeStep
    <3>2. Accounted(tmp[u])'
      BY <2>3, <3>1 DEF Accounted, Writing, At
    <3>3. ASSUME NEW n \in {tmp[u], reports[u]}
          PROVE  n \in full' \cup cut' \cup torn' \cup {None} \/ \E c \in Buffers : At(c, "write")' /\ job'[c] = n
      BY <1>2, StaysAccounted DEF Accounted, Writing
    <3>4. Accounted(reports[u])'
      BY <3>1, <3>3 DEF Accounted, Writing
    <3>5. QED
      BY <3>2, <3>4
  <2>4. QED
    BY <1>4, <2>1, <2>2, <2>3, ServeStep
<1>5. ASSUME NEW v \in Sessions, NEW kind \in Kinds, NEW fresh \in BOOLEAN, NEW big \in BOOLEAN,
             Read(v, kind, fresh, big)
      PROVE  Accounted(tmp[u])' /\ Accounted(reports[u])'
  BY <1>3, <1>5 DEF Read, paths
<1>6. CASE Panics \/ Stop \/ WaitBuffer \/ StartAgain \/ UNCHANGED vars
  BY <1>3, <1>6 DEF Panics, Stop, WaitBuffer, StartAgain, paths, vars
<1>7. ASSUME NEW v \in Sessions, Expire(v)
      PROVE  Accounted(tmp[u])' /\ Accounted(reports[u])'
  BY <1>3, <1>7 DEF Expire, TypeOK
<1>8. QED
  BY <1>4, <1>5, <1>6, <1>7 DEF Next

\* What ipaddr-check can find is complete, also of a session whose goroutines have
\* removed and renamed each other's files, unless the file system refused a write,
\* or the one who writes it is still at it or was lost at it to a panic or a kill.
THEOREM ReportsConsistentCorrect == Spec => []ReportsConsistent
<1>1. Init => FilesAccounted /\ SpacedConsistent
  BY DEF Init, FilesAccounted, Accounted, SpacedConsistent, Consistent
<1>2. Inv /\ FilesAccounted /\ SpacedConsistent /\ [Next]_vars => FilesAccounted' /\ SpacedConsistent'
  BY StepAccounted, StepConsistent
<1>3. Inv /\ FilesAccounted /\ SpacedConsistent => ReportsConsistent
  BY DEF Inv, TypeOK, FilesAccounted, Accounted, ReportsConsistent, Consistent
<1>4. QED
  BY InitInv, NextInv, <1>1, <1>2, <1>3, PTL DEF Spec

----------------------------------------------------------------------------
(* The limit of the rate: arithmetic of the remainder, and the window. *)

\* Quotient and remainder.
LEMMA DivMod == ASSUME NEW F \in Nat \ {0}, NEW c \in Nat 
  PROVE c \div F \in Int /\ c % F \in 0 .. F - 1 /\ c = F * (c \div F) + (c % F)
  BY Z3

\* Nothing but 0 has a multiple closer to 0 than the factor.
LEMMA Between == ASSUME NEW F \in Nat \ {0}, NEW a \in Int, F * a < F, F * a > 0 - F PROVE a = 0
<1>1. CASE a >= 1
  <2>1. F * a >= F BY <1>1, Z3
  <2> QED BY <2>1
<1>2. CASE a <= 0 - 1
  <2>1. F * a <= 0 - F BY <1>2, Z3
  <2> QED BY <2>1
<1> QED BY <1>1, <1>2

\* The remainder is the only one.
LEMMA ModIs == ASSUME NEW F \in Nat \ {0}, NEW c \in Nat, NEW q \in Int, NEW r \in 0 .. F - 1, c = F * q + r
  PROVE c % F = r
<1>1. /\ c \div F \in Int /\ c % F \in 0 .. F - 1 /\ c = F * (c \div F) + (c % F)
  BY DivMod
<1> DEFINE d == (c \div F) - q
<1>2. F * d = r - (c % F) /\ d \in Int
  BY <1>1, Z3
<1>3. F * d < F /\ F * d > 0 - F
  BY <1>1, <1>2
<1>4. d = 0
  <2> HIDE DEF d
  <2> QED BY <1>2, <1>3, Between
<1>5. QED BY <1>1, <1>2, <1>4

\* The remainder of the next number.
LEMMA ModNext == ASSUME NEW F \in Nat \ {0}, NEW c \in Nat
  PROVE (c + 1) % F = IF c % F = F - 1 THEN 0 ELSE (c % F) + 1
<1>1. /\ c \div F \in Int /\ c % F \in 0 .. F - 1 /\ c = F * (c \div F) + (c % F)
  BY DivMod
<1>2. CASE c % F = F - 1
  <2>1. c + 1 = F * (c \div F + 1) + 0
    BY <1>1, <1>2, Z3
  <2>2. c + 1 \in Nat /\ c \div F + 1 \in Int /\ 0 \in 0 .. F - 1
    BY <1>1
  <2>3. (c + 1) % F = 0
    BY <2>1, <2>2, ModIs, Zenon
  <2>4. QED BY <1>2, <2>3
<1>3. CASE c % F # F - 1
  <2>1. c + 1 = F * (c \div F) + ((c % F) + 1) /\ (c % F) + 1 \in 0 .. F - 1
    BY <1>1, <1>3, Z3
  <2>2. c + 1 \in Nat
    OBVIOUS
  <2>3. (c + 1) % F = (c % F) + 1
    BY <1>1, <2>1, <2>2, ModIs, Zenon
  <2>4. QED BY <1>3, <2>3
<1>4. QED BY <1>2, <1>3

LEMMA NextMultiple ==
  ASSUME NEW T \in Int, NEW F \in Nat \ {0}, NEW p \in Nat
  PROVE  /\ (p + 1 - T) * F = (p - T) * F + F /\ (p - T) * F \in Int
         /\ p <= T => (p - T) * F <= 0
<1>1. (p + 1 - T) * F = (p - T) * F + F /\ (p - T) * F \in Int
  OBVIOUS
<1>2. p <= T => (p - T) * F <= 0
  BY Z3
<1>3. QED
  BY <1>1, <1>2

\* The count reaches the next multiple of the factor when the remainder is 0.
LEMMA ReachedNext ==
  ASSUME NEW c \in Nat
  PROVE  /\ Reached(c) \in Int /\ Reached(c) <= c /\ Reached(c) > c - RRL_FACTOR
         /\ Reached(c + 1) = IF (c + 1) % RRL_FACTOR = 0 THEN Reached(c) + RRL_FACTOR ELSE Reached(c)
<1>1. RRL_FACTOR \in Nat \ {0}
  BY CollectorAssumption DEF CollectorAssumption
<1>2. c % RRL_FACTOR \in 0 .. RRL_FACTOR - 1
  BY <1>1, DivMod
<1>3. (c + 1) % RRL_FACTOR =
        IF c % RRL_FACTOR = RRL_FACTOR - 1 THEN 0 ELSE (c % RRL_FACTOR) + 1
  BY <1>1, ModNext
<1>4. QED
  <2> DEFINE r == c % RRL_FACTOR  s == (c + 1) % RRL_FACTOR
  <2>1. Reached(c) = c - r /\ Reached(c + 1) = (c + 1) - s
    BY DEF Reached
  <2>2. r \in 0 .. RRL_FACTOR - 1 /\ s = IF r = RRL_FACTOR - 1 THEN 0 ELSE r + 1
    BY <1>2, <1>3
  <2>3. SUFFICES /\ c - r \in Int /\ c - r <= c /\ c - r > c - RRL_FACTOR
                 /\ (c + 1) - s = IF s = 0 THEN (c - r) + RRL_FACTOR ELSE c - r
    BY <2>1
  <2> HIDE DEF r, s
  <2>4. QED
    BY <1>1, <2>2

\* One more datagram in a window, dropped as RrlDrops says.
LEMMA WindowStep ==
  ASSUME TypeOK, RrlInv, count' = count + 1,
         passed' = IF RrlDrops(count + 1) THEN passed ELSE passed + 1
  PROVE  RrlInv'
<1> DEFINE T == RRL_THRESHOLD  F == RRL_FACTOR
<1>1. T \in Nat \ {0} /\ F \in Nat \ {0} /\ count \in Nat /\ passed \in Nat
  BY CollectorAssumption DEF CollectorAssumption, TypeOK
<1>2. /\ Reached(count) \in Int /\ Reached(T) \in Int
      /\ Reached(count + 1) = IF (count + 1) % F = 0 THEN Reached(count) + F ELSE Reached(count)
  BY <1>1, ReachedNext
<1>3. /\ (passed + 1 - T) * F = (passed - T) * F + F /\ (passed - T) * F \in Int
      /\ passed <= T => (passed - T) * F <= 0
  BY <1>1, NextMultiple
<1>4. (count + 1 <= T \/ count = T \/ count > T) /\ Reached(count)' = Reached(count + 1)
  BY <1>1 DEF Reached
<1>5. CASE count + 1 <= T
  <2>1. passed' = passed + 1 /\ passed <= count
    BY <1>1, <1>5 DEF RrlDrops, RrlInv
  <2>2. QED
    BY <1>1, <1>5, <2>1 DEF RrlInv
<1>6. CASE count >= T
  <2>1. (passed - T) * F <= Reached(count) - Reached(T)
    <3>1. CASE count = T
      BY <1>1, <1>2, <1>3, <3>1 DEF RrlInv
    <3>2. CASE count > T
      BY <3>2 DEF RrlInv
    <3>3. QED
      BY <1>1, <1>6, <3>1, <3>2
  <2>2. (passed' - T) * F <= Reached(count + 1) - Reached(T)
    <3>1. CASE (count + 1) % F = 0
      <4>1. passed' = passed + 1
        BY <3>1 DEF RrlDrops
      <4>2. Reached(count + 1) = Reached(count) + F
        BY <1>2, <3>1
      <4>3. (passed' - T) * F = (passed - T) * F + F
        <5>1. passed' - T = passed + 1 - T
          BY <1>1, <4>1
        <5>2. QED
          BY <1>3, <5>1, Zenon
      <4>4. QED
        BY <1>1, <1>2, <1>3, <2>1, <4>2, <4>3
    <3>2. CASE (count + 1) % F # 0
      <4>1. passed' = passed
        BY <1>1, <1>6, <3>2 DEF RrlDrops
      <4>2. QED
        BY <1>2, <2>1, <3>2, <4>1
    <3>3. QED
      BY <3>1, <3>2
  <2>3. count' > T
    BY <1>1, <1>6
  <2>4. QED
    <3>1. count' \in Nat /\ ~(count' <= T)
      BY <1>1, <2>3
    <3>2. Reached(T)' = Reached(T)
      BY DEF Reached
    <3>3. QED
      BY <1>4, <2>2, <3>1, <3>2 DEF RrlInv
<1>7. QED
  BY <1>1, <1>5, <1>6

LEMMA StepRrl ==
  ASSUME Inv, RrlInv, [Next]_vars
  PROVE  RrlInv'
<1>1. TypeOK /\ RRL_THRESHOLD \in Nat \ {0}
  BY CollectorAssumption DEF CollectorAssumption, Inv
<1>2. CASE UNCHANGED <<count, passed>>
  BY <1>2 DEF RrlInv, Reached
<1>3. CASE count' \in {0, 1} /\ passed' = count'
  BY <1>1, <1>3 DEF RrlInv
<1>4. ASSUME NEW v \in Sessions, NEW kind \in Kinds, NEW fresh \in BOOLEAN, NEW big \in BOOLEAN,
             Read(v, kind, fresh, big)
      PROVE  RrlInv'
  <2>1. CASE fresh
    <3>1. ~RrlDrops(1) /\ Count(fresh) = 1
      BY <1>1, <2>1 DEF RrlDrops, Count
    <3>2. QED
      BY <1>3, <1>4, <2>1, <3>1 DEF Read
  <2>2. CASE ~fresh
    <3>1. count' = count + 1 /\ passed' = IF RrlDrops(count + 1) THEN passed ELSE passed + 1
      BY <1>4, <2>2 DEF Read, Count
    <3>2. QED
      BY <1>1, <3>1, WindowStep
  <2>3. QED
    BY <2>1, <2>2
<1>5. CASE Down
  BY <1>3, <1>5 DEF Down
<1>6. ASSUME NEW b \in Buffers, Serve(b)
      PROVE  RrlInv'
  BY <1>2, <1>5, <1>6 DEF Serve, CheckFrame, CheckPanics, Panics, OpenNew, OpenFails, RemoveOld, OpenAgain, OpenPanics,
     ReleaseBuffer, WriteReport, RenameReport, Create, loop
<1>7. CASE WaitBuffer \/ Stop \/ StartAgain \/ UNCHANGED vars
  BY <1>2, <1>5, <1>7 DEF WaitBuffer, Stop, StartAgain, loop, vars
<1>8. ASSUME NEW v \in Sessions, Expire(v)
      PROVE  RrlInv'
  BY <1>2, <1>8 DEF Expire, loop
<1>9. QED
  BY <1>4, <1>6, <1>7, <1>8 DEF Next

\* Once the threshold of a window is passed, at most one datagram of RRL_FACTOR
\* gets through, whatever the threshold, the factor and the traffic.
THEOREM RrlBoundCorrect == Spec => []RrlBound
<1>1. Init => RrlInv
  BY CollectorAssumption DEF CollectorAssumption, Init, Booted, RrlInv
<1>2. Inv /\ RrlInv /\ [Next]_vars => RrlInv'
  BY StepRrl
<1>3. Inv /\ RrlInv => RrlBound
  <2>1. /\ Inv => count \in Nat /\ passed \in Nat
        /\ RRL_THRESHOLD \in Nat \ {0} /\ RRL_FACTOR \in Nat \ {0}
    BY CollectorAssumption DEF CollectorAssumption, Inv, TypeOK
  <2>2. /\ Inv => Reached(count) \in Int /\ Reached(count) <= count
        /\ Reached(RRL_THRESHOLD) \in Int /\ Reached(RRL_THRESHOLD) > RRL_THRESHOLD - RRL_FACTOR
    BY <2>1, ReachedNext
  <2>3. Inv => (passed - RRL_THRESHOLD) * RRL_FACTOR \in Int
    BY <2>1, NextMultiple
  <2>4. QED
    BY <2>1, <2>2, <2>3 DEF RrlInv, RrlBound
<1>4. QED
  BY InitInv, NextInv, <1>1, <1>2, <1>3, PTL DEF Spec

=============================================================================
