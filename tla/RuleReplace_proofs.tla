------------------------- MODULE RuleReplace_proofs -------------------------
(***************************************************************************)
(* Proofs about replacing a rule: types, for any runs and faults, and that *)
(* no group is lost (KeptIfAnswered).  The latter is not inductive: what a *)
(* request does to the server is right because of what the run has read    *)
(* and done before.  SafeInv says, step by step of a run, what that is     *)
(* (Phase), and that no other run comes between.                           *)
(***************************************************************************)
EXTENDS RuleReplace, TLAPS

----------------------------------------------------------------------------
(* Types.  RunsOK says of the variables of a run what TypeOK says, and     *)
(* what its list of things to do is made of.                               *)

Names      == OldDirs \cup UNION Versions
DirRecords == [name : Names, lvl : Nat]
RunRecords ==
  [pc : Steps, found : BOOLEAN, old : Ids \cup {NoRule}, new : Ids \cup {NoRule}, del : Ids \cup {NoRule},
   todo : SUBSET (DirIds \cup DirRecords), made : SUBSET DirIds, nocopy : BOOLEAN,
   r1 : RuleRecords, r2 : RuleRecords]

RulesOK == ids \in Nat /\ DOMAIN rules \subseteq Ids /\ \A k \in DOMAIN rules : rules[k] \in RuleRecords
DirsOK  == DOMAIN dirs \subseteq DirIds /\ \A k \in DOMAIN dirs : dirs[k] \in DirRecords /\ dirs[k].name = k[1]
RunsOK  == /\ run \in [Runs -> RunRecords]
           /\ \A r \in Runs : run[r].pc = "copydirs" => run[r].todo \subseteq DirRecords
FlagsOK == src \in Versions /\ broken \in BOOLEAN /\ overlap \in BOOLEAN

TypeInv == RulesOK /\ DirsOK /\ RunsOK /\ FlagsOK

\* What is typed stays typed when an id is given.
LEMMA IdsGrow ==
  ASSUME ids \in Nat, ids' = ids \/ ids' = ids + 1
  PROVE  /\ Ids \subseteq Ids' /\ DirIds \subseteq DirIds'
         /\ RuleRecords \subseteq RuleRecords' /\ RunRecords \subseteq RunRecords'
<1>1. Ids \subseteq Ids'
  BY DEF Ids
<1>2. DirIds \subseteq DirIds'
  BY DEF DirIds
<1>3. RuleRecords \subseteq RuleRecords'
  BY <1>2 DEF RuleRecords
<1>4. RunRecords \subseteq RunRecords'
  BY <1>1, <1>2, <1>3 DEF RunRecords
<1> QED
  BY <1>1, <1>2, <1>3, <1>4

LEMMA BlankTyped == Blank \in RuleRecords
  BY DEF Blank, RuleRecords

LEMMA IdleTyped == Idle \in RunRecords
  BY BlankTyped DEF Idle, RunRecords, Steps

\* Find gives a rule of that level, or none if there is none.
LEMMA FindProperties ==
  ASSUME RulesOK, NEW lvl \in Nat
  PROVE  /\ Find(lvl) # NoRule => Find(lvl) \in DOMAIN rules /\ rules[Find(lvl)].lvl = lvl
         /\ Find(lvl) = NoRule => \A k \in DOMAIN rules : rules[k].lvl # lvl
         /\ Find(lvl) \in Ids \cup {NoRule}
<1> DEFINE s == {k \in DOMAIN rules : rules[k].lvl = lvl}
<1>1. CASE s = {}
  BY <1>1 DEF Find
<1>2. CASE s # {}
  <2>1. Find(lvl) \in s
    <3>1. PICK k \in s : TRUE
      BY <1>2
    <3>2. Find(lvl) = CHOOSE i \in s : TRUE
      BY <1>2 DEF Find
    <3> QED
      BY <3>1, <3>2
  <2>2. 0 \notin DOMAIN rules
    BY DEF RulesOK, Ids
  <2> QED
    BY <2>1, <2>2 DEF NoRule, RulesOK
<1> QED
  BY <1>1, <1>2

\* A record of a run that is typed.
Fits(t) == t \in RunRecords /\ (t.pc = "copydirs" => t.todo \subseteq DirRecords)

LEMMA RunFits == ASSUME RunsOK, NEW r \in Runs PROVE Fits(run[r])
  BY DEF RunsOK, Fits

LEMMA ToFits == ASSUME RunsOK, NEW r \in Runs, NEW pc \in Steps, pc # "copydirs" PROVE Fits(To(r, pc))
  BY DEF RunsOK, Fits, To, RunRecords

LEMMA IdleFits == Fits(Idle)
  BY IdleTyped DEF Fits, Idle

LEMMA AbortFits == ASSUME RunsOK, NEW r \in Runs PROVE Fits(Abort(r))
  BY ToFits DEF Abort, Steps

\* A step of a run, with the server's part of it.
LEMMA StepTyped ==
  ASSUME TypeInv, NEW r \in Runs, NEW t, Fits(t)', Go(r, t), RulesOK', DirsOK',
         ids' = ids \/ ids' = ids + 1, src' = src, broken' \in BOOLEAN, overlap' \in BOOLEAN
  PROVE  TypeInv'
<1>1. RunRecords \subseteq RunRecords'
  BY IdsGrow DEF TypeInv, RulesOK
<1>2. RunsOK'
  BY <1>1 DEF TypeInv, RunsOK, Fits, Go
<1> QED
  BY <1>2 DEF TypeInv, FlagsOK

\* A step that leaves the server alone.
LEMMA QuietTyped ==
  ASSUME TypeInv, NEW r \in Runs, NEW t, Fits(t), Go(r, t), UNCHANGED server, src' = src,
         broken' \in BOOLEAN, overlap' \in BOOLEAN
  PROVE  TypeInv'
<1>1. ids' = ids /\ rules' = rules /\ dirs' = dirs
  BY DEF server
<1>2. RuleRecords' = RuleRecords /\ RunRecords' = RunRecords /\ Ids' = Ids /\ DirIds' = DirIds
  BY <1>1 DEF RuleRecords, RunRecords, Ids, DirIds
<1>3. RulesOK' /\ DirsOK' /\ Fits(t)'
  BY <1>1, <1>2 DEF TypeInv, RulesOK, DirsOK, Fits
<1> QED
  BY <1>1, <1>3, StepTyped

\* What the server does with a request.
LEMMA RulePostedTyped ==
  ASSUME TypeInv, NEW k \in DOMAIN rules, NEW rule \in RuleRecords, Becomes(RulePosted(k, rule))
  PROVE  RulesOK' /\ DirsOK' /\ ids' = ids
<1>1. ids' = ids /\ rules' = [rules EXCEPT ![k] = rule] /\ dirs' = dirs
  BY DEF Becomes, RulePosted
<1>2. RuleRecords' = RuleRecords /\ Ids' = Ids /\ DirIds' = DirIds
  BY <1>1 DEF RuleRecords, Ids, DirIds
<1> QED
  BY <1>1, <1>2 DEF TypeInv, RulesOK, DirsOK

LEMMA DirPostedTyped ==
  ASSUME TypeInv, NEW k \in DOMAIN dirs, NEW d \in DirRecords, d.name = dirs[k].name, Becomes(DirPosted(k, d))
  PROVE  RulesOK' /\ DirsOK' /\ ids' = ids
<1>1. ids' = ids /\ rules' = rules /\ dirs' = [dirs EXCEPT ![k] = d]
  BY DEF Becomes, DirPosted
<1>2. RuleRecords' = RuleRecords /\ Ids' = Ids /\ DirIds' = DirIds
  BY <1>1 DEF RuleRecords, Ids, DirIds
<1> QED
  BY <1>1, <1>2 DEF TypeInv, RulesOK, DirsOK

LEMMA RulePutTyped ==
  ASSUME TypeInv, NEW rule \in RuleRecords, Becomes(RulePut(rule))
  PROVE  RulesOK' /\ DirsOK' /\ ids' = ids + 1
<1>1. ids' = ids + 1 /\ dirs' = dirs
      /\ rules' = [j \in DOMAIN rules \cup {ids + 1} |-> IF j = ids + 1 THEN rule ELSE rules[j]]
  BY DEF Becomes, RulePut, Added
<1>2. /\ Ids \subseteq Ids' /\ DirIds \subseteq DirIds' /\ RuleRecords \subseteq RuleRecords'
  BY <1>1, IdsGrow DEF TypeInv, RulesOK
<1>3. ids + 1 \in Ids'
  BY <1>1 DEF TypeInv, RulesOK, Ids
<1> QED
  BY <1>1, <1>2, <1>3 DEF TypeInv, RulesOK, DirsOK

LEMMA DirPutTyped ==
  ASSUME TypeInv, NEW d \in DirRecords, Becomes(DirPut(d))
  PROVE  RulesOK' /\ DirsOK' /\ ids' = ids + 1 /\ NewDir(d) \in DirIds'
<1> DEFINE k == NewDir(d)
<1>1. ids' = ids + 1 /\ rules' = rules
      /\ dirs' = [j \in DOMAIN dirs \cup {k} |-> IF j = k THEN d ELSE dirs[j]]
  BY DEF Becomes, DirPut, Added
<1>2. /\ Ids \subseteq Ids' /\ DirIds \subseteq DirIds' /\ RuleRecords \subseteq RuleRecords'
  BY <1>1, IdsGrow DEF TypeInv, RulesOK
<1>3. k \in DirIds' /\ k[1] = d.name
  BY <1>1 DEF TypeInv, RulesOK, DirIds, DirRecords, Names, NewDir
<1> QED
  BY <1>1, <1>2, <1>3 DEF TypeInv, RulesOK, DirsOK

LEMMA RuleDeletedTyped ==
  ASSUME TypeInv, NEW k, Becomes(RuleDeleted(k))
  PROVE  RulesOK' /\ DirsOK' /\ ids' = ids
<1>1. ids' = ids /\ dirs' = dirs /\ rules' = [j \in DOMAIN rules \ {k} |-> rules[j]]
  BY DEF Becomes, RuleDeleted, Restrict
<1>2. RuleRecords' = RuleRecords /\ Ids' = Ids /\ DirIds' = DirIds
  BY <1>1 DEF RuleRecords, Ids, DirIds
<1> QED
  BY <1>1, <1>2 DEF TypeInv, RulesOK, DirsOK

LEMMA DirDeletedTyped ==
  ASSUME TypeInv, NEW k, Becomes(DirDeleted(k))
  PROVE  RulesOK' /\ DirsOK' /\ ids' = ids
<1>1. ids' = ids /\ dirs' = [j \in DOMAIN dirs \ {k} |-> dirs[j]]
      /\ rules' = [j \in DOMAIN rules |-> [rules[j] EXCEPT !.dirs = @ \ {k}]]
  BY DEF Becomes, DirDeleted, Restrict
<1>2. RuleRecords' = RuleRecords /\ Ids' = Ids /\ DirIds' = DirIds
  BY <1>1 DEF RuleRecords, Ids, DirIds
<1>3. ASSUME NEW j \in DOMAIN rules PROVE [rules[j] EXCEPT !.dirs = @ \ {k}] \in RuleRecords
  BY DEF TypeInv, RulesOK, RuleRecords
<1> QED
  BY <1>1, <1>2, <1>3 DEF TypeInv, RulesOK, DirsOK

----------------------------------------------------------------------------
(* Each call keeps the types. *)

LEMMA FindTyped == ASSUME RulesOK, NEW lvl \in Nat PROVE Find(lvl) \in Ids \cup {NoRule}
  BY FindProperties

LEMMA ReadTyped == ASSUME TypeInv, NEW k \in DOMAIN rules PROVE rules[k] \in RuleRecords
  BY DEF TypeInv, RulesOK

LEMMA StartTyped == ASSUME TypeInv, NEW r \in Runs, Start(r) PROVE TypeInv'
<1>1. PICK t : Go(r, t) /\ \/ t = [Idle EXCEPT !.pc = "srcinfo"]
                           \/ \E nocopy \in BOOLEAN : t = [Idle EXCEPT !.pc = "srcinfo", !.old = Find(1), !.nocopy = nocopy]
  BY DEF Start
<1>2. Fits(t)
  <2>1. Find(1) \in Ids \cup {NoRule}
    BY FindTyped DEF TypeInv
  <2>2. CASE t = [Idle EXCEPT !.pc = "srcinfo"]
    BY <2>2, IdleTyped DEF Fits, RunRecords, Steps
  <2>3. ASSUME NEW nocopy \in BOOLEAN, t = [Idle EXCEPT !.pc = "srcinfo", !.old = Find(1), !.nocopy = nocopy]
        PROVE  Fits(t)
    BY <2>1, <2>3, IdleTyped DEF Fits, RunRecords, Steps
  <2> QED
    BY <1>1, <2>2, <2>3
<1>3. UNCHANGED server /\ src' = src /\ broken' \in BOOLEAN /\ overlap' \in BOOLEAN
  BY DEF Start, TypeInv, FlagsOK
<1> QED
  BY <1>1, <1>2, <1>3, QuietTyped

LEMMA KillTyped == ASSUME TypeInv, NEW r \in Runs, Kill(r) PROVE TypeInv'
  BY IdleFits, QuietTyped DEF Kill, TypeInv, FlagsOK

LEMMA ReadingTyped ==
  ASSUME TypeInv, NEW r \in Runs, SrcInfo(r) \/ OldInfo(r) \/ NewInfo(r) \/ DelInfo(r)
  PROVE  TypeInv'
<1>1. UNCHANGED server /\ src' = src /\ broken' \in BOOLEAN /\ overlap' \in BOOLEAN
  BY DEF SrcInfo, OldInfo, NewInfo, DelInfo, Get, NoFault, Fault, TypeInv, FlagsOK
<1>2. RunsOK /\ RulesOK
  BY DEF TypeInv
<1>3. \E t : Go(r, t) /\ Fits(t)
  <2>1. CASE SrcInfo(r)
    <3> DEFINE next == IF run[r].old = NoRule THEN "oldinfo" ELSE IF run[r].nocopy THEN "newinfo" ELSE "copyget"
    <3>1. next \in Steps /\ next # "copydirs"
      BY DEF Steps
    <3>2. Fits(To(r, next)) /\ Fits([To(r, next) EXCEPT !.found = TRUE])
      <4> HIDE DEF next
      <4>1. Fits(To(r, next))
        BY <1>2, <3>1, ToFits
      <4> QED
        BY <3>1, <4>1 DEF Fits, RunRecords, To
    <3>3. Go(r, To(r, next)) \/ Go(r, [To(r, next) EXCEPT !.found = TRUE])
      BY <2>1 DEF SrcInfo, Get
    <3> QED
      BY <3>2, <3>3
  <2>2. CASE OldInfo(r)
    <3>1. Fits([To(r, "rnget") EXCEPT !.old = Find(0)]) /\ Fits(Abort(r))
      BY <1>2, ToFits, AbortFits, FindTyped DEF Fits, RunRecords, Steps
    <3>2. Go(r, [To(r, "rnget") EXCEPT !.old = Find(0)]) \/ Go(r, Abort(r))
      BY <2>2 DEF OldInfo, Get
    <3> QED
      BY <3>1, <3>2
  <2>3. CASE NewInfo(r)
    <3>1. Fits([To(r, MoveStart) EXCEPT !.new = Find(0)]) /\ Fits(Abort(r))
      BY <1>2, ToFits, AbortFits, FindTyped DEF Fits, RunRecords, Steps, MoveStart
    <3>2. Go(r, [To(r, MoveStart) EXCEPT !.new = Find(0)]) \/ Go(r, Abort(r))
      BY <2>3 DEF NewInfo, Get
    <3> QED
      BY <3>1, <3>2
  <2>4. CASE DelInfo(r)
    <3>1. Fits([To(r, "delcheck") EXCEPT !.del = Find(1)]) /\ Fits(To(r, "done"))
      BY <1>2, ToFits, FindTyped DEF Fits, RunRecords, Steps
    <3>2. Go(r, [To(r, "delcheck") EXCEPT !.del = Find(1)]) \/ Go(r, To(r, "done"))
      BY <2>4 DEF DelInfo, Get
    <3> QED
      BY <3>1, <3>2
  <2> QED
    BY <2>1, <2>2, <2>3, <2>4
<1> QED
  BY <1>1, <1>3, QuietTyped

LEMMA BothReadFits ==
  ASSUME TypeInv, NEW r \in Runs, NEW pc \in Steps, pc # "copydirs"
  PROVE  Fits(BothRead(r, pc))
<1>1. CASE Both(r)
  <2>1. rules[run[r].old] \in RuleRecords /\ rules[run[r].new] \in RuleRecords
    BY <1>1, ReadTyped DEF Both
  <2>2. Fits(To(r, pc))
    BY ToFits DEF TypeInv
  <2> QED
    BY <1>1, <2>1, <2>2 DEF BothRead, Fits, RunRecords
<1> QED
  BY <1>1, IdleFits DEF BothRead

LEMMA LookingTyped ==
  ASSUME TypeInv, NEW r \in Runs, RenameGet(r) \/ CopyGet(r) \/ XGet(r) \/ MGet(r) \/ DelCheck(r)
  PROVE  TypeInv'
<1>1. UNCHANGED server /\ src' = src /\ broken' \in BOOLEAN /\ overlap' \in BOOLEAN
  BY DEF RenameGet, CopyGet, XGet, MGet, DelCheck, Local, Get, NoFault, Fault, TypeInv, FlagsOK
<1>2. RunsOK /\ RulesOK
  BY DEF TypeInv
<1>3. \A pc \in Steps : pc # "copydirs" => Fits(To(r, pc)) /\ Fits(BothRead(r, pc))
  BY <1>2, ToFits, BothReadFits
<1>4. Fits(Abort(r)) /\ Fits(Idle)
  BY <1>2, AbortFits, IdleFits
<1>5. \E t : Go(r, t) /\ Fits(t)
  <2>1. CASE RenameGet(r)
    <3>1. ASSUME run[r].old \in DOMAIN rules PROVE Fits([To(r, "rnpost") EXCEPT !.r1 = rules[run[r].old]])
      <4>1. rules[run[r].old] \in RuleRecords /\ Fits(To(r, "rnpost"))
        BY <1>3, <3>1, ReadTyped DEF Steps
      <4> QED
        BY <4>1 DEF Fits, RunRecords
    <3>2. \/ run[r].old \in DOMAIN rules /\ Go(r, [To(r, "rnpost") EXCEPT !.r1 = rules[run[r].old]])
          \/ Go(r, To(r, "copyget")) \/ Go(r, Abort(r)) \/ Go(r, Idle)
      BY <2>1 DEF RenameGet, Get
    <3>3. Fits(To(r, "copyget"))
      BY <1>3 DEF Steps
    <3> QED
      BY <1>4, <3>1, <3>2, <3>3, Zenon
  <2>2. CASE CopyGet(r)
    <3> DEFINE all == {[name |-> n, lvl |-> 0] : n \in src}
               begun == [To(r, "copydirs") EXCEPT !.todo = all]
    <3>1. Fits(begun)
      <4>1. all \subseteq DirRecords
        BY DEF TypeInv, FlagsOK, DirRecords, Names
      <4>2. To(r, "copydirs") \in RunRecords
        BY <1>2 DEF Fits, RunRecords, RunsOK, To, Steps
      <4> HIDE DEF all
      <4> QED
        BY <4>1, <4>2 DEF Fits, RunRecords
    <3>2. Go(r, begun) \/ Go(r, To(r, "newinfo")) \/ Go(r, Abort(r))
      BY <2>2 DEF CopyGet, Get
    <3>3. Fits(To(r, "newinfo"))
      BY <1>3 DEF Steps
    <3> QED
      BY <1>4, <3>1, <3>2, <3>3
  <2>3. CASE XGet(r)
    <3>1. Go(r, BothRead(r, "xpost")) \/ Go(r, To(r, "delinfo"))
      BY <2>3 DEF XGet, Get
    <3> QED
      BY <1>3, <3>1 DEF Steps
  <2>4. CASE MGet(r)
    <3>1. Go(r, BothRead(r, "mpost2")) \/ Go(r, To(r, "delinfo"))
      BY <2>4 DEF MGet, Get
    <3> QED
      BY <1>3, <3>1 DEF Steps
  <2>5. CASE DelCheck(r)
    <3>1. ASSUME run[r].del \in DOMAIN rules
          PROVE  Fits([To(r, "deldirs") EXCEPT !.todo = rules[run[r].del].dirs])
      <4>1. rules[run[r].del].dirs \subseteq DirIds /\ Fits(To(r, "deldirs"))
        BY <1>3, <3>1, ReadTyped DEF Steps, RuleRecords
      <4> QED
        BY <4>1 DEF Fits, RunRecords, To
    <3>2. \/ run[r].del \in DOMAIN rules /\ Go(r, [To(r, "deldirs") EXCEPT !.todo = rules[run[r].del].dirs])
          \/ Go(r, To(r, "done"))
      BY <2>5 DEF DelCheck, Get, Local
    <3>3. Fits(To(r, "done"))
      BY <1>3 DEF Steps
    <3> QED
      BY <3>1, <3>2, <3>3
  <2> QED
    BY <2>1, <2>2, <2>3, <2>4, <2>5
<1> QED
  BY <1>1, <1>5, QuietTyped

\* A request of a run: the run goes on in a typed way, and the server does it or not.
LEMMA RequestTyped ==
  ASSUME TypeInv, NEW r \in Runs, NEW t, Fits(t), Go(r, t), src' = src, broken' \in BOOLEAN, overlap' \in BOOLEAN,
         ids' = ids, RulesOK', DirsOK'
  PROVE  TypeInv'
<1>1. RunRecords' = RunRecords
  BY DEF RuleRecords, RunRecords, Ids, DirIds
<1>2. Fits(t)'
  BY <1>1 DEF Fits
<1> QED
  BY <1>2, StepTyped

LEMMA SameServerTyped == ASSUME TypeInv, UNCHANGED server PROVE RulesOK' /\ DirsOK' /\ ids' = ids
<1>1. ids' = ids /\ rules' = rules /\ dirs' = dirs
  BY DEF server
<1>2. RuleRecords' = RuleRecords /\ Ids' = Ids /\ DirIds' = DirIds
  BY <1>1 DEF RuleRecords, Ids, DirIds
<1> QED
  BY <1>1, <1>2 DEF TypeInv, RulesOK, DirsOK

\* A rule that is read and posted is a rule.
LEMMA RulesToPost ==
  ASSUME TypeInv, NEW r \in Runs
  PROVE  /\ [run[r].r1 EXCEPT !.lvl = Renamed(@)] \in RuleRecords
         /\ [run[r].r2 EXCEPT !.exc = @ \cup run[r].r1.exc] \in RuleRecords
         /\ [run[r].r2 EXCEPT !.inc = Included(run[r].r1, run[r].r2)] \in RuleRecords
         /\ [run[r].r1 EXCEPT !.inc = {}] \in RuleRecords
<1>1. run[r].r1 \in RuleRecords /\ run[r].r2 \in RuleRecords
  BY DEF TypeInv, RunsOK, RunRecords
<1> QED
  BY <1>1 DEF RuleRecords, Renamed, Included

LEMMA PostingTyped ==
  ASSUME TypeInv, NEW r \in Runs, RenameRule(r) \/ XPost(r) \/ MPost2(r) \/ MPost1(r)
  PROVE  TypeInv'
<1> DEFINE old == [run[r].r1 EXCEPT !.lvl = Renamed(@)]
           excluding == [run[r].r2 EXCEPT !.exc = @ \cup run[r].r1.exc]
           including == [run[r].r2 EXCEPT !.inc = Included(run[r].r1, run[r].r2)]
           emptied == [run[r].r1 EXCEPT !.inc = {}]
<1>1. src' = src /\ broken' \in BOOLEAN /\ overlap' \in BOOLEAN
  BY DEF RenameRule, XPost, MPost2, MPost1, Request, NoFault, Fault, TypeInv, FlagsOK
<1>2. RunsOK /\ RulesOK
  BY DEF TypeInv
<1>3. RulesOK' /\ DirsOK' /\ ids' = ids
  <2>1. \/ UNCHANGED server
        \/ \E k \in DOMAIN rules, rule \in {old, excluding, including, emptied} : Becomes(RulePosted(k, rule))
    BY DEF RenameRule, XPost, MPost2, MPost1, Request
  <2>2. {old, excluding, including, emptied} \subseteq RuleRecords
    BY RulesToPost
  <2> HIDE DEF old, excluding, including, emptied
  <2> QED
    BY <2>1, <2>2, SameServerTyped, RulePostedTyped
<1>4. \A pc \in Steps : pc # "copydirs" => Fits(To(r, pc))
  BY <1>2, ToFits
<1>5. \E t : Go(r, t) /\ Fits(t)
  <2>1. CASE RenameRule(r)
    <3>1. \/ Go(r, [To(r, "rndirs") EXCEPT !.todo = DirsToRename(old)])
          \/ Go(r, Abort(r)) \/ Go(r, To(r, "copyget"))
      BY <2>1 DEF RenameRule, Request
    <3>2. Fits([To(r, "rndirs") EXCEPT !.todo = DirsToRename(old)])
      <4>1. old.dirs \subseteq DirIds
        BY RulesToPost DEF RuleRecords
      <4> HIDE DEF old
      <4>2. Fits(To(r, "rndirs")) /\ To(r, "rndirs").pc = "rndirs"
        BY <1>2, <1>4 DEF Steps, To, RunsOK, RunRecords
      <4> QED
        BY <4>1, <4>2 DEF Fits, RunRecords, DirsToRename
    <3> QED
      BY <1>2, <1>4, <3>1, <3>2, AbortFits DEF Steps
  <2>2. CASE XPost(r) \/ MPost2(r) \/ MPost1(r)
    <3>1. Go(r, To(r, "mget")) \/ Go(r, To(r, "delinfo")) \/ Go(r, To(r, "mpost1"))
      BY <2>2 DEF XPost, MPost2, MPost1, Request
    <3> QED
      BY <1>4, <3>1 DEF Steps
  <2> QED
    BY <2>1, <2>2
<1> QED
  BY <1>1, <1>3, <1>5, RequestTyped

LEMMA TodoLess ==
  ASSUME RunsOK, NEW r \in Runs, NEW k PROVE Fits([run[r] EXCEPT !.todo = @ \ {k}])
<1>1. run[r] \in RunRecords /\ (run[r].pc = "copydirs" => run[r].todo \subseteq DirRecords)
  BY DEF RunsOK
<1> QED
  BY <1>1 DEF Fits, RunRecords

LEMMA DirectivesTyped ==
  ASSUME TypeInv, NEW r \in Runs, RenameDirective(r) \/ DelDirective(r) \/ DelRule(r)
  PROVE  TypeInv'
<1>1. src' = src /\ broken' \in BOOLEAN /\ overlap' \in BOOLEAN
  BY DEF RenameDirective, DelDirective, DelRule, Local, Request, NoFault, Fault, TypeInv, FlagsOK
<1>2. RunsOK /\ RulesOK
  BY DEF TypeInv
<1>3. RulesOK' /\ DirsOK' /\ ids' = ids
  <2>1. \/ UNCHANGED server
        \/ \E k \in DOMAIN dirs : Becomes(DirPosted(k, [dirs[k] EXCEPT !.lvl = Renamed(@)]))
        \/ \E k : Becomes(DirDeleted(k)) \/ Becomes(RuleDeleted(k))
    BY DEF RenameDirective, DelDirective, DelRule, Local, Request
  <2>2. \A k \in DOMAIN dirs : /\ [dirs[k] EXCEPT !.lvl = Renamed(@)] \in DirRecords
                               /\ [dirs[k] EXCEPT !.lvl = Renamed(@)].name = dirs[k].name
    BY DEF TypeInv, DirsOK, DirRecords, Renamed
  <2> QED
    BY <2>1, <2>2, SameServerTyped, DirPostedTyped, DirDeletedTyped, RuleDeletedTyped
<1>4. \A pc \in Steps : pc # "copydirs" => Fits(To(r, pc))
  BY <1>2, ToFits
<1>5. \E t : Go(r, t) /\ Fits(t)
  <2>1. \/ Go(r, To(r, "copyget")) \/ Go(r, To(r, "delrule")) \/ Go(r, To(r, "done")) \/ Go(r, Abort(r))
        \/ \E k : Go(r, [run[r] EXCEPT !.todo = @ \ {k}])
    BY DEF RenameDirective, DelDirective, DelRule, Local, Request
  <2> QED
    BY <1>2, <1>4, <2>1, AbortFits, TodoLess DEF Steps
<1> QED
  BY <1>1, <1>3, <1>5, RequestTyped

LEMMA CopyDirectiveTyped == ASSUME TypeInv, NEW r \in Runs, CopyDirective(r) PROVE TypeInv'
<1>1. src' = src /\ broken' \in BOOLEAN /\ overlap' \in BOOLEAN /\ run[r].pc = "copydirs"
  BY DEF CopyDirective, Local, Request, NoFault, Fault, TypeInv, FlagsOK
<1>2. RunsOK /\ RulesOK
  BY DEF TypeInv
<1>3. \A pc \in Steps : pc # "copydirs" => Fits(To(r, pc))
  BY <1>2, ToFits
<1>4. Fits(Abort(r))
  BY <1>2, AbortFits
<1>5. CASE UNCHANGED server /\ \E t : Go(r, t) /\ Fits(t)
  BY <1>1, <1>5, QuietTyped
<1>6. ASSUME NEW d \in run[r].todo, Becomes(DirPut(d)), NEW t, Go(r, t),
             \/ t = [run[r] EXCEPT !.todo = @ \ {d}, !.made = @ \cup {NewDir(d)}]
             \/ t = To(r, "newinfo")
      PROVE  TypeInv'
  <2>1. d \in DirRecords
    BY <1>1, <1>2 DEF RunsOK
  <2>2. RulesOK' /\ DirsOK' /\ ids' = ids + 1 /\ NewDir(d) \in DirIds'
    BY <1>6, <2>1, DirPutTyped
  <2>3. RunRecords \subseteq RunRecords'
    BY <2>2, <1>2, IdsGrow DEF RulesOK
  <2>4. CASE t = [run[r] EXCEPT !.todo = @ \ {d}, !.made = @ \cup {NewDir(d)}]
    <3>1. run[r] \in RunRecords' /\ run[r].todo \subseteq DirRecords
      BY <1>1, <1>2, <2>3 DEF RunsOK
    <3>2. t \in RunRecords'
      BY <2>2, <2>4, <3>1 DEF RunRecords
    <3>3. t.todo \subseteq DirRecords
      BY <2>4, <3>1 DEF RunRecords
    <3>4. Fits(t)'
      BY <3>2, <3>3 DEF Fits
    <3> QED
      BY <1>1, <1>6, <2>2, <3>4, StepTyped
  <2>5. CASE t = To(r, "newinfo")
    <3>1. Fits(t)'
      BY <1>3, <2>3, <2>5 DEF Fits, Steps
    <3> QED
      BY <1>1, <1>6, <2>2, <3>1, StepTyped
  <2> QED
    BY <1>6, <2>4, <2>5
<1> QED
  <2>1. \/ UNCHANGED server /\ (Go(r, To(r, "copyrule")) \/ Go(r, Abort(r)) \/ Go(r, To(r, "newinfo")))
        \/ \E d \in run[r].todo :
             /\ Becomes(DirPut(d))
             /\ \/ Go(r, [run[r] EXCEPT !.todo = @ \ {d}, !.made = @ \cup {NewDir(d)}])
                \/ Go(r, To(r, "newinfo"))
    BY DEF CopyDirective, Local, Request
  <2>2. Fits(To(r, "copyrule")) /\ Fits(To(r, "newinfo"))
    BY <1>3 DEF Steps
  <2> QED
    BY <1>4, <1>5, <1>6, <2>1, <2>2

LEMMA CopyRuleTyped == ASSUME TypeInv, NEW r \in Runs, CopyRule(r) PROVE TypeInv'
<1> DEFINE rule == [Blank EXCEPT !.dirs = run[r].made]
<1>1. src' = src /\ broken' \in BOOLEAN /\ overlap' \in BOOLEAN
  BY DEF CopyRule, Request, NoFault, Fault, TypeInv, FlagsOK
<1>2. RunsOK /\ RulesOK
  BY DEF TypeInv
<1>3. PICK t : Go(r, t) /\ Fits(t)
  <2>1. Go(r, To(r, "newinfo"))
    BY DEF CopyRule, Request
  <2> QED
    BY <1>2, <2>1, ToFits DEF Steps
<1>4. CASE UNCHANGED server
  BY <1>1, <1>3, <1>4, QuietTyped
<1>5. CASE Becomes(RulePut(rule))
  <2>1. rule \in RuleRecords
    BY <1>2, BlankTyped DEF RuleRecords, RunsOK, RunRecords
  <2>2. RulesOK' /\ DirsOK' /\ ids' = ids + 1
    BY <1>5, <2>1, RulePutTyped
  <2>3. Fits(t)'
    <3>1. RunRecords \subseteq RunRecords'
      BY <1>2, <2>2, IdsGrow DEF RulesOK
    <3> QED
      BY <1>3, <3>1 DEF Fits
  <2> QED
    BY <1>1, <1>3, <2>2, <2>3, StepTyped
<1> QED
  BY <1>4, <1>5 DEF CopyRule, Request

LEMMA TypeInit == Init => TypeInv
<1> SUFFICES ASSUME Init PROVE TypeInv
  OBVIOUS
<1>1. OldDirs \X {0} \subseteq DirIds
  BY DEF Init, DirIds
<1>2. RulesOK
  BY <1>1 DEF Init, RulesOK, RuleRecords, Ids
<1>3. DirsOK
  BY <1>1 DEF Init, DirsOK, DirRecords, Names
<1>4. RunsOK
  BY IdleTyped DEF Init, RunsOK, Idle
<1> QED
  BY <1>2, <1>3, <1>4 DEF Init, TypeInv, FlagsOK

LEMMA TypeNext == TypeInv /\ [Next]_vars => TypeInv'
<1> SUFFICES ASSUME TypeInv, [Next]_vars PROVE TypeInv'
  OBVIOUS
<1>1. ASSUME NEW r \in Runs, Step(r) PROVE TypeInv'
  BY <1>1, StartTyped, ReadingTyped, LookingTyped, PostingTyped, DirectivesTyped, CopyDirectiveTyped, CopyRuleTyped
  DEF Step
<1>2. ASSUME NEW r \in Runs, Kill(r) PROVE TypeInv'
  BY <1>2, KillTyped
<1>3. CASE UNCHANGED vars
  <2>1. RuleRecords' = RuleRecords /\ RunRecords' = RunRecords /\ Ids' = Ids /\ DirIds' = DirIds
    BY <1>3 DEF vars, server, RuleRecords, RunRecords, Ids, DirIds
  <2> QED
    BY <1>3, <2>1 DEF vars, server, past, TypeInv, RulesOK, DirsOK, RunsOK, FlagsOK
<1> QED
  BY <1>1, <1>2, <1>3 DEF Next

\* The server's rules and directives, and what the runs remember of them, are of their types,
\* however many runs overlap and whatever fails.
THEOREM TypeCorrect == Spec => []TypeOK
<1>1. TypeInv => TypeOK
  BY DEF TypeInv, TypeOK, RulesOK, DirsOK, RunsOK, RunRecords, DirRecords
<1> QED
  BY <1>1, TypeInit, TypeNext, PTL DEF Spec

----------------------------------------------------------------------------
(* What holds while every request is answered and runs follow each other.  *)
(* Phase says, of the record of a run, what it has established at its step:*)
(* which rules it has in hand, that it knows what the server has, and how  *)
(* far the exclusions and the groups have been moved.                      *)

Of(k, lvl) == k \in DOMAIN rules /\ rules[k].lvl = lvl

Adding   == {"xget", "xpost", "mget", "mpost2", "mpost1"}
Renaming == {"rnget", "rnpost"}
Copying  == {"rndirs", "copyget", "copydirs", "copyrule", "newinfo"}
Cleaning == {"delcheck", "deldirs", "delrule"}

InHand(t) ==
  /\ t.pc = "srcinfo" /\ t.old # NoRule => Of(t.old, 1)
  /\ t.pc \in Renaming => Of(t.old, 0)
  /\ t.pc \in Copying \cup Adding => Of(t.old, 1)
  /\ t.pc \in Adding => Of(t.new, 0)
  /\ t.pc \in Cleaning => Of(t.del, 1)

Known(t) ==
  /\ t.pc \in {"rnpost", "xpost", "mpost2", "mpost1"} => t.r1 = rules[t.old]
  /\ t.pc \in {"xpost", "mpost2"} => t.r2 = rules[t.new]

Moved(t) ==
  /\ t.pc \in {"mget", "mpost2", "mpost1"} => rules[t.old].exc \subseteq rules[t.new].exc
  /\ t.pc = "mpost1" => rules[t.old].inc \subseteq rules[t.new].inc
  /\ t.pc \in Cleaning \cup {"delinfo"} => \A k \in DOMAIN rules : rules[k].lvl = 1 => rules[k].inc = {}

Phase(t) == InHand(t) /\ Known(t) /\ Moved(t)

\* The server has one rule of a name, and only the plain name and the prefixed one.
OneName == \A j, k \in DOMAIN rules : rules[j].lvl = rules[k].lvl => j = k
Levels  == \A k \in DOMAIN rules : rules[k].lvl \in {0, 1}
ServerInv == OneName /\ Levels /\ GroupsKept /\ ExcludedFirst

OneRun == \A q, r \in Runs : Active(q) /\ Active(r) => q = r

Answered == ~broken /\ ~overlap
SafeInv  == Answered => ServerInv /\ OneRun /\ \A r \in Runs : Phase(run[r])

\* Nothing is said of a run that is not there.
LEMMA PhaseIdle == ASSUME NEW t, t.pc \in {"idle", "done"} PROVE Phase(t) /\ Phase(t)'
  BY DEF Phase, InHand, Known, Moved, Renaming, Copying, Adding, Cleaning

LEMMA AloneThen ==
  ASSUME SafeInv, Answered, NEW r \in Runs, Active(r)
  PROVE  /\ ServerInv /\ Phase(run[r])
         /\ \A q \in Runs \ {r} : ~Active(q)
  BY DEF SafeInv, OneRun

\* A step of the only run, or of a run that starts.
LEMMA StepSafe ==
  ASSUME TypeInv, NEW r \in Runs, NEW t, Go(r, t), \A q \in Runs \ {r} : ~Active(q),
         ServerInv', Phase(t)'
  PROVE  SafeInv'
<1>1. run' = [run EXCEPT ![r] = t] /\ run \in [Runs -> RunRecords]
  BY DEF Go, TypeInv, RunsOK
<1>2. \A q \in Runs \ {r} : run'[q] = run[q] /\ ~Active(q)'
  BY <1>1 DEF Active
<1>3. OneRun'
  BY <1>2 DEF OneRun
<1>4. ASSUME NEW q \in Runs PROVE Phase(run[q])'
  <2>1. CASE q = r
    BY <1>1, <2>1 DEF Phase, InHand, Known, Moved, Of
  <2>2. CASE q # r
    <3>1. run[q]'.pc \in {"idle", "done"}
      BY <1>2, <2>2 DEF Active
    <3> QED
      BY <3>1 DEF Phase, InHand, Known, Moved, Renaming, Copying, Adding, Cleaning
  <2> QED
    BY <2>1, <2>2
<1> QED
  BY <1>3, <1>4 DEF SafeInv

\* ... that leaves the rules alone.
LEMMA QuietSafe ==
  ASSUME TypeInv, NEW r \in Runs, NEW t, Go(r, t), \A q \in Runs \ {r} : ~Active(q),
         ServerInv, Phase(t), rules' = rules
  PROVE  SafeInv'
<1>1. ServerInv'
  BY DEF ServerInv, OneName, Levels, GroupsKept, ExcludedFirst
<1>2. Phase(t)'
  BY DEF Phase, InHand, Known, Moved, Of
<1> QED
  BY <1>1, <1>2, StepSafe

\* Nothing fails in a step after which nothing has failed.
LEMMA StillAnswered ==
  ASSUME TypeInv, Answered', NEW r \in Runs, Step(r) \/ Kill(r)
  PROVE  Answered
<1>1. broken' = broken \/ broken' = TRUE
  BY DEF Step, Start, Kill, SrcInfo, OldInfo, RenameGet, RenameRule, RenameDirective, CopyGet, CopyDirective, CopyRule,
         NewInfo, XGet, XPost, MGet, MPost2, MPost1, DelInfo, DelCheck, DelDirective, DelRule, Local, Get, Request,
         NoFault, Fault
<1>2. overlap' = overlap \/ overlap' = (overlap \/ \E q \in Runs : Active(q))
  BY DEF Step, Start, Kill, SrcInfo, OldInfo, RenameGet, RenameRule, RenameDirective, CopyGet, CopyDirective, CopyRule,
         NewInfo, XGet, XPost, MGet, MPost2, MPost1, DelInfo, DelCheck, DelDirective, DelRule, Local, Get, Request
<1> QED
  BY <1>1, <1>2 DEF Answered, TypeInv, FlagsOK

LEMMA StartSafe == ASSUME TypeInv, SafeInv, Answered, Answered', NEW r \in Runs, Start(r) PROVE SafeInv'
<1>1. \A q \in Runs : ~Active(q)
  BY DEF Start, Answered, TypeInv, FlagsOK
<1>2. rules' = rules /\ ServerInv
  BY DEF Start, server, SafeInv
<1>3. PICK t : Go(r, t) /\ \/ t = [Idle EXCEPT !.pc = "srcinfo"]
                           \/ /\ Find(1) # NoRule
                              /\ \E nocopy \in BOOLEAN : t = [Idle EXCEPT !.pc = "srcinfo", !.old = Find(1), !.nocopy = nocopy]
  BY DEF Start
<1>4. t.pc = "srcinfo" /\ (t.old = NoRule \/ Of(t.old, 1))
  <2>1. Find(1) # NoRule => Of(Find(1), 1)
    BY FindProperties DEF TypeInv, Of
  <2> QED
    BY <1>3, <2>1 DEF Idle
<1>5. Phase(t)
  BY <1>4 DEF Phase, InHand, Known, Moved, Renaming, Copying, Adding, Cleaning
<1> QED
  BY <1>1, <1>2, <1>3, <1>5, QuietSafe

LEMMA KillSafe == ASSUME TypeInv, SafeInv, Answered, NEW r \in Runs, Kill(r) PROVE SafeInv'
<1>1. Idle.pc = "idle"
  BY DEF Idle
<1> QED
  BY <1>1, AloneThen, PhaseIdle, QuietSafe DEF Kill, server

\* The record of a run that goes to another step: of its variables nothing changes.
LEMMA ToFields ==
  ASSUME TypeInv, NEW r \in Runs, NEW pc
  PROVE  /\ To(r, pc).pc = pc /\ To(r, pc).old = run[r].old /\ To(r, pc).new = run[r].new
         /\ To(r, pc).del = run[r].del /\ To(r, pc).r1 = run[r].r1 /\ To(r, pc).r2 = run[r].r2
  BY DEF TypeInv, RunsOK, RunRecords, To

\* A run that ends, or that goes on with the old rule in hand.
LEMMA EndPhase == ASSUME TypeInv, NEW r \in Runs PROVE Phase(Abort(r)) /\ Phase(To(r, "done")) /\ Phase(Idle)
<1>1. Abort(r).pc = "idle" /\ To(r, "done").pc = "done" /\ Idle.pc = "idle"
  BY ToFields DEF Abort, Idle
<1> QED
  BY <1>1 DEF Phase, InHand, Known, Moved, Renaming, Copying, Adding, Cleaning

LEMMA CopyingPhase ==
  ASSUME TypeInv, NEW r \in Runs, NEW pc \in Copying, Of(run[r].old, 1) PROVE Phase(To(r, pc))
  BY ToFields DEF Phase, InHand, Known, Moved, Renaming, Copying, Adding, Cleaning

\* While a run has both rules in hand, they are two.
LEMMA TwoRules ==
  ASSUME ServerInv, NEW t, t.pc \in Adding, Phase(t)
  PROVE  Of(t.old, 1) /\ Of(t.new, 0) /\ t.old # t.new
  BY DEF Phase, InHand, Of

LEMMA ReadingSafe ==
  ASSUME TypeInv, SafeInv, Answered, Answered', NEW r \in Runs,
         SrcInfo(r) \/ OldInfo(r) \/ NewInfo(r) \/ DelInfo(r)
  PROVE  SafeInv'
<1>1. rules' = rules /\ Active(r)
  BY DEF SrcInfo, OldInfo, NewInfo, DelInfo, Get, server, Active
<1>2. ServerInv /\ Phase(run[r]) /\ \A q \in Runs \ {r} : ~Active(q)
  BY <1>1, AloneThen
<1>3. Phase(Abort(r)) /\ Phase(To(r, "done"))
  BY EndPhase
<1>4. \A lvl \in Nat : Find(lvl) # NoRule => Of(Find(lvl), lvl)
  BY FindProperties DEF TypeInv, Of
<1>5. ~broken'
  BY DEF Answered
<1>6. \E t : Go(r, t) /\ Phase(t)
  <2>1. CASE SrcInfo(r)
    <3> DEFINE next == IF run[r].old = NoRule THEN "oldinfo" ELSE IF run[r].nocopy THEN "newinfo" ELSE "copyget"
               found == [To(r, next) EXCEPT !.found = TRUE]
    <3>1. run[r].old # NoRule => Of(run[r].old, 1)
      BY <1>2, <2>1 DEF SrcInfo, Phase, InHand
    <3>2. Go(r, found) \/ Go(r, To(r, next))
      BY <2>1 DEF SrcInfo, Get
    <3>3. next = "oldinfo" \/ (next \in Copying /\ Of(run[r].old, 1))
      BY <3>1 DEF Copying
    <3> HIDE DEF next
    <3>4. To(r, next).pc = next /\ To(r, next).old = run[r].old /\ found.pc = next /\ found.old = run[r].old
      BY DEF To, TypeInv, RunsOK, RunRecords
    <3> HIDE DEF found
    <3>5. Phase(To(r, next)) /\ Phase(found)
      BY <3>3, <3>4 DEF Phase, InHand, Known, Moved, Renaming, Copying, Adding, Cleaning
    <3> QED
      BY <3>2, <3>5
  <2>2. CASE OldInfo(r)
    <3> DEFINE t == [To(r, "rnget") EXCEPT !.old = Find(0)]
    <3>1. Go(r, Abort(r)) \/ (Find(0) # NoRule /\ Go(r, t))
      BY <1>5, <2>2 DEF OldInfo, Get, Fault
    <3>2. t.pc = "rnget" /\ t.old = Find(0)
      BY DEF To, TypeInv, RunsOK, RunRecords
    <3> HIDE DEF t
    <3>3. Find(0) # NoRule => Phase(t)
      BY <1>4, <3>2 DEF Phase, InHand, Known, Moved, Renaming, Copying, Adding, Cleaning
    <3> QED
      BY <1>3, <3>1, <3>3
  <2>3. CASE NewInfo(r)
    <3> DEFINE t == [To(r, "xget") EXCEPT !.new = Find(0)]
    <3>1. Go(r, Abort(r)) \/ (Find(0) # NoRule /\ Go(r, t))
      BY <1>5, <2>3 DEF NewInfo, Get, Fault, MoveStart
    <3>2. t.pc = "xget" /\ t.old = run[r].old /\ t.new = Find(0)
      BY DEF To, TypeInv, RunsOK, RunRecords
    <3>3. Of(run[r].old, 1)
      BY <1>2, <2>3 DEF NewInfo, Phase, InHand, Copying
    <3> HIDE DEF t
    <3>4. Find(0) # NoRule => Phase(t)
      BY <1>4, <3>2, <3>3 DEF Phase, InHand, Known, Moved, Renaming, Copying, Adding, Cleaning
    <3> QED
      BY <1>3, <3>1, <3>4
  <2>4. CASE DelInfo(r)
    <3> DEFINE t == [To(r, "delcheck") EXCEPT !.del = Find(1)]
    <3>1. Go(r, To(r, "done")) \/ (Find(1) # NoRule /\ Go(r, t))
      BY <1>5, <2>4 DEF DelInfo, Get, Fault
    <3>2. t.pc = "delcheck" /\ t.del = Find(1)
      BY DEF To, TypeInv, RunsOK, RunRecords
    <3>3. \A k \in DOMAIN rules : rules[k].lvl = 1 => rules[k].inc = {}
      BY <1>2, <2>4 DEF DelInfo, Phase, Moved
    <3> HIDE DEF t
    <3>4. Find(1) # NoRule => Phase(t)
      BY <1>4, <3>2, <3>3 DEF Phase, InHand, Known, Moved, Renaming, Copying, Adding, Cleaning
    <3> QED
      BY <1>3, <3>1, <3>4
  <2> QED
    BY <2>1, <2>2, <2>3, <2>4
<1> QED
  BY <1>1, <1>2, <1>6, QuietSafe

LEMMA LookingSafe ==
  ASSUME TypeInv, SafeInv, Answered, Answered', NEW r \in Runs,
         RenameGet(r) \/ CopyGet(r) \/ XGet(r) \/ MGet(r) \/ DelCheck(r)
  PROVE  SafeInv'
<1>1. rules' = rules /\ Active(r)
  BY DEF RenameGet, CopyGet, XGet, MGet, DelCheck, Get, Local, server, Active
<1>2. ServerInv /\ Phase(run[r]) /\ \A q \in Runs \ {r} : ~Active(q)
  BY <1>1, AloneThen
<1>3. Phase(Abort(r)) /\ Phase(To(r, "done"))
  BY EndPhase
<1>4. ~broken'
  BY DEF Answered
<1>5. \E t : Go(r, t) /\ Phase(t)
  <2>1. CASE RenameGet(r)
    <3> DEFINE k == run[r].old
               t == [To(r, "rnpost") EXCEPT !.r1 = rules[k]]
    <3>1. Of(k, 0)
      BY <1>2, <2>1 DEF RenameGet, Phase, InHand, Renaming
    <3>2. Go(r, t)
      BY <1>4, <2>1, <3>1 DEF RenameGet, Get, Fault, Of
    <3>3. t.pc = "rnpost" /\ t.old = k /\ t.r1 = rules[k]
      BY DEF To, TypeInv, RunsOK, RunRecords
    <3> HIDE DEF t, k
    <3>4. Phase(t)
      BY <3>1, <3>3 DEF Phase, InHand, Known, Moved, Renaming, Copying, Adding, Cleaning
    <3> QED
      BY <3>2, <3>4
  <2>2. CASE CopyGet(r)
    <3> DEFINE t == [To(r, "copydirs") EXCEPT !.todo = {[name |-> n, lvl |-> 0] : n \in src}]
    <3>1. Of(run[r].old, 1)
      BY <1>2, <2>2 DEF CopyGet, Phase, InHand, Copying
    <3>2. Go(r, t) \/ Go(r, To(r, "newinfo")) \/ Go(r, Abort(r))
      BY <2>2 DEF CopyGet, Get
    <3>3. t.pc = "copydirs" /\ t.old = run[r].old
      BY DEF To, TypeInv, RunsOK, RunRecords
    <3> HIDE DEF t
    <3>4. Phase(t)
      BY <3>1, <3>3 DEF Phase, InHand, Known, Moved, Renaming, Copying, Adding, Cleaning
    <3>5. Phase(To(r, "newinfo"))
      BY <3>1, CopyingPhase DEF Copying
    <3> QED
      BY <1>3, <3>2, <3>4, <3>5
  <2>3. ASSUME NEW pc \in {"xpost", "mpost2"}, Go(r, BothRead(r, pc)), run[r].pc \in Adding,
               pc = "mpost2" => rules[run[r].old].exc \subseteq rules[run[r].new].exc
        PROVE  \E t : Go(r, t) /\ Phase(t)
    <3> DEFINE t == [To(r, pc) EXCEPT !.r1 = rules[run[r].old], !.r2 = rules[run[r].new]]
    <3>1. Of(run[r].old, 1) /\ Of(run[r].new, 0)
      BY <1>2, <2>3, TwoRules
    <3>2. BothRead(r, pc) = t
      BY <3>1 DEF BothRead, Both, Of
    <3>3. /\ t.pc = pc /\ t.old = run[r].old /\ t.new = run[r].new
          /\ t.r1 = rules[run[r].old] /\ t.r2 = rules[run[r].new]
      BY DEF To, TypeInv, RunsOK, RunRecords
    <3> HIDE DEF t
    <3>4. Phase(t)
      BY <2>3, <3>1, <3>3 DEF Phase, InHand, Known, Moved, Renaming, Copying, Adding, Cleaning
    <3> QED
      BY <2>3, <3>2, <3>4
  <2>4. CASE XGet(r)
    <3>1. run[r].pc \in Adding
      BY <2>4 DEF XGet, Adding
    <3>2. Both(r)
      BY <1>2, <3>1, TwoRules DEF Both, Of
    <3>3. Go(r, BothRead(r, "xpost"))
      BY <1>4, <2>4, <3>2 DEF XGet, Get, Fault
    <3> QED
      BY <2>3, <3>1, <3>3
  <2>5. CASE MGet(r)
    <3>1. run[r].pc \in Adding /\ run[r].pc = "mget"
      BY <2>5 DEF MGet, Adding
    <3>2. Both(r)
      BY <1>2, <3>1, TwoRules DEF Both, Of
    <3>3. Go(r, BothRead(r, "mpost2"))
      BY <1>4, <2>5, <3>2 DEF MGet, Get, Fault
    <3>4. rules[run[r].old].exc \subseteq rules[run[r].new].exc
      BY <1>2, <3>1 DEF Phase, Moved
    <3> QED
      BY <2>3, <3>1, <3>3, <3>4
  <2>6. CASE DelCheck(r)
    <3> DEFINE t == [To(r, "deldirs") EXCEPT !.todo = rules[run[r].del].dirs]
    <3>1. Go(r, t) \/ Go(r, To(r, "done"))
      BY <2>6 DEF DelCheck, Get, Local
    <3>2. t.pc = "deldirs" /\ t.del = run[r].del
      BY DEF To, TypeInv, RunsOK, RunRecords
    <3>3. Of(run[r].del, 1) /\ \A k \in DOMAIN rules : rules[k].lvl = 1 => rules[k].inc = {}
      BY <1>2, <2>6 DEF DelCheck, Phase, InHand, Moved, Cleaning
    <3> HIDE DEF t
    <3>4. Phase(t)
      BY <3>2, <3>3 DEF Phase, InHand, Known, Moved, Renaming, Copying, Adding, Cleaning
    <3> QED
      BY <1>3, <3>1, <3>4
  <2> QED
    BY <2>1, <2>2, <2>4, <2>5, <2>6
<1> QED
  BY <1>1, <1>2, <1>5, QuietSafe

----------------------------------------------------------------------------
(* The requests that change rules.                                         *)

\* The old rule gets the prefix: nobody else has it.
LEMMA RenameRuleSafe ==
  ASSUME TypeInv, SafeInv, Answered, Answered', NEW r \in Runs, RenameRule(r)
  PROVE  SafeInv'
<1> DEFINE k == run[r].old
           old == [run[r].r1 EXCEPT !.lvl = Renamed(@)]
<1>1. ServerInv /\ Phase(run[r]) /\ \A q \in Runs \ {r} : ~Active(q)
  BY AloneThen DEF RenameRule, Active
<1>2. run[r].r1 = rules[k] /\ Of(k, 0)
  BY <1>1 DEF RenameRule, Phase, InHand, Known, Renaming
<1>3. old.lvl = 1 /\ old.inc = rules[k].inc /\ old.exc = rules[k].exc
  BY <1>2, ReadTyped DEF Of, RuleRecords, Renamed
<1>4. PICK t : t = [To(r, "rndirs") EXCEPT !.todo = DirsToRename(old)]
  OBVIOUS
<1>5. t.pc = "rndirs" /\ t.old = k
  BY <1>4 DEF To, TypeInv, RunsOK, RunRecords
<1>6. \/ RuleFree(1, {k}) /\ rules' = [rules EXCEPT ![k] = old] /\ Go(r, t)
      \/ rules' = rules /\ Go(r, Abort(r))
  BY <1>3, <1>4 DEF RenameRule, Request, Fault, Becomes, RulePosted, server, Answered
<1> HIDE DEF k, old
<1>7. CASE rules' = rules /\ Go(r, Abort(r))
  BY <1>1, <1>7, EndPhase, QuietSafe
<1>8. CASE RuleFree(1, {k}) /\ rules' = [rules EXCEPT ![k] = old] /\ Go(r, t)
  <2>1. OneName' /\ Levels'
    BY <1>1, <1>2, <1>3, <1>8 DEF ServerInv, OneName, Levels, RuleFree, Of
  <2>2. GroupsKept' /\ ExcludedFirst'
    BY <1>1, <1>2, <1>3, <1>8 DEF ServerInv, GroupsKept, ExcludedFirst, Of
  <2>3. Phase(t)'
    BY <1>2, <1>3, <1>8, <1>5 DEF Phase, InHand, Known, Moved, Of, Renaming, Copying, Adding, Cleaning
  <2> QED
    BY <1>1, <1>8, <2>1, <2>2, <2>3, StepSafe DEF ServerInv
<1> QED
  BY <1>6, <1>7, <1>8

\* A run that adds groups: the rule it posts is free to be posted, so that nothing is refused.
LEMMA AddingAnswered ==
  ASSUME TypeInv, ServerInv, NEW t, t.pc \in Adding, Phase(t)
  PROVE  RuleFree(0, {t.new}) /\ RuleFree(1, {t.old})
  BY TwoRules DEF ServerInv, OneName, RuleFree, Of

\* Exclusions and groups come to the new rule and go from the old one.
LEMMA PostedSafe ==
  ASSUME ServerInv, NEW k \in DOMAIN rules, NEW rule, rules' = [rules EXCEPT ![k] = rule], rule.lvl = rules[k].lvl,
         \A g \in Groups : g \in rules[k].inc => g \in rule.inc \/ \E j \in DOMAIN rules \ {k} : g \in rules[j].inc,
         rule.inc # {} => XGroups \subseteq rule.exc
  PROVE  ServerInv'
<1>1. OneName' /\ Levels'
  BY DEF ServerInv, OneName, Levels
<1>2. GroupsKept'
  BY DEF ServerInv, GroupsKept
<1>3. ExcludedFirst'
  BY DEF ServerInv, ExcludedFirst
<1> QED
  BY <1>1, <1>2, <1>3 DEF ServerInv

LEMMA XPostSafe ==
  ASSUME TypeInv, SafeInv, Answered, Answered', NEW r \in Runs, XPost(r)
  PROVE  SafeInv'
<1> DEFINE k == run[r].new
           o == run[r].old
           rule == [run[r].r2 EXCEPT !.exc = @ \cup run[r].r1.exc]
<1>1. ServerInv /\ Phase(run[r]) /\ \A q \in Runs \ {r} : ~Active(q)
  BY AloneThen DEF XPost, Active
<1>2. run[r].pc \in Adding /\ Phase(run[r]) /\ ServerInv
  BY <1>1 DEF XPost, Adding
<1>3. Of(k, 0) /\ Of(o, 1) /\ k # o
  BY <1>2, TwoRules
<1>4. RuleFree(0, {k}) /\ RuleFree(1, {o})
  BY <1>2, AddingAnswered
<1>5. run[r].r1 = rules[o] /\ run[r].r2 = rules[k] /\ Of(k, 0) /\ Of(o, 1) /\ k # o /\ RuleFree(0, {k})
  BY <1>1, <1>3, <1>4 DEF XPost, Phase, Known
<1>6. rule.lvl = 0 /\ rule.inc = rules[k].inc /\ rule.exc = rules[k].exc \cup rules[o].exc
  BY <1>5, ReadTyped DEF Of, RuleRecords
<1>7. PICK t : t = To(r, "mget")
  OBVIOUS
<1>8. t.pc = "mget" /\ t.old = o /\ t.new = k
  BY <1>7, ToFields
<1>9. rules' = [rules EXCEPT ![k] = rule] /\ Go(r, t)
  BY <1>5, <1>6, <1>7 DEF XPost, Request, Fault, Becomes, RulePosted, Answered, Of
<1> HIDE DEF k, o, rule
<1>10. ServerInv'
  <2>1. rule.inc # {} => XGroups \subseteq rule.exc
    BY <1>1, <1>5, <1>6 DEF ServerInv, ExcludedFirst, Of
  <2> QED
    BY <1>1, <1>5, <1>6, <1>9, <2>1, PostedSafe DEF Of
<1>11. Phase(t)'
  BY <1>5, <1>6, <1>8, <1>9 DEF Phase, InHand, Known, Moved, Of, Renaming, Copying, Adding, Cleaning
<1> QED
  BY <1>1, <1>9, <1>10, <1>11, StepSafe

LEMMA MPost2Safe ==
  ASSUME TypeInv, SafeInv, Answered, Answered', NEW r \in Runs, MPost2(r)
  PROVE  SafeInv'
<1> DEFINE k == run[r].new
           o == run[r].old
           rule == [run[r].r2 EXCEPT !.inc = Included(run[r].r1, run[r].r2)]
<1>1. ServerInv /\ Phase(run[r]) /\ \A q \in Runs \ {r} : ~Active(q)
  BY AloneThen DEF MPost2, Active
<1>2. run[r].pc \in Adding /\ Phase(run[r]) /\ ServerInv
  BY <1>1 DEF MPost2, Adding
<1>3. Of(k, 0) /\ Of(o, 1) /\ k # o
  BY <1>2, TwoRules
<1>4. RuleFree(0, {k}) /\ RuleFree(1, {o})
  BY <1>2, AddingAnswered
<1>5. run[r].r1 = rules[o] /\ run[r].r2 = rules[k] /\ Of(k, 0) /\ Of(o, 1) /\ k # o /\ RuleFree(0, {k})
  BY <1>1, <1>3, <1>4 DEF MPost2, Phase, Known
<1>6. rule.lvl = 0 /\ rule.inc = rules[k].inc \cup rules[o].inc /\ rule.exc = rules[k].exc
  BY <1>5, ReadTyped DEF Of, RuleRecords, Included
<1>7. PICK t : t = To(r, "mpost1")
  OBVIOUS
<1>8. t.pc = "mpost1" /\ t.old = o /\ t.new = k /\ t.r1 = rules[o]
  BY <1>7, <1>5, ToFields
<1>9. rules' = [rules EXCEPT ![k] = rule] /\ Go(r, t)
  BY <1>5, <1>6, <1>7 DEF MPost2, Request, Fault, Becomes, RulePosted, Answered, Of
<1>10. rules[o].exc \subseteq rules[k].exc
  BY <1>1 DEF MPost2, Phase, Moved
<1> HIDE DEF k, o, rule
<1>11. ServerInv'
  <2>1. rule.inc # {} => XGroups \subseteq rule.exc
    BY <1>1, <1>5, <1>6, <1>10 DEF ServerInv, ExcludedFirst, Of
  <2> QED
    BY <1>1, <1>5, <1>6, <1>9, <2>1, PostedSafe DEF Of
<1>12. Phase(t)'
  BY <1>5, <1>6, <1>8, <1>9, <1>10 DEF Phase, InHand, Known, Moved, Of, Renaming, Copying, Adding, Cleaning
<1> QED
  BY <1>1, <1>9, <1>11, <1>12, StepSafe

LEMMA MPost1Safe ==
  ASSUME TypeInv, SafeInv, Answered, Answered', NEW r \in Runs, MPost1(r)
  PROVE  SafeInv'
<1> DEFINE k == run[r].new
           o == run[r].old
           rule == [run[r].r1 EXCEPT !.inc = {}]
<1>1. ServerInv /\ Phase(run[r]) /\ \A q \in Runs \ {r} : ~Active(q)
  BY AloneThen DEF MPost1, Active
<1>2. run[r].pc \in Adding /\ Phase(run[r]) /\ ServerInv
  BY <1>1 DEF MPost1, Adding
<1>3. Of(k, 0) /\ Of(o, 1) /\ k # o
  BY <1>2, TwoRules
<1>4. RuleFree(0, {k}) /\ RuleFree(1, {o})
  BY <1>2, AddingAnswered
<1>5. run[r].r1 = rules[o] /\ Of(k, 0) /\ Of(o, 1) /\ k # o /\ RuleFree(1, {o})
  BY <1>1, <1>3, <1>4 DEF MPost1, Phase, Known
<1>6. rule.lvl = 1 /\ rule.inc = {}
  BY <1>5, ReadTyped DEF Of, RuleRecords
<1>7. PICK t : t = To(r, "delinfo")
  OBVIOUS
<1>8. t.pc = "delinfo"
  BY <1>7, ToFields
<1>9. rules' = [rules EXCEPT ![o] = rule] /\ Go(r, t)
  BY <1>5, <1>6, <1>7 DEF MPost1, Request, Fault, Becomes, RulePosted, Answered, Of
<1>10. rules[o].inc \subseteq rules[k].inc
  BY <1>1 DEF MPost1, Phase, Moved
<1> HIDE DEF k, o, rule
<1>11. ServerInv'
  BY <1>1, <1>5, <1>6, <1>9, <1>10, PostedSafe DEF Of
<1>12. Phase(t)'
  BY <1>1, <1>5, <1>6, <1>8, <1>9
  DEF ServerInv, OneName, Phase, InHand, Known, Moved, Of, Renaming, Copying, Adding, Cleaning
<1> QED
  BY <1>1, <1>9, <1>11, <1>12, StepSafe

\* Directives are renamed and copied: the rules stay as they are.
LEMMA DirectivesSafe ==
  ASSUME TypeInv, SafeInv, Answered, Answered', NEW r \in Runs, RenameDirective(r) \/ CopyDirective(r)
  PROVE  SafeInv'
<1>1. rules' = rules /\ Active(r)
  BY DEF RenameDirective, CopyDirective, Local, Request, Becomes, DirPosted, DirPut, server, Active
<1>2. ServerInv /\ Phase(run[r]) /\ \A q \in Runs \ {r} : ~Active(q)
  BY <1>1, AloneThen
<1>3. run[r].pc \in Copying /\ Of(run[r].old, 1)
  BY <1>2 DEF RenameDirective, CopyDirective, Copying, Phase, InHand
<1>4. Phase(Abort(r)) /\ \A pc \in Copying : Phase(To(r, pc))
  BY <1>3, EndPhase, CopyingPhase
<1>5. ASSUME NEW t, t.pc = run[r].pc, t.old = run[r].old PROVE Phase(t)
  BY <1>3, <1>5 DEF Phase, InHand, Known, Moved, Renaming, Copying, Adding, Cleaning
<1>6. PICK t : Go(r, t) /\ \/ t = Abort(r) \/ (\E pc \in Copying : t = To(r, pc))
                           \/ \E k : t = [run[r] EXCEPT !.todo = @ \ {k}]
                           \/ \E d : t = [run[r] EXCEPT !.todo = @ \ {d}, !.made = @ \cup {NewDir(d)}]
  BY DEF RenameDirective, CopyDirective, Local, Request, Copying
<1>7. Phase(t)
  <2>1. ASSUME NEW k, t = [run[r] EXCEPT !.todo = @ \ {k}] PROVE t.pc = run[r].pc /\ t.old = run[r].old
    BY <2>1 DEF TypeInv, RunsOK, RunRecords
  <2>2. ASSUME NEW d, t = [run[r] EXCEPT !.todo = @ \ {d}, !.made = @ \cup {NewDir(d)}]
        PROVE  t.pc = run[r].pc /\ t.old = run[r].old
    BY <2>2 DEF TypeInv, RunsOK, RunRecords
  <2> QED
    BY <1>4, <1>5, <1>6, <2>1, <2>2
<1> QED
  BY <1>1, <1>2, <1>6, <1>7, QuietSafe

\* The new version comes, if no rule has its name, and includes nothing yet.
LEMMA CopyRuleSafe ==
  ASSUME TypeInv, SafeInv, Answered, Answered', NEW r \in Runs, CopyRule(r)
  PROVE  SafeInv'
<1> DEFINE n == ids + 1
           rule == [Blank EXCEPT !.dirs = run[r].made]
<1>1. ServerInv /\ Phase(run[r]) /\ \A q \in Runs \ {r} : ~Active(q)
  BY AloneThen DEF CopyRule, Active
<1>2. Of(run[r].old, 1)
  BY <1>1 DEF CopyRule, Phase, InHand, Copying
<1>3. PICK t : t = To(r, "newinfo")
  OBVIOUS
<1>4. t.pc = "newinfo" /\ t.old = run[r].old
  BY <1>3, ToFields
<1>5. Go(r, t)
  BY <1>3 DEF CopyRule, Request
<1>6. \/ rules' = rules
      \/ RuleFree(0, {}) /\ rules' = [j \in DOMAIN rules \cup {n} |-> IF j = n THEN rule ELSE rules[j]]
  BY DEF CopyRule, Request, Becomes, RulePut, Added, server
<1>7. n \notin DOMAIN rules
  BY DEF TypeInv, RulesOK, Ids
<1>8. rule.lvl = 0 /\ rule.inc = {}
  BY DEF Blank
<1> HIDE DEF n, rule
<1>9. CASE rules' = rules
  <2>1. Phase(t)
    BY <1>2, <1>3, CopyingPhase DEF Copying
  <2> QED
    BY <1>1, <1>5, <1>9, <2>1, QuietSafe
<1>10. CASE RuleFree(0, {}) /\ rules' = [j \in DOMAIN rules \cup {n} |-> IF j = n THEN rule ELSE rules[j]]
  <2>1. OneName' /\ Levels'
    BY <1>1, <1>7, <1>8, <1>10 DEF ServerInv, OneName, Levels, RuleFree
  <2>2. GroupsKept' /\ ExcludedFirst'
    BY <1>1, <1>7, <1>8, <1>10 DEF ServerInv, GroupsKept, ExcludedFirst
  <2>3. Phase(t)'
    BY <1>2, <1>4, <1>7, <1>10 DEF Phase, InHand, Known, Moved, Of, Renaming, Copying, Adding, Cleaning
  <2> QED
    BY <1>1, <1>5, <2>1, <2>2, <2>3, StepSafe DEF ServerInv
<1> QED
  BY <1>6, <1>9, <1>10

\* A directive is deleted: it goes from the rules, which keep all else.
LEMMA DelDirectiveSafe ==
  ASSUME TypeInv, SafeInv, Answered, Answered', NEW r \in Runs, DelDirective(r)
  PROVE  SafeInv'
<1>1. ServerInv /\ Phase(run[r]) /\ \A q \in Runs \ {r} : ~Active(q)
  BY AloneThen DEF DelDirective, Active
<1>2. /\ DOMAIN rules' = DOMAIN rules
      /\ \A j \in DOMAIN rules :
           rules'[j].lvl = rules[j].lvl /\ rules'[j].inc = rules[j].inc /\ rules'[j].exc = rules[j].exc
  <2>1. \/ rules' = rules
        \/ \E k : rules' = [j \in DOMAIN rules |-> [rules[j] EXCEPT !.dirs = @ \ {k}]]
    BY DEF DelDirective, Local, Request, Becomes, DirDeleted, server
  <2> QED
    BY <2>1, ReadTyped DEF RuleRecords
<1>3. ServerInv'
  <2>1. OneName' /\ Levels'
    BY <1>1, <1>2 DEF ServerInv, OneName, Levels
  <2>2. GroupsKept' /\ ExcludedFirst'
    BY <1>1, <1>2 DEF ServerInv, GroupsKept, ExcludedFirst
  <2> QED
    BY <2>1, <2>2 DEF ServerInv
<1>4. PICK t : Go(r, t) /\ \/ t = To(r, "delrule") \/ t = To(r, "done")
                           \/ \E k : t = [run[r] EXCEPT !.todo = @ \ {k}]
  BY DEF DelDirective, Local, Request
<1>5. t.pc = "done" \/ (t.pc \in Cleaning /\ t.del = run[r].del)
  <2>1. run[r].pc = "deldirs"
    BY DEF DelDirective
  <2>2. ASSUME NEW k, t = [run[r] EXCEPT !.todo = @ \ {k}] PROVE t.pc = run[r].pc /\ t.del = run[r].del
    BY <2>2 DEF TypeInv, RunsOK, RunRecords
  <2>3. To(r, "delrule").pc = "delrule" /\ To(r, "delrule").del = run[r].del /\ To(r, "done").pc = "done"
    BY ToFields
  <2> QED
    BY <1>4, <2>1, <2>2, <2>3 DEF Cleaning
<1>6. Of(run[r].del, 1) /\ \A k \in DOMAIN rules : rules[k].lvl = 1 => rules[k].inc = {}
  BY <1>1 DEF DelDirective, Phase, InHand, Moved, Cleaning
<1>7. Phase(t)'
  BY <1>2, <1>5, <1>6 DEF Phase, InHand, Known, Moved, Of, Renaming, Copying, Adding, Cleaning
<1> QED
  BY <1>1, <1>3, <1>4, <1>7, StepSafe

\* The prefixed rule is deleted when it includes nothing.
LEMMA DelRuleSafe ==
  ASSUME TypeInv, SafeInv, Answered, Answered', NEW r \in Runs, DelRule(r)
  PROVE  SafeInv'
<1> DEFINE k == run[r].del
<1>1. ServerInv /\ Phase(run[r]) /\ \A q \in Runs \ {r} : ~Active(q)
  BY AloneThen DEF DelRule, Active
<1>2. rules[k].inc = {}
  BY <1>1 DEF DelRule, Phase, InHand, Moved, Cleaning, Of
<1>3. PICK t : t = To(r, "done")
  OBVIOUS
<1>4. t.pc = "done" /\ Go(r, t)
  BY <1>3, ToFields DEF DelRule, Request
<1>5. rules' = rules \/ rules' = [j \in DOMAIN rules \ {k} |-> rules[j]]
  BY DEF DelRule, Request, Becomes, RuleDeleted, Restrict, server
<1> HIDE DEF k
<1>6. ServerInv'
  <2>1. OneName' /\ Levels'
    BY <1>1, <1>5 DEF ServerInv, OneName, Levels
  <2>2. GroupsKept' /\ ExcludedFirst'
    BY <1>1, <1>2, <1>5 DEF ServerInv, GroupsKept, ExcludedFirst
  <2> QED
    BY <2>1, <2>2 DEF ServerInv
<1> QED
  BY <1>1, <1>4, <1>6, PhaseIdle, StepSafe

LEMMA SafeInit == Init => SafeInv
<1> SUFFICES ASSUME Init PROVE SafeInv
  OBVIOUS
<1>1. ServerInv
  BY DEF Init, ServerInv, OneName, Levels, GroupsKept, ExcludedFirst
<1>2. \A r \in Runs : run[r].pc = "idle"
  BY DEF Init, Idle
<1> QED
  BY <1>1, <1>2, PhaseIdle DEF SafeInv, OneRun, Active

LEMMA SafeNext == TypeInv /\ SafeInv /\ [Next]_vars => SafeInv'
<1> SUFFICES ASSUME TypeInv, SafeInv, [Next]_vars, Answered' PROVE SafeInv'
  BY DEF SafeInv
<1>1. ASSUME NEW r \in Runs, Step(r) PROVE SafeInv'
  <2>1. Answered
    BY <1>1, StillAnswered
  <2> QED
    BY <1>1, <2>1, StartSafe, ReadingSafe, LookingSafe, RenameRuleSafe, DirectivesSafe, CopyRuleSafe,
       XPostSafe, MPost2Safe, MPost1Safe, DelDirectiveSafe, DelRuleSafe
    DEF Step
<1>2. ASSUME NEW r \in Runs, Kill(r) PROVE SafeInv'
  BY <1>2, StillAnswered, KillSafe
<1>3. CASE UNCHANGED vars
  BY <1>3 DEF vars, server, past, SafeInv, Answered, ServerInv, OneName, Levels, GroupsKept, ExcludedFirst, OneRun,
              Active, Phase, InHand, Known, Moved, Of
<1> QED
  BY <1>1, <1>2, <1>3 DEF Next

\* Whatever the groups, the directives and the versions of the rule, and wherever the runs
\* are killed and taken up again: as long as every request is answered and runs follow each
\* other, no group falls out of all rules, and no rule includes a group before it excludes
\* what the old one excluded.
THEOREM KeptIfAnsweredCorrect == Spec => []KeptIfAnswered
<1>1. SafeInv => KeptIfAnswered
  BY DEF SafeInv, Answered, KeptIfAnswered, ServerInv
<1> QED
  BY <1>1, TypeInit, TypeNext, SafeInit, SafeNext, PTL DEF Spec

=============================================================================
