---------------------------- MODULE RuleReplace ----------------------------
(***************************************************************************)
(* Replacing a rule on a Rudder server by its new version from another     *)
(* server: the shell script RUDDER/replicator/rule-replace, as "replica"   *)
(* calls it (CLEAN=1), and the calls of RUDDER/replicator/rule-replica it  *)
(* is made of.  Each call is a sequence of REST requests to the            *)
(* destination; the script looks at the exit status of some calls.         *)
(*                                                                         *)
(* A rule is known by its name on the server: level 0 is the plain name,   *)
(* level n the name with n prefixes "#old ".  The server, which is not in  *)
(* the repository, refuses a second rule or directive of one name, and     *)
(* takes a deleted directive out of its rules.                             *)
(*                                                                         *)
(* Runs of the script may overlap: the lock of rule-replica is held for    *)
(* one call and is another one for another source (SameSource).  A call    *)
(* that finds it taken, if only by a call for another rule, ends with      *)
(* status 1.                                                               *)
(***************************************************************************)
EXTENDS Integers, FiniteSets, Functions

CONSTANTS
  Runs,         \* overlapping runs of rule-replace
  Groups,       \* groups the old rule includes
  XGroups,      \* groups it excludes
  OldDirs,      \* names of its directives
  Versions,     \* the sets of directive names the new version may have
  SameSource,   \* do the runs have the same source host
  MaxStarts,    \* bound on the runs
  MaxFaults     \* bound on kills, taken locks, failed and broken requests

ASSUME ReplaceAssumption ==
  /\ SameSource \in BOOLEAN /\ MaxStarts \in Nat /\ MaxFaults \in Nat

VARIABLES
  rules,        \* the server's rules: id -> level, directives, included and excluded groups
  dirs,         \* its directives: id (name and serial number) -> name and level
  ids,          \* ids given so far
  src,          \* names of the directives of the new version
  run,          \* run -> its step and its shell and python variables
  starts,       \* runs so far
  faults,       \* faults so far
  broken,       \* did a request fail, or a call find the lock taken
  overlap       \* did two runs overlap

server == <<rules, dirs, ids>>
past   == <<starts, faults, broken, overlap>>
vars   == <<server, src, run, past>>

NoRule == 0
Blank  == [lvl |-> 0, dirs |-> {}, inc |-> {}, exc |-> {}]
Idle   == [pc |-> "idle", found |-> FALSE, old |-> NoRule, new |-> NoRule, del |-> NoRule,
           todo |-> {}, made |-> {}, nocopy |-> FALSE, r1 |-> Blank, r2 |-> Blank]

Init ==
  /\ src \in Versions
  /\ dirs = [k \in OldDirs \X {0} |-> [name |-> k[1], lvl |-> 0]]
  /\ rules = [k \in {1} |-> [lvl |-> 0, dirs |-> OldDirs \X {0}, inc |-> Groups, exc |-> XGroups]]
  /\ ids = 1
  /\ run = [r \in Runs |-> Idle]
  /\ starts = 0 /\ faults = 0 /\ broken = FALSE /\ overlap = FALSE

----------------------------------------------------------------------------
(* The server. *)

Find(lvl) == LET s == {k \in DOMAIN rules : rules[k].lvl = lvl}
             IN  IF s = {} THEN NoRule ELSE CHOOSE k \in s : TRUE

RuleFree(lvl, own) == \A j \in DOMAIN rules \ own : rules[j].lvl # lvl
DirFree(d, own)    == \A j \in DOMAIN dirs \ own : dirs[j] # d

RulePosted(k, rule) == <<[rules EXCEPT ![k] = rule], dirs, ids>>
DirPosted(k, d)     == <<rules, [dirs EXCEPT ![k] = d], ids>>
NewDir(d)           == <<d.name, ids + 1>>
Added(f, k, v)      == [j \in DOMAIN f \cup {k} |-> IF j = k THEN v ELSE f[j]]
RulePut(rule)       == <<Added(rules, ids + 1, rule), dirs, ids + 1>>
DirPut(d)           == <<rules, Added(dirs, NewDir(d), d), ids + 1>>
RuleDeleted(k)      == <<Restrict(rules, DOMAIN rules \ {k}), dirs, ids>>
DirDeleted(k)       == <<[j \in DOMAIN rules |-> [rules[j] EXCEPT !.dirs = @ \ {k}]], Restrict(dirs, DOMAIN dirs \ {k}), ids>>

----------------------------------------------------------------------------
(* Requests and their answers.  A GET that fails, and any request that is  *)
(* broken off, end rule-replica by sys.exit(), which is status 0.          *)

NoFault == UNCHANGED <<faults, broken>>
Fault   == faults < MaxFaults /\ faults' = faults + 1 /\ broken' = TRUE

Go(r, next) == run' = [run EXCEPT ![r] = next]
To(r, pc)   == [run[r] EXCEPT !.pc = pc]
Becomes(s)  == rules' = s[1] /\ dirs' = s[2] /\ ids' = s[3]

\* Steps in the middle of a call.
InCall == {"rnpost", "rndirs", "copydirs", "copyrule", "xpost", "mget", "mpost2", "mpost1", "deldirs", "delrule"}
Locked(r) == SameSource /\ \E q \in Runs \ {r} : run[q].pc \in InCall

\* A GET: answered or failed, or never sent because the lock was taken.
Get(r, can, next, exit, locked) ==
  /\ \/ ~Locked(r) /\ can /\ Go(r, next) /\ NoFault
     \/ ~Locked(r) /\ ~can /\ Go(r, exit) /\ NoFault
     \/ ~Locked(r) /\ Fault /\ Go(r, exit)
     \/ Locked(r) /\ Go(r, locked) /\ broken' = TRUE /\ UNCHANGED faults
     \/ Fault /\ Go(r, locked)
  /\ UNCHANGED <<server, src, starts, overlap>>

\* PUT, POST, DELETE: done; refused; an HTTP error; or broken off, done or not.
Request(r, can, result, next, refused, exit) ==
  /\ \/ can /\ Becomes(result) /\ Go(r, next) /\ NoFault
     \/ ~can /\ UNCHANGED server /\ Go(r, refused) /\ NoFault
     \/ Fault /\ UNCHANGED server /\ Go(r, refused)
     \/ Fault /\ UNCHANGED server /\ Go(r, exit)
     \/ Fault /\ can /\ Becomes(result) /\ Go(r, exit)
  /\ UNCHANGED <<src, starts, overlap>>

Local(r, next) == Go(r, next) /\ NoFault /\ UNCHANGED <<server, src, starts, overlap>>

Abort(r) == To(r, "idle")

----------------------------------------------------------------------------
(* The script, call by call. *)

\* The rule's name is all the operator gives, or after an interrupted run, "if it
\* was already renamed", OLD=uuid NORENAME=1, and NOCOPY=1 if it was copied too.
Active(q) == run[q].pc \notin {"idle", "done"}

Start(r) ==
  /\ ~Active(r) /\ starts < MaxStarts
  /\ starts' = starts + 1
  /\ overlap' = (overlap \/ \E q \in Runs : Active(q))
  /\ \/ Go(r, [Idle EXCEPT !.pc = "srcinfo"])
     \/ /\ Find(1) # NoRule /\ \A q \in Runs : ~Active(q)
        /\ \E nocopy \in BOOLEAN :
             Go(r, [Idle EXCEPT !.pc = "srcinfo", !.old = Find(1), !.nocopy = nocopy])
  /\ UNCHANGED <<server, src, faults, broken>>

\* rule-replica -i: the uuid on the source host.  Nobody looks whether there is one.
SrcInfo(r) ==
  LET next == IF run[r].old = NoRule THEN "oldinfo" ELSE IF run[r].nocopy THEN "newinfo" ELSE "copyget"
  IN  /\ run[r].pc = "srcinfo"
      /\ Get(r, TRUE, [To(r, next) EXCEPT !.found = TRUE], To(r, next), To(r, next))

\* rule-replica -I: the old rule on the destination, "Old rule not found" without one.
OldInfo(r) ==
  /\ run[r].pc = "oldinfo"
  /\ Get(r, Find(0) # NoRule, [To(r, "rnget") EXCEPT !.old = Find(0)], Abort(r), Abort(r))

\* rule-replica -r: the prefix for the rule ...
RenameGet(r) ==
  LET k == run[r].old IN
  /\ run[r].pc = "rnget"
  /\ \/ k \in DOMAIN rules /\ Get(r, TRUE, [To(r, "rnpost") EXCEPT !.r1 = rules[k]], To(r, "copyget"), Abort(r))
     \/ k \notin DOMAIN rules /\ Get(r, FALSE, Idle, To(r, "copyget"), Abort(r))

Renamed(lvl) == lvl + 1

DirsToRename(rule) == rule.dirs

RenameRule(r) ==
  LET old == [run[r].r1 EXCEPT !.lvl = Renamed(@)]  k == run[r].old IN
  /\ run[r].pc = "rnpost"
  /\ Request(r, k \in DOMAIN rules /\ RuleFree(old.lvl, {k}), RulePosted(k, old),
             [To(r, "rndirs") EXCEPT !.todo = DirsToRename(old)], Abort(r), To(r, "copyget"))

\* ... and for each directive, which is read and posted in one step here.
RenameDirective(r) ==
  /\ run[r].pc = "rndirs"
  /\ \/ run[r].todo = {} /\ Local(r, To(r, "copyget"))
     \/ \E k \in run[r].todo :
          \/ /\ k \in DOMAIN dirs
             /\ LET d == [dirs[k] EXCEPT !.lvl = Renamed(@)] IN
                Request(r, DirFree(d, {k}), DirPosted(k, d),
                        [run[r] EXCEPT !.todo = @ \ {k}], Abort(r), To(r, "copyget"))
          \/ k \notin DOMAIN dirs /\ Local(r, To(r, "copyget"))

\* rule-replica -s: directives first.  An empty uuid sends nothing.
CopyGet(r) ==
  /\ run[r].pc = "copyget"
  /\ Get(r, TRUE, IF run[r].found THEN [To(r, "copydirs") EXCEPT !.todo = {[name |-> n, lvl |-> 0] : n \in src}]
                                  ELSE To(r, "newinfo"),
         To(r, "newinfo"), Abort(r))

CopyDirective(r) ==
  /\ run[r].pc = "copydirs"
  /\ \/ run[r].todo = {} /\ Local(r, To(r, "copyrule"))
     \/ \E d \in run[r].todo :
          Request(r, DirFree(d, {}), DirPut(d),
                  [run[r] EXCEPT !.todo = @ \ {d}, !.made = @ \cup {NewDir(d)}], Abort(r), To(r, "newinfo"))

\* A rule of this name that exists, or another error, is no error here.
CopyRule(r) ==
  /\ run[r].pc = "copyrule"
  /\ Request(r, RuleFree(0, {}), RulePut([Blank EXCEPT !.dirs = run[r].made]),
             To(r, "newinfo"), To(r, "newinfo"), To(r, "newinfo"))

MoveStart == "xget"

NewInfo(r) ==
  /\ run[r].pc = "newinfo"
  /\ Get(r, Find(0) # NoRule, [To(r, MoveStart) EXCEPT !.new = Find(0)], Abort(r), Abort(r))

\* rule-replica -G All -g All: add the excluded groups, add the included groups,
\* "finally, remove groups" from the old rule.  No error is one, no status counts.
\* Both rules are read in one step here.
Both(r) == {run[r].old, run[r].new} \subseteq DOMAIN rules
BothRead(r, pc) == IF Both(r) THEN [To(r, pc) EXCEPT !.r1 = rules[run[r].old], !.r2 = rules[run[r].new]] ELSE Idle

XGet(r) ==
  /\ run[r].pc = "xget"
  /\ Get(r, Both(r), BothRead(r, "xpost"), To(r, "delinfo"), To(r, "delinfo"))

XPost(r) ==
  LET k == run[r].new  rule == [run[r].r2 EXCEPT !.exc = @ \cup run[r].r1.exc] IN
  /\ run[r].pc = "xpost"
  /\ Request(r, k \in DOMAIN rules /\ RuleFree(rule.lvl, {k}), RulePosted(k, rule),
             To(r, "mget"), To(r, "mget"), To(r, "delinfo"))

MGet(r) ==
  /\ run[r].pc = "mget"
  /\ Get(r, Both(r), BothRead(r, "mpost2"), To(r, "delinfo"), To(r, "delinfo"))

\* "It's a bad idea to rewrite all groups".
Included_Rewrite(r1, r2) == r1.inc    \* (mutant) all groups are rewritten
Included(r1, r2) == r2.inc \cup r1.inc

MPost2(r) ==
  LET k == run[r].new  rule == [run[r].r2 EXCEPT !.inc = Included(run[r].r1, run[r].r2)] IN
  /\ run[r].pc = "mpost2"
  /\ Request(r, k \in DOMAIN rules /\ RuleFree(rule.lvl, {k}), RulePosted(k, rule),
             To(r, "mpost1"), To(r, "mpost1"), To(r, "delinfo"))

MPost1(r) ==
  LET k == run[r].old  rule == [run[r].r1 EXCEPT !.inc = {}] IN
  /\ run[r].pc = "mpost1"
  /\ Request(r, k \in DOMAIN rules /\ RuleFree(rule.lvl, {k}), RulePosted(k, rule),
             To(r, "delinfo"), To(r, "delinfo"), To(r, "delinfo"))

\* CLEAN: rule-replica -I again, and -d with what has the prefix; the rule and its
\* directives are read in one step here.
DelInfo(r) ==
  /\ run[r].pc = "delinfo"
  /\ Get(r, Find(1) # NoRule, [To(r, "delcheck") EXCEPT !.del = Find(1)], To(r, "done"), To(r, "done"))

Prefixed(rule) == rule.lvl > 0 /\ \A k \in rule.dirs : k \in DOMAIN dirs /\ dirs[k].lvl > 0

DelCheck(r) ==
  LET k == run[r].del IN
  /\ run[r].pc = "delcheck"
  /\ \/ /\ k \in DOMAIN rules /\ Prefixed(rules[k])
        /\ Get(r, TRUE, [To(r, "deldirs") EXCEPT !.todo = rules[k].dirs], To(r, "done"), To(r, "done"))
     \/ /\ ~(k \in DOMAIN rules /\ Prefixed(rules[k]))
        /\ Local(r, To(r, "done"))

DelDirective(r) ==
  /\ run[r].pc = "deldirs"
  /\ \/ run[r].todo = {} /\ Local(r, To(r, "delrule"))
     \/ \E k \in run[r].todo :
          \/ /\ k \in DOMAIN dirs
             /\ Request(r, TRUE, DirDeleted(k), [run[r] EXCEPT !.todo = @ \ {k}],
                        [run[r] EXCEPT !.todo = @ \ {k}], To(r, "done"))
          \/ k \notin DOMAIN dirs /\ Local(r, To(r, "done"))

DelRule(r) ==
  /\ run[r].pc = "delrule"
  /\ Request(r, run[r].del \in DOMAIN rules, RuleDeleted(run[r].del), To(r, "done"), To(r, "done"), To(r, "done"))

\* The script is interrupted between two requests.
Kill(r) ==
  /\ Active(r)
  /\ faults < MaxFaults /\ faults' = faults + 1
  /\ Go(r, Idle)
  /\ UNCHANGED <<server, src, starts, broken, overlap>>

----------------------------------------------------------------------------
Step(r) ==
  \/ Start(r) \/ SrcInfo(r) \/ OldInfo(r)
  \/ RenameGet(r) \/ RenameRule(r) \/ RenameDirective(r)
  \/ CopyGet(r) \/ CopyDirective(r) \/ CopyRule(r) \/ NewInfo(r)
  \/ XGet(r) \/ XPost(r) \/ MGet(r) \/ MPost2(r) \/ MPost1(r)
  \/ DelInfo(r) \/ DelCheck(r) \/ DelDirective(r) \/ DelRule(r)

Next == \E r \in Runs : Step(r) \/ Kill(r)

Spec == Init /\ [][Next]_vars

----------------------------------------------------------------------------
(* Properties. *)

Ids    == 1 .. ids
DirIds == (OldDirs \cup UNION Versions) \X (0 .. ids)
RuleRecords == [lvl : Nat, dirs : SUBSET DirIds, inc : SUBSET Groups, exc : SUBSET XGroups]
Steps  == {"idle", "srcinfo", "oldinfo", "rnget", "rnpost", "rndirs", "copyget", "copydirs", "copyrule", "newinfo",
           "xget", "xpost", "mget", "mpost2", "mpost1", "delinfo", "delcheck", "deldirs", "delrule", "done"}

TypeOK ==
  /\ DOMAIN rules \subseteq Ids /\ \A k \in DOMAIN rules : rules[k] \in RuleRecords
  /\ DOMAIN dirs \subseteq DirIds /\ \A k \in DOMAIN dirs : dirs[k].name = k[1] /\ dirs[k].lvl \in Nat
  /\ \A r \in Runs : /\ run[r].pc \in Steps /\ {run[r].old, run[r].new, run[r].del} \subseteq Ids \cup {NoRule}
                     /\ run[r].made \subseteq DirIds /\ {run[r].r1, run[r].r2} \subseteq RuleRecords

\* No group falls out of all rules: "Now, migrating all groups".
GroupsKept == \A g \in Groups : \E k \in DOMAIN rules : g \in rules[k].inc

\* A rule never includes groups before it excludes what the old one excluded.
ExcludedFirst == \A k \in DOMAIN rules : rules[k].inc # {} => XGroups \subseteq rules[k].exc

\* Both hold as long as every request is answered and runs follow each other,
\* wherever they are interrupted and however they are taken up again.
KeptIfAnswered == broken \/ overlap \/ (GroupsKept /\ ExcludedFirst)
=============================================================================
