------------------------ MODULE DriftDetection_proofs ------------------------
(***************************************************************************)
(* Proofs about DriftDetection, for any fields, paths, values, bounds and  *)
(* faults, with a cache that may be stale: the types, that substituted     *)
(* values stay out of the spec, that the modes keep their promise, that    *)
(* ignored paths stay as recorded and the others are sent, and which paths *)
(* can be ignored at all.                                                  *)
(***************************************************************************)
EXTENDS DriftDetection, SequenceTheorems, TLAPS

\* Two copies that differ in the condition at most.
Alike(c, d) == /\ c.spec = d.spec /\ c.ann = d.ann /\ c.mode = d.mode
               /\ c.ignore = d.ignore /\ c.fin = d.fin /\ c.deleting = d.deleting

FreshOK == pc # "idle" /\ fresh => Alike(cr, obj)

\* What a snapshot holds: of a live field a text that is no value, or nothing
\* when there was no answer; of any other the recorded value.
Faithful(c, snap) ==
    /\ DOMAIN snap = IgnorePaths(c.ignore)
    /\ \A f \in IgnorePaths(c.ignore) :
         IF f \in Live THEN snap[f] \notin Values \/ snap[f] = Zero
         ELSE snap[f] = IF c.ann = Nothing THEN Zero ELSE c.ann[f]

\* What an Update records keeps what is recorded of the ignored paths, as far as
\* they were observed.
Keeps(c, snap, cmd) ==
    \A f \in IgnorePaths(c.ignore) :
       c.ann # Nothing /\ c.ann[f] # Zero /\ (f \in Live => snap[f] # Zero) => cmd[f] = c.ann[f]

Working == {"reobserve", "protect", "create", "update", "delete", "release", "persist"}

\* Why each step of the worker is justified when it is taken.
StepOK ==
    /\ pc \in Working => ~ReadConfigFails(cr.ignore)
    /\ pc = "create" => ~verdict.exists
    /\ pc = "update" => verdict.exists /\ ~verdict.upToDate
    /\ pc = "reobserve" => verdict.exists /\ cr.mode = "enabled"
    /\ pc \in {"protect", "update"} /\ verdict.exists /\ ~verdict.upToDate => cr.mode = "enabled"
    /\ pc \in {"reobserve", "protect", "update"} /\ verdict.exists => Faithful(cr, captured)
    /\ pc = "persist" => command \in Specs /\ (verdict.exists => Keeps(cr, captured, command))

IInv == TypeOK /\ FreshOK /\ StepOK

Verdicts == [exists : BOOLEAN, upToDate : BOOLEAN]
Snapshots == UNION {[i -> Texts] : i \in SUBSET Fields}

-----------------------------------------------------------------------------
LEMMA Sound == /\ Live \subseteq Fields /\ Values \subseteq Nat /\ Zero \in Values
               /\ Modes \subseteq AllModes /\ MaxEdits \in Nat /\ MaxFaults \in Nat
BY FieldsAssumption, ValuesAssumption, ModesAssumption, LimitsAssumption

LEMMA IgnoredAreFields == \A ps \in SUBSET Paths : IgnorePaths(ps) \subseteq Fields
BY PathsAssumption DEF IgnorePaths

LEMMA NoPaths == IgnorePaths({}) = {}
BY DEF IgnorePaths

LEMMA BannersAreNoValues == \A v \in Values : Banner(v) \in Texts /\ Banner(v) \notin Values
<1> TAKE v \in Values
<1>1. v \in Nat
  BY Sound
<1>2. Banner(v) \notin Nat
  BY <1>1 DEF Banner
<1> QED
  BY <1>2, Sound DEF Texts

\* The operators on a copy keep its type and everything but the condition.
LEMMA ReportedIsAlike ==
    \A c \in Objects, r \in Conditions : Reported(c, r) \in Objects /\ Alike(Reported(c, r), c)
BY DEF Reported, Objects, Alike

LEMMA SpecsAreTexts == Specs \subseteq Commands
BY DEF Specs, Commands, Texts

LEMMA SnapshotIsFaithful ==
    ASSUME NEW c \in Objects, NEW h \in Hosts, NEW a \in BOOLEAN
    PROVE  snapshot(c, h, a) \in Snapshots /\ Faithful(c, snapshot(c, h, a))
<1>1. IgnorePaths(c.ignore) \subseteq Fields
  BY IgnoredAreFields DEF Objects
<1>2. \A f \in Fields : h.flags[f] \in Values
  BY DEF Hosts, Specs
<1>3. c.ann # Nothing => \A f \in Fields : c.ann[f] \in Values
  BY DEF Objects, Specs
<1> DEFINE seen(f) == atProvider(c, h, a)[f]
<1>4. \A f \in Fields : /\ seen(f) \in Texts
                        /\ f \in Live => seen(f) \notin Values \/ seen(f) = Zero
                        /\ f \notin Live => seen(f) = IF c.ann = Nothing THEN Zero ELSE c.ann[f]
  BY <1>2, <1>3, BannersAreNoValues, Sound DEF atProvider, Texts
<1>5. snapshot(c, h, a) \in [IgnorePaths(c.ignore) -> Texts]
  BY <1>1, <1>4 DEF snapshot
<1>6. Faithful(c, snapshot(c, h, a))
  BY <1>1, <1>4, Zenon DEF snapshot, Faithful
<1> QED
  BY <1>1, <1>5, <1>6 DEF Snapshots

LEMMA ApplyIsCommand ==
    ASSUME NEW s \in Specs, NEW snap \in Snapshots
    PROVE  apply(s, snap) \in Commands
<1>1. PICK i \in SUBSET Fields : snap \in [i -> Texts]
  BY DEF Snapshots
<1>2. \A f \in Fields : s[f] \in Texts
  BY DEF Specs, Texts
<1> QED
  BY <1>1, <1>2 DEF apply, Commands

\* The substitution carries the recorded values into a command the host takes.
LEMMA ApplyKeeps ==
    ASSUME NEW c \in Objects, NEW snap, Faithful(c, snap), apply(c.spec, snap) \in Specs
    PROVE  Keeps(c, snap, apply(c.spec, snap))
<1> SUFFICES ASSUME NEW f \in IgnorePaths(c.ignore), c.ann # Nothing, c.ann[f] # Zero,
                    f \in Live => snap[f] # Zero
             PROVE  apply(c.spec, snap)[f] = c.ann[f]
  BY DEF Keeps
<1>1. f \in Fields /\ f \in DOMAIN snap
  BY IgnoredAreFields DEF Objects, Faithful
<1>2. apply(c.spec, snap)[f] \in Values
  BY <1>1 DEF Specs
<1>3. apply(c.spec, snap)[f] = IF snap[f] = Zero THEN c.spec[f] ELSE snap[f]
  BY <1>1 DEF apply, unobserved
<1>4. CASE f \in Live
  <2>1. snap[f] \notin Values /\ snap[f] # Zero
    BY <1>4 DEF Faithful
  <2> QED
    BY <1>2, <1>3, <2>1
<1>5. CASE f \notin Live
  <2>1. snap[f] = c.ann[f]
    BY <1>5 DEF Faithful
  <2> QED
    BY <1>3, <2>1
<1> QED
  BY <1>4, <1>5

LEMMA Decisions ==
    ASSUME NEW c, NEW v, Decide(c, v)
    PROVE  /\ pc' \in {"protect", "create", "update", "status", "delete", "release"}
           /\ pc' = "create" => ~v.exists
           /\ pc' = "update" => v.exists /\ ~v.upToDate
BY DEF Decide

\* Alike copies have the same snapshots and keep the same paths.
LEMMA AlikeIsEnough ==
    \A c, d : Alike(c, d) =>
        /\ \A snap : Faithful(c, snap) <=> Faithful(d, snap)
        /\ \A snap, cmd : Keeps(c, snap, cmd) <=> Keeps(d, snap, cmd)
        /\ \A e : Alike(d, e) => Alike(c, e)
BY DEF Alike, Faithful, Keeps

-----------------------------------------------------------------------------
LEMMA Initially == Init => IInv
<1> SUFFICES ASSUME Init PROVE IInv
  OBVIOUS
<1>1. PICK s \in Specs :
        obj = [spec |-> s, ann |-> Nothing, mode |-> "enabled", ignore |-> {},
               fin |-> FALSE, deleting |-> FALSE, cond |-> "none"]
  BY DEF Init
<1>2. obj \in Objects
  BY <1>1 DEF Objects, AllModes, Conditions
<1>3. host \in Hosts
  BY <1>1 DEF Init, Hosts
<1>4. Nothing \in Snapshots
  BY DEF Nothing, Snapshots
<1>5. edits \in 0..MaxEdits /\ faults \in 0..MaxFaults
  BY Sound DEF Init
<1>6. TypeOK
  BY <1>2, <1>3, <1>4, <1>5 DEF Init, TypeOK, Snapshots
<1>7. FreshOK /\ StepOK
  BY DEF Init, FreshOK, StepOK, Working
<1> QED
  BY <1>6, <1>7 DEF IInv

\* A write of an object, with the cache delayed or not.
LEMMA WriteKeeps == \A o \in Objects : TypeOK /\ Write(o) => obj' \in Objects /\ cache' \in Objects
BY DEF Write, TypeOK

\* A verdict ends Observe.
LEMMA JudgedKeeps ==
    ASSUME IInv, NEW c \in Objects, NEW v \in Verdicts, Alike(c, cr), Judged(c, v),
           pc \in {"observe", "reobserve"}, ~ReadConfigFails(cr.ignore),
           v.exists /\ ~v.upToDate => cr.mode = "enabled",
           captured' \in Snapshots, v.exists => Faithful(cr, captured'),
           UNCHANGED <<obj, cache, fresh, command, host, edits>>, faults' \in 0..MaxFaults
    PROVE  IInv'
<1>1. cr' = c /\ verdict' = v /\ Decide(c, v)
  BY DEF Judged
<1>2. /\ pc' \in {"protect", "create", "update", "status", "delete", "release"}
      /\ pc' = "create" => ~v.exists
      /\ pc' = "update" => v.exists /\ ~v.upToDate
  BY <1>1, Decisions
<1>3. TypeOK'
  BY <1>1, <1>2 DEF IInv, TypeOK, Verdicts, Snapshots
<1>4. FreshOK'
  BY <1>1, AlikeIsEnough DEF IInv, FreshOK
<1>5. c.ignore = cr.ignore /\ c.mode = cr.mode /\ (v.exists => Faithful(c, captured'))
  BY AlikeIsEnough DEF Alike
<1>6. StepOK'
  BY <1>1, <1>2, <1>5, Zenon DEF StepOK
<1> QED
  BY <1>3, <1>4, <1>6 DEF IInv

\* A step of the worker to its end, which writes no more than the status.
LEMMA EndKeeps ==
    ASSUME IInv, pc' \in {"idle", "status", "observe"}, cr' \in Objects, fresh' \in BOOLEAN,
           obj' \in Objects, cache' \in Objects, host' \in Hosts,
           pc' # "idle" /\ fresh' => Alike(cr', obj'), verdict' = verdict,
           captured' \in Snapshots, command' \in Commands \cup {Nothing},
           edits' \in 0..MaxEdits, faults' \in 0..MaxFaults
    PROVE  IInv'
<1>1. TypeOK'
  BY DEF IInv, TypeOK, Snapshots
<1>2. FreshOK' /\ StepOK'
  BY DEF FreshOK, StepOK, Working
<1> QED
  BY <1>1, <1>2 DEF IInv

\* A step of somebody else, after which a full update of the copy fails.
LEMMA OthersKeep ==
    ASSUME IInv, UNCHANGED <<pc, cr, verdict, captured, command>>,
           obj' \in Objects, cache' \in Objects, host' \in Hosts,
           fresh' = FALSE \/ (fresh' = fresh /\ obj' = obj),
           edits' \in 0..MaxEdits, faults' \in 0..MaxFaults
    PROVE  IInv'
<1>1. TypeOK'
  BY DEF IInv, TypeOK
<1>2. FreshOK'
  BY DEF IInv, FreshOK
<1>3. StepOK'
  BY DEF IInv, StepOK
<1> QED
  BY <1>1, <1>2, <1>3 DEF IInv

LEMMA ObserveKeeps ==
    IInv /\ (ObserveUnreadable \/ ObserveAbsent \/ ObserveUnit \/ VersionUnread \/ Reobserve)
      => IInv'
<1> SUFFICES ASSUME IInv, \/ ObserveUnreadable \/ ObserveAbsent
                          \/ ObserveUnit \/ VersionUnread \/ Reobserve
             PROVE  IInv'
  OBVIOUS
<1>t. /\ TypeOK /\ cr \in Objects /\ host \in Hosts /\ captured \in Snapshots
      /\ Alike(cr, cr) /\ faults \in 0..MaxFaults
  BY DEF IInv, TypeOK, Snapshots, Alike
<1>v. \A e, u \in BOOLEAN : /\ [exists |-> e, upToDate |-> u] \in Verdicts
                            /\ [exists |-> e, upToDate |-> u].exists = e
                            /\ [exists |-> e, upToDate |-> u].upToDate = u
  BY DEF Verdicts
<1>u. \A s : innerUpToDate(s, cr, host) \in BOOLEAN
  BY <1>t DEF innerUpToDate, Hosts
<1>r. \A r \in Conditions : Reported(cr, r) \in Objects /\ Alike(Reported(cr, r), cr)
  BY <1>t, ReportedIsAlike
<1>c. {"InSync", "Drifted", "DriftIgnored", "IgnoredPathUnobserved"} \subseteq Conditions
  BY DEF Conditions
<1>1. CASE ObserveUnreadable
  BY <1>1, <1>t, EndKeeps DEF ObserveUnreadable, IInv, TypeOK, FreshOK
<1>2. CASE ObserveAbsent
  <2>1. ~ReadConfigFails(cr.ignore)
    BY <1>2 DEF ObserveAbsent, Unreadable
  <2> QED
    BY <1>2, <1>t, <1>v, <2>1, JudgedKeeps DEF ObserveAbsent
<1>3. ASSUME NEW a \in BOOLEAN, Observed(a), faults' \in 0..MaxFaults PROVE IInv'
  <2> DEFINE up == innerUpToDate(cr.spec, cr, host)
  <2>1. /\ pc = "observe" /\ ~ReadConfigFails(cr.ignore) /\ captured' = snapshot(cr, host, a)
        /\ JudgeHandsOff(up) \/ JudgeEnabled(up, captured')
        /\ UNCHANGED <<obj, cache, fresh, command, host, edits>>
    BY <1>3 DEF Observed, Unreadable
  <2>2. captured' \in Snapshots /\ Faithful(cr, captured')
    BY <1>t, <2>1, SnapshotIsFaithful
  <2>3. up \in BOOLEAN
    BY <1>u
  <2> HIDE DEF up
  <2>4. CASE JudgeHandsOff(up)
    <3>1. CASE cr.mode = "disabled" /\ Judged(cr, [exists |-> TRUE, upToDate |-> TRUE])
      BY <1>t, <1>v, <2>1, <2>2, <3>1, <1>3, JudgedKeeps
    <3>2. CASE cr.mode = "warn"
               /\ Judged(Reported(cr, IF up THEN "InSync" ELSE "Drifted"),
                         [exists |-> TRUE, upToDate |-> warnVerdict(up)])
      <4>1. Reported(cr, IF up THEN "InSync" ELSE "Drifted") \in Objects
            /\ Alike(Reported(cr, IF up THEN "InSync" ELSE "Drifted"), cr)
        BY <1>r, <1>c
      <4> QED
        BY <1>v, <2>1, <2>2, <3>2, <4>1, <1>3, JudgedKeeps DEF warnVerdict
    <3> QED
      BY <2>4, <3>1, <3>2 DEF JudgeHandsOff
  <2>5. CASE JudgeEnabled(up, captured')
    <3> DEFINE noted == IF unobserved(captured') # {} THEN Reported(cr, "IgnoredPathUnobserved")
                        ELSE IF up THEN Reported(cr, "InSync") ELSE cr
    <3>1. noted \in Objects /\ Alike(noted, cr)
      BY <1>t, <1>r, <1>c
    <3>2. /\ cr.mode = "enabled"
          /\ \/ Judged(cr, [exists |-> TRUE, upToDate |-> up])
             \/ Judged(noted, [exists |-> TRUE, upToDate |-> TRUE])
             \/ pc' = "reobserve" /\ cr' = noted
                /\ verdict' = [exists |-> TRUE, upToDate |-> FALSE]
      BY <2>5 DEF JudgeEnabled
    <3> HIDE DEF noted
    <3>3. CASE Judged(cr, [exists |-> TRUE, upToDate |-> up])
      BY <1>t, <1>v, <2>1, <2>2, <2>3, <3>2, <3>3, <1>3, JudgedKeeps
    <3>4. CASE Judged(noted, [exists |-> TRUE, upToDate |-> TRUE])
      BY <1>v, <2>1, <2>2, <3>1, <3>2, <3>4, <1>3, JudgedKeeps
    <3>5. CASE pc' = "reobserve" /\ cr' = noted
               /\ verdict' = [exists |-> TRUE, upToDate |-> FALSE]
      <4>1. TypeOK'
        BY <1>t, <1>3, <2>1, <2>2, <3>1, <3>5 DEF TypeOK, Snapshots
      <4>2. FreshOK'
        BY <2>1, <3>1, <3>5, AlikeIsEnough DEF IInv, FreshOK
      <4>3. noted.mode = "enabled" /\ noted.ignore = cr.ignore /\ Faithful(noted, captured')
        BY <2>2, <3>1, <3>2, AlikeIsEnough DEF Alike
      <4>4. StepOK'
        BY <2>1, <3>5, <4>3 DEF StepOK
      <4> QED
        BY <4>1, <4>2, <4>4 DEF IInv
    <3> QED
      BY <3>2, <3>3, <3>4, <3>5
  <2> QED
    BY <2>1, <2>4, <2>5
<1>4. CASE Reobserve
  <2> DEFINE up == innerUpToDate(apply(cr.spec, captured), cr, host)
             r == IF up THEN "DriftIgnored" ELSE "Drifted"
  <2>1. /\ pc = "reobserve" /\ Judged(Reported(cr, r), [exists |-> TRUE, upToDate |-> up])
        /\ UNCHANGED <<obj, cache, fresh, captured, command, host, edits, faults>>
    BY <1>4 DEF Reobserve, ReobserveLeaving
  <2>2. up \in BOOLEAN /\ Reported(cr, r) \in Objects /\ Alike(Reported(cr, r), cr)
    BY <1>u, <1>r, <1>c
  <2>3. ~ReadConfigFails(cr.ignore) /\ cr.mode = "enabled" /\ Faithful(cr, captured)
    BY <2>1 DEF IInv, StepOK, Working
  <2> HIDE DEF up, r
  <2> QED
    BY <1>t, <1>v, <2>1, <2>2, <2>3, JudgedKeeps
<1>5. CASE ObserveUnit
  BY <1>t, <1>3, <1>5 DEF ObserveUnit
<1>6. CASE VersionUnread
  <2>1. faults' \in 0..MaxFaults
    BY <1>t, <1>6, Sound DEF VersionUnread
  <2> QED
    BY <1>3, <1>6, <2>1 DEF VersionUnread
<1> QED
  BY <1>1, <1>2, <1>4, <1>5, <1>6

LEMMA ProtectKeeps == IInv /\ AddFinalizer => IInv'
<1> SUFFICES ASSUME IInv, AddFinalizer PROVE IInv'
  OBVIOUS
<1>t. /\ TypeOK /\ cr \in Objects /\ obj \in Objects /\ cache \in Objects /\ host \in Hosts
      /\ captured \in Snapshots /\ pc = "protect"
      /\ UNCHANGED <<fresh, verdict, captured, command, host, edits, faults>>
  BY DEF IInv, TypeOK, Snapshots, AddFinalizer
<1>1. CASE fresh /\ ~Gone(obj)
  <2> DEFINE c == [cr EXCEPT !.fin = TRUE, !.cond = obj.cond]
  <2>1. Write(c) /\ cr' = c /\ Decide(c, verdict)
    BY <1>1 DEF AddFinalizer
  <2>2. /\ c \in Objects /\ c.fin /\ c.mode = cr.mode /\ c.ignore = cr.ignore
        /\ c.ann = cr.ann /\ Alike(c, c)
    BY <1>t DEF Objects, Alike
  <2>3. Faithful(cr, captured) <=> Faithful(c, captured)
    BY <2>2 DEF Faithful
  <2> HIDE DEF c
  <2>4. /\ pc' \in {"create", "update", "status", "delete", "release"}
        /\ pc' = "create" => ~verdict.exists
        /\ pc' = "update" => verdict.exists /\ ~verdict.upToDate
    BY <2>1, <2>2 DEF Decide
  <2>5. TypeOK'
    BY <1>t, <2>1, <2>2, <2>4 DEF TypeOK, Write
  <2>6. FreshOK'
    BY <2>1, <2>2 DEF FreshOK, Write
  <2>7. StepOK'
    BY <1>t, <2>1, <2>2, <2>3, <2>4 DEF IInv, StepOK, Working
  <2> QED
    BY <2>5, <2>6, <2>7 DEF IInv
<1>2. CASE ~(fresh /\ ~Gone(obj))
  <2>1. pc' = "idle" /\ UNCHANGED <<obj, cache, cr>>
    BY <1>2 DEF AddFinalizer
  <2> QED
    BY <1>t, <2>1, EndKeeps DEF TypeOK
<1> QED
  BY <1>1, <1>2

\* Create and Update: a command the host takes waits to be recorded.
LEMMA SendsKeeps ==
    ASSUME IInv, NEW c \in Commands, Sends(c), ~ReadConfigFails(cr.ignore), pc # "idle",
           c \in Specs /\ verdict.exists => Keeps(cr, captured, c)
    PROVE  IInv'
<1>t. /\ cr \in Objects /\ obj \in Objects /\ cache \in Objects /\ host \in Hosts
      /\ captured \in Snapshots /\ fresh \in BOOLEAN
      /\ edits \in 0..MaxEdits /\ faults \in 0..MaxFaults
      /\ command' = c /\ UNCHANGED <<obj, cache, cr, fresh, verdict, captured, edits, faults>>
  BY DEF IInv, TypeOK, Snapshots, Sends
<1>1. CASE c \in Specs
  <2>1. host' = [loaded |-> TRUE, ready |-> FALSE, flags |-> c] /\ pc' = "persist"
    BY <1>1 DEF Sends
  <2>2. TypeOK'
    BY <1>t, <1>1, <2>1 DEF IInv, TypeOK, Hosts
  <2>3. FreshOK' /\ StepOK'
    BY <1>t, <1>1, <2>1 DEF IInv, FreshOK, StepOK
  <2> QED
    BY <2>2, <2>3 DEF IInv
<1>2. CASE c \notin Specs
  <2>1. host' = host /\ pc' = "status"
    BY <1>2 DEF Sends
  <2> QED
    BY <1>t, <2>1, EndKeeps DEF IInv, FreshOK
<1> QED
  BY <1>1, <1>2

LEMMA CommandsKeep == IInv /\ (Create \/ Update) => IInv'
<1> SUFFICES ASSUME IInv, Create \/ Update PROVE IInv'
  OBVIOUS
<1>t. cr \in Objects /\ captured \in Snapshots /\ cr.spec \in Specs /\ cr.spec \in Commands
  BY SpecsAreTexts DEF IInv, TypeOK, Snapshots, Objects
<1>1. CASE Create
  <2>1. pc = "create" /\ Sends(cr.spec)
    BY <1>1 DEF Create, createCommand
  <2>2. ~ReadConfigFails(cr.ignore) /\ ~verdict.exists
    BY <2>1 DEF IInv, StepOK, Working
  <2> QED
    BY <1>t, <2>1, <2>2, SendsKeeps
<1>2. CASE Update
  <2>1. pc = "update" /\ Sends(updateCommand)
    BY <1>2 DEF Update
  <2>2. ~ReadConfigFails(cr.ignore) /\ cr.mode = "enabled" /\ Faithful(cr, captured)
    BY <2>1 DEF IInv, StepOK, Working
  <2>3. CASE cr.ignore = {}
    <3>1. updateCommand = cr.spec
      BY <2>3 DEF updateCommand
    <3>2. Keeps(cr, captured, cr.spec)
      BY <2>3, NoPaths DEF Keeps
    <3> QED
      BY <1>t, <2>1, <2>2, <3>1, <3>2, SendsKeeps
  <2>4. CASE cr.ignore # {}
    <3>1. updateCommand = apply(cr.spec, captured)
      BY <2>2, <2>4 DEF updateCommand
    <3>2. updateCommand \in Commands
      BY <1>t, <3>1, ApplyIsCommand
    <3>3. updateCommand \in Specs => Keeps(cr, captured, updateCommand)
      BY <1>t, <2>2, <3>1, ApplyKeeps
    <3> QED
      BY <2>1, <2>2, <3>2, <3>3, SendsKeeps
  <2> QED
    BY <2>3, <2>4
<1> QED
  BY <1>1, <1>2

LEMMA EndingsKeep ==
    IInv /\ (StartReconcile \/ Persist \/ WriteStatus \/ Delete \/ RemoveFinalizer \/ WorkerFails)
      => IInv'
<1> SUFFICES ASSUME IInv, StartReconcile \/ Persist \/ WriteStatus \/ Delete
                          \/ RemoveFinalizer \/ WorkerFails
             PROVE  IInv'
  OBVIOUS
<1>t. /\ cr \in Objects /\ obj \in Objects /\ cache \in Objects /\ host \in Hosts
      /\ captured \in Snapshots /\ fresh \in BOOLEAN /\ command \in Commands \cup {Nothing}
      /\ edits \in 0..MaxEdits /\ faults \in 0..MaxFaults
  BY DEF IInv, TypeOK, Snapshots
<1>n. Nothing \in Snapshots
  BY DEF Nothing, Snapshots
<1>1. CASE StartReconcile
  <2>1. cache = obj => Alike(cache, obj)
    BY DEF Alike
  <2>2. /\ pc' = "observe" /\ cr' = cache /\ fresh' = (cache = obj) /\ captured' = Nothing
        /\ command' = Nothing /\ UNCHANGED <<obj, cache, verdict, host, edits, faults>>
    BY <1>1 DEF StartReconcile
  <2>3. fresh' \in BOOLEAN /\ (fresh' => Alike(cr', obj'))
    BY <2>1, <2>2
  <2> QED
    BY <1>t, <1>n, <2>2, <2>3, EndKeeps
<1>2. CASE Persist
  <2>1. command \in Specs
    BY <1>2 DEF Persist, IInv, StepOK
  <2>2. [obj EXCEPT !.ann = recorded] \in Objects
    BY <1>t, <2>1 DEF Objects, recorded
  <2>3. obj' \in Objects /\ cache' \in Objects
    BY <1>2, <2>2, WriteKeeps DEF Persist, IInv
  <2> QED
    BY <1>2, <1>t, <2>3, EndKeeps DEF Persist
<1>3. CASE WriteStatus
  <2>1. [obj EXCEPT !.cond = cr.cond] \in Objects
    BY <1>t DEF Objects
  <2>2. obj' \in Objects /\ cache' \in Objects
    BY <1>3, <1>t, <2>1, WriteKeeps DEF WriteStatus, IInv
  <2> QED
    BY <1>3, <1>t, <2>2, EndKeeps DEF WriteStatus
<1>4. CASE Delete
  <2>1. [host EXCEPT !.loaded = FALSE, !.ready = FALSE] \in Hosts
    BY <1>t DEF Hosts
  <2>2. pc # "idle" /\ (fresh => Alike(cr, obj))
    BY <1>4 DEF Delete, IInv, FreshOK
  <2> QED
    BY <1>4, <1>t, <2>1, <2>2, EndKeeps DEF Delete
<1>5. CASE RemoveFinalizer
  <2>1. [cr EXCEPT !.fin = FALSE] \in Objects
    BY <1>t DEF Objects
  <2>2. obj' \in Objects /\ cache' \in Objects
    BY <1>5, <1>t, <2>1, WriteKeeps DEF RemoveFinalizer, IInv
  <2> QED
    BY <1>5, <1>t, <2>2, EndKeeps DEF RemoveFinalizer
<1>6. CASE WorkerFails
  <2>1. faults' \in 0..MaxFaults
    BY <1>6, <1>t, Sound DEF WorkerFails
  <2> QED
    BY <1>6, <1>t, <2>1, EndKeeps DEF WorkerFails
<1> QED
  BY <1>1, <1>2, <1>3, <1>4, <1>5, <1>6

LEMMA UserWritesKeep ==
    ASSUME IInv, NEW o \in Objects, UserWrites(o)
    PROVE  IInv'
<1>1. obj' \in Objects /\ cache' \in Objects
  BY WriteKeeps DEF UserWrites, IInv
<1>2. host' \in Hosts /\ edits' \in 0..MaxEdits /\ faults' \in 0..MaxFaults
  BY Sound DEF UserWrites, IInv, TypeOK
<1>3. UNCHANGED <<pc, cr, verdict, captured, command>>
  BY DEF UserWrites
<1>4. fresh' = FALSE \/ (fresh' = fresh /\ obj' = obj)
  BY DEF UserWrites
<1> QED
  BY <1>1, <1>2, <1>3, <1>4, OthersKeep

LEMMA SurroundingsKeep ==
    IInv /\ (EditSpec \/ SetMode \/ SetIgnore \/ DeleteCluster \/ OwnerSets
             \/ Deliver \/ UnitStarts \/ HostFails) => IInv'
<1> SUFFICES ASSUME IInv, EditSpec \/ SetMode \/ SetIgnore \/ DeleteCluster \/ OwnerSets
                          \/ Deliver \/ UnitStarts \/ HostFails
             PROVE  IInv'
  OBVIOUS
<1>t. /\ obj \in Objects /\ cache \in Objects /\ host \in Hosts
      /\ edits \in 0..MaxEdits /\ faults \in 0..MaxFaults
  BY DEF IInv, TypeOK
<1>1. CASE EditSpec
  <2>1. PICK f \in Fields, v \in Values : UserWrites([obj EXCEPT !.spec[f] = v])
    BY <1>1 DEF EditSpec
  <2>2. [obj EXCEPT !.spec[f] = v] \in Objects
    BY <1>t DEF Objects, Specs
  <2> QED
    BY <2>1, <2>2, UserWritesKeep
<1>2. CASE SetMode
  <2>1. PICK m \in Modes : UserWrites([obj EXCEPT !.mode = m])
    BY <1>2 DEF SetMode
  <2>2. [obj EXCEPT !.mode = m] \in Objects
    BY <1>t, Sound DEF Objects
  <2> QED
    BY <2>1, <2>2, UserWritesKeep
<1>3. CASE SetIgnore
  <2>1. PICK i \in SUBSET Paths : UserWrites([obj EXCEPT !.ignore = i])
    BY <1>3 DEF SetIgnore
  <2>2. [obj EXCEPT !.ignore = i] \in Objects
    BY <1>t DEF Objects
  <2> QED
    BY <2>1, <2>2, UserWritesKeep
<1>4. CASE DeleteCluster
  <2>1. [obj EXCEPT !.deleting = TRUE] \in Objects
    BY <1>t DEF Objects
  <2> QED
    BY <1>4, <2>1, UserWritesKeep DEF DeleteCluster
<1>5. CASE OwnerSets
  <2>1. PICK f \in Owned, v \in Values \ {Zero} : host' = [host EXCEPT !.flags[f] = v]
    BY <1>5 DEF OwnerSets
  <2>2. host' \in Hosts
    BY <1>t, <2>1 DEF Hosts, Specs
  <2>3. edits' \in 0..MaxEdits
    BY <1>5, <1>t, Sound DEF OwnerSets
  <2> QED
    BY <1>5, <1>t, <2>2, <2>3, OthersKeep DEF OwnerSets, worker
<1>6. CASE Deliver
  BY <1>6, <1>t, OthersKeep DEF Deliver, worker
<1>7. CASE UnitStarts
  <2>1. host' \in Hosts
    BY <1>7, <1>t DEF UnitStarts, Hosts
  <2> QED
    BY <1>7, <1>t, <2>1, OthersKeep DEF UnitStarts, worker
<1>8. CASE HostFails
  <2>1. host' \in Hosts
    BY <1>8, <1>t DEF HostFails, Hosts
  <2>2. edits' \in 0..MaxEdits /\ faults' \in 0..MaxFaults
    BY <1>8, <1>t, Sound DEF HostFails
  <2>3. UNCHANGED <<obj, cache, pc, cr, fresh, verdict, captured, command>>
    BY <1>8 DEF HostFails, worker
  <2> QED
    BY <1>t, <2>1, <2>2, <2>3, OthersKeep
<1> QED
  BY <1>1, <1>2, <1>3, <1>4, <1>5, <1>6, <1>7, <1>8

LEMMA StepKeeps == IInv /\ [Next]_vars => IInv'
<1>1. ASSUME IInv, UNCHANGED vars PROVE IInv'
  BY <1>1 DEF vars, IInv, TypeOK, FreshOK, StepOK
<1>2. IInv /\ Next => IInv'
  BY ObserveKeeps, ProtectKeeps, CommandsKeep, EndingsKeep, SurroundingsKeep DEF Next, Reconcile
<1> QED
  BY <1>1, <1>2

-----------------------------------------------------------------------------
(* What follows from the invariant and one step.                           *)

\* Who writes the resource, and what.
LEMMA Writes ==
    IInv /\ Next => \/ UNCHANGED <<pc, cr, host>> /\ obj'.ann = obj.ann
                    \/ obj'.spec = obj.spec /\ obj'.ann = obj.ann
                    \/ obj'.spec = obj.spec /\ pc = "persist" /\ obj'.ann = command
<1> SUFFICES ASSUME IInv, Next
             PROVE  \/ UNCHANGED <<pc, cr, host>> /\ obj'.ann = obj.ann
                    \/ obj'.spec = obj.spec /\ obj'.ann = obj.ann
                    \/ obj'.spec = obj.spec /\ pc = "persist" /\ obj'.ann = command
  OBVIOUS
<1>t. obj \in Objects /\ cr \in Objects /\ (pc # "idle" /\ fresh => Alike(cr, obj))
  BY DEF IInv, TypeOK, FreshOK
<1>1. CASE EditSpec \/ SetMode \/ SetIgnore \/ DeleteCluster
  <2>1. UNCHANGED <<pc, cr, host>>
    BY <1>1 DEF EditSpec, SetMode, SetIgnore, DeleteCluster, UserWrites
  <2>2. obj'.ann = obj.ann
    BY <1>1, <1>t DEF EditSpec, SetMode, SetIgnore, DeleteCluster, UserWrites, Write, Objects
  <2> QED
    BY <2>1, <2>2
<1>2. CASE AddFinalizer \/ RemoveFinalizer
  <2>1. fresh \/ obj' = obj
    BY <1>2 DEF AddFinalizer, RemoveFinalizer
  <2>2. obj' = obj \/ (obj'.spec = cr.spec /\ obj'.ann = cr.ann)
    BY <1>2, <1>t DEF AddFinalizer, RemoveFinalizer, Write, Objects
  <2>3. pc # "idle"
    BY <1>2 DEF AddFinalizer, RemoveFinalizer
  <2> QED
    BY <1>t, <2>1, <2>2, <2>3 DEF Alike
<1>3. CASE Persist
  BY <1>3, <1>t DEF Persist, Write, recorded, Objects
<1>4. CASE WriteStatus
  BY <1>4, <1>t DEF WriteStatus, Write, Objects
<1>5. CASE \/ StartReconcile \/ ObserveUnreadable \/ ObserveAbsent
           \/ ObserveUnit \/ VersionUnread \/ Reobserve
           \/ Create \/ Update \/ Delete
           \/ Deliver \/ OwnerSets \/ UnitStarts \/ HostFails \/ WorkerFails
  <2>1. obj' = obj
    BY <1>5 DEF StartReconcile, ObserveUnreadable, ObserveAbsent, ObserveUnit,
                VersionUnread, Observed, Reobserve, ReobserveLeaving, Create, Update, Sends, Delete, Deliver, OwnerSets,
                UnitStarts, HostFails, WorkerFails
  <2> QED
    BY <2>1
<1> QED
  BY <1>1, <1>2, <1>3, <1>4, <1>5 DEF Next, Reconcile

\* The steps of the worker that change the machine.
LEMMA Installs ==
    Next /\ host' # host /\ pc' # pc => Create \/ Update \/ Delete
BY DEF Next, Reconcile, EditSpec, SetMode, SetIgnore, DeleteCluster, UserWrites, OwnerSets,
       Deliver, StartReconcile, ObserveUnreadable, ObserveAbsent, ObserveUnit,
       VersionUnread, Observed, Reobserve, ReobserveLeaving, AddFinalizer, Persist, WriteStatus, RemoveFinalizer, UnitStarts,
       HostFails, WorkerFails, worker

-----------------------------------------------------------------------------
\* The inductive invariant: a copy a full update would be accepted with is the
\* resource, and every step of the worker is justified by what it read, what it
\* saw there and what it decided (driftdetection.go:475-596); what it saw of the
\* version is a text that names one, or nothing (cluster.go:248, 284).
THEOREM DriftInvariant == Spec => []IInv
BY Initially, StepKeeps, PTL DEF Spec

\* Everything keeps its type; above all, no banner reaches the machine or the
\* annotation (cluster.go:371-387, 495-519).
THEOREM DriftTypes == Spec => []TypeOK
<1>1. IInv => TypeOK
  BY DEF IInv
<1> QED
  BY DriftInvariant, <1>1, PTL

\* The substitution of driftdetection.go:535-551 and 583-595 never leaks into
\* the resource, whichever of the reconciler's writes comes next.
THEOREM DriftSpecIsUsers == Spec => SpecIsUsers
<1>1. IInv /\ [Next]_vars
        => [obj'.spec # obj.spec => UNCHANGED <<pc, cr, host>>]_vars
  BY Writes
<1> QED
  BY DriftInvariant, <1>1, PTL DEF Spec, SpecIsUsers

\* In the modes warn and disabled a machine with a unit keeps its flags:
\* Observe reports no difference there (driftdetection.go:499-512).
THEOREM DriftHandsOff == Spec => HandsOff
<1>1. IInv /\ [Next]_vars
        => [host.loaded /\ host'.flags # host.flags /\ pc' # pc
            => pc = "create" \/ cr.mode = "enabled"]_vars
  <2> SUFFICES ASSUME IInv, Next, host'.flags # host.flags, pc' # pc
               PROVE  pc = "create" \/ cr.mode = "enabled"
    OBVIOUS
  <2>1. Create \/ Update \/ Delete
    BY Installs
  <2>2. ~Delete
    BY DEF Delete, IInv, TypeOK, Hosts
  <2>3. Update => cr.mode = "enabled"
    BY DEF Update, IInv, StepOK
  <2> QED
    BY <2>1, <2>2, <2>3 DEF Create
<1> QED
  BY DriftInvariant, <1>1, PTL DEF Spec, HandsOff

\* An Update leaves what was recorded at the ignored paths, because the snapshot
\* it substitutes was taken from that record (driftdetection.go:489-497, 583-589),
\* except at the version when that could not be read (cluster.go:248).
THEOREM DriftIgnoredStays == Spec => IgnoredStaysRecorded
<1>1. IInv /\ [Next]_vars
        => [obj'.ann # obj.ann /\ verdict.exists
            => \A f \in IgnorePaths(cr.ignore) :
                  cr.ann # Nothing /\ cr.ann[f] # Zero /\ (f \in Live => captured[f] # Zero)
                    => obj'.ann[f] = cr.ann[f]]_vars
  <2> SUFFICES ASSUME IInv, Next, obj'.ann # obj.ann, verdict.exists
               PROVE  \A f \in IgnorePaths(cr.ignore) :
                         cr.ann # Nothing /\ cr.ann[f] # Zero /\ (f \in Live => captured[f] # Zero)
                           => obj'.ann[f] = cr.ann[f]
    OBVIOUS
  <2>1. pc = "persist" /\ obj'.ann = command
    BY Writes
  <2>2. Keeps(cr, captured, command)
    BY <2>1 DEF IInv, StepOK
  <2> QED
    BY <2>1, <2>2 DEF Keeps
<1> QED
  BY DriftInvariant, <1>1, PTL DEF Spec, IgnoredStaysRecorded

\* A configuration that cannot be read ends the reconcile before anything is
\* sent: the whole list is read first (driftdetection.go:227-242, 475-482).
THEOREM DriftRejected == Spec => RejectedMeansUntouched
<1>1. IInv /\ [Next]_vars
        => [host' # host /\ pc' # pc => \A p \in cr.ignore : Eligible(p)]_vars
  <2> SUFFICES ASSUME IInv, Next, host' # host, pc' # pc
               PROVE  ~ReadConfigFails(cr.ignore)
    BY DEF ReadConfigFails
  <2>1. pc \in {"create", "update", "delete"}
    BY Installs DEF Create, Update, Delete
  <2> QED
    BY <2>1 DEF IInv, StepOK, Working
<1> QED
  BY DriftInvariant, <1>1, PTL DEF Spec, RejectedMeansUntouched

\* Where the version is not handed over and something is recorded of every field
\* that is, drift confined to ignored paths never calls for an Update
\* (driftdetection.go:50): the second look finds what is recorded.
THEOREM DriftIgnoredIsLeft ==
    Spec => [](/\ IgnorePaths(cr.ignore) \cap Live = {} /\ cr.ann # Nothing
               /\ \A f \in IgnorePaths(cr.ignore) : cr.ann[f] # Zero
               => IgnoredDriftIsLeft)
<1>1. IInv => (/\ IgnorePaths(cr.ignore) \cap Live = {} /\ cr.ann # Nothing
               /\ \A f \in IgnorePaths(cr.ignore) : cr.ann[f] # Zero
               => IgnoredDriftIsLeft)
  <2> SUFFICES ASSUME IInv, IgnorePaths(cr.ignore) \cap Live = {}, cr.ann # Nothing,
                      \A f \in IgnorePaths(cr.ignore) : cr.ann[f] # Zero,
                      pc = "reobserve", host.loaded, host.ready,
                      \A f \in Fields \ IgnorePaths(cr.ignore) : cr.spec[f] = cr.ann[f]
               PROVE  cr.ann = apply(cr.spec, captured)
    BY DEF IgnoredDriftIsLeft, innerUpToDate
  <2>1. cr.ann \in [Fields -> Values]
    BY DEF IInv, TypeOK, Objects, Specs
  <2>2. DOMAIN captured = IgnorePaths(cr.ignore)
        /\ \A f \in IgnorePaths(cr.ignore) : captured[f] = cr.ann[f]
    BY DEF IInv, StepOK, Faithful
  <2>3. \A f \in Fields : apply(cr.spec, captured)[f] = cr.ann[f]
    BY <2>2 DEF apply, unobserved
  <2> QED
    BY <2>1, <2>3 DEF apply
<1> QED
  BY DriftInvariant, <1>1, PTL

\* An Update in mode enabled sends what the spec says of every path that is not
\* ignored: substitution reaches no further than the list.
THEOREM DriftSendsTheRest ==
    Spec => [](pc = "update" => \A f \in Fields \ IgnorePaths(cr.ignore) :
                                   updateCommand[f] = cr.spec[f])
<1>1. IInv => (pc = "update" => \A f \in Fields \ IgnorePaths(cr.ignore) :
                                   updateCommand[f] = cr.spec[f])
  <2> SUFFICES ASSUME IInv, pc = "update", NEW f \in Fields \ IgnorePaths(cr.ignore)
               PROVE  updateCommand[f] = cr.spec[f]
    OBVIOUS
  <2>1. DOMAIN captured = IgnorePaths(cr.ignore)
    BY DEF IInv, StepOK, Faithful
  <2>2. apply(cr.spec, captured)[f] = cr.spec[f]
    BY <2>1 DEF apply
  <2> QED
    BY <2>2 DEF updateCommand
<1> QED
  BY DriftInvariant, <1>1, PTL

-----------------------------------------------------------------------------
(* Which paths may be ignored.                                             *)

\* Names a user may write: those the types know, and any others.
Vocabulary(Names) == ClusterObservation \cup {"spec", "status", "forProvider", "atProvider"} \subseteq Names

LEMMA ParametersAreNames ==
    /\ ClusterParameters \subseteq ClusterObservation
    /\ ClusterParameters \cap Positions = {} /\ "forProvider" \notin Positions
BY DEF ClusterParameters, ClusterObservation, Positions

\* A name sequence below spec that leads somewhere and is not spec.forProvider
\* itself is that of one field.
LEMMA SpecFields ==
    ASSUME NEW Names, Vocabulary(Names), NEW n \in Seq(Names), Len(n) >= 2,
           fieldType(<<"spec">> \o n)
    PROVE  \E f \in ClusterParameters : n = <<"forProvider", f>>
<1> DEFINE s == <<"spec">> \o n
<1>0. Len(n) \in Nat /\ Len(s) = Len(n) + 1
  BY DEF Vocabulary
<1>1. s[1] = "spec" /\ \A i \in 1..Len(n) : s[i + 1] = n[i]
  BY DEF Vocabulary
<1>2. s \in ClusterType
  BY DEF fieldType
<1> HIDE DEF s
<1>3. PICK f \in ClusterParameters : s = <<"spec", "forProvider", f>>
  <2>1. s # <<"spec", "forProvider">> /\ s # <<"status", "atProvider">>
    BY <1>0, <1>1
  <2>2. \A f : s # <<"status", "atProvider", f>>
    BY <1>1
  <2> QED
    BY <1>2, <2>1, <2>2 DEF ClusterType
<1>4. Len(n) = 2 /\ n[1] = "forProvider" /\ n[2] = f
  <2>1. Len(s) = 3 /\ s[2] = "forProvider" /\ s[3] = f
    BY <1>3
  <2>2. Len(n) = 2
    <3>1. \A k \in Nat : k + 1 = 3 => k = 2
      OBVIOUS
    <3> QED
      BY <1>0, <2>1, <3>1, Zenon
  <2>3. s[1 + 1] = n[1] /\ s[2 + 1] = n[2]
    BY <1>1, <2>2
  <2> QED
    BY <2>1, <2>2, <2>3
<1> QED
  BY <1>4

\* A field's name leads somewhere below spec and below status.
LEMMA FieldsExist ==
    ASSUME NEW f \in ClusterParameters
    PROVE  /\ fieldType(<<"spec">> \o <<"forProvider", f>>)
           /\ fieldType(<<"status", "atProvider">> \o Tail(<<"forProvider", f>>))
<1> DEFINE S == {"spec", "status", "forProvider", "atProvider", f}
           n == <<"forProvider", f>>
<1>1. /\ <<"spec">> \in Seq(S) /\ <<"status", "atProvider">> \in Seq(S) /\ n \in Seq(S)
      /\ <<"spec", "forProvider", f>> \in Seq(S) /\ <<"status", "atProvider", f>> \in Seq(S)
      /\ Tail(n) \in Seq(S) /\ Len(Tail(n)) = 1 /\ Tail(n)[1] = f
  OBVIOUS
<1> HIDE DEF S, n
<1>2. <<"spec">> \o n = <<"spec", "forProvider", f>>
  <2>1. /\ <<"spec">> \o n \in Seq(S) /\ Len(<<"spec">> \o n) = 3
        /\ \A i \in 1..3 : (<<"spec">> \o n)[i] = IF i =< 1 THEN <<"spec">>[i] ELSE n[i - 1]
    BY <1>1, ConcatProperties DEF n
  <2>2. \A i \in 1..3 : (<<"spec">> \o n)[i] = <<"spec", "forProvider", f>>[i]
    BY <2>1 DEF n
  <2> QED
    BY <1>1, <2>1, <2>2, SeqEqual
<1>3. <<"status", "atProvider">> \o Tail(n) = <<"status", "atProvider", f>>
  <2> DEFINE s == <<"status", "atProvider">>
             u == Tail(n)
             v == <<"status", "atProvider", f>>
  <2>1. /\ s \in Seq(S) /\ Len(s) = 2 /\ s[1] = "status" /\ s[2] = "atProvider"
        /\ v \in Seq(S) /\ Len(v) = 3 /\ v[1] = "status" /\ v[2] = "atProvider" /\ v[3] = f
    BY <1>1
  <2>2. u \in Seq(S) /\ Len(u) = 1 /\ u[1] = f
    BY <1>1
  <2> HIDE DEF s, u, v
  <2>3. /\ s \o u \in Seq(S) /\ Len(s \o u) = 3
        /\ \A i \in 1..3 : (s \o u)[i] = IF i =< 2 THEN s[i] ELSE u[i - 2]
    BY <2>1, <2>2, ConcatProperties
  <2>4. \A i \in 1..3 : (s \o u)[i] = v[i]
    BY <2>1, <2>2, <2>3
  <2>5. s \o u = v
    BY <2>1, <2>3, <2>4, SeqEqual
  <2> QED
    BY <2>5 DEF s, u, v
<1> QED
  BY <1>2, <1>3, ParametersAreNames DEF n, fieldType, ClusterType

\* Whatever is written, in either grammar: eligible are the fields of forProvider
\* that atProvider has as well, without the machine's address.  No list, no
\* element of one, no path outside forProvider (driftdetection.go:244-342).
THEOREM EligiblePaths ==
    ASSUME NEW Names, Vocabulary(Names), NEW p, p.names \in Seq(Names)
    PROVE  Eligible(p) <=> \E f \in ClusterParameters \ {"host"} : p.names = <<"forProvider", f>>
<1>1. ASSUME Eligible(p)
      PROVE  \E f \in ClusterParameters \ {"host"} : p.names = <<"forProvider", f>>
  <2>1. normalizePath(p) = p.names /\ Len(p.names) >= 2
    BY <1>1 DEF Eligible, normalizePath
  <2>2. PICK f \in ClusterParameters : p.names = <<"forProvider", f>>
    BY <1>1, <2>1, SpecFields DEF Eligible, checkEligible
  <2>3. f # "host"
    BY <1>1, <2>1, <2>2 DEF Eligible, checkEligible, identityDenylist
  <2> QED
    BY <2>2, <2>3
<1>2. ASSUME NEW f \in ClusterParameters \ {"host"}, p.names = <<"forProvider", f>>
      PROVE  Eligible(p)
  <2>1. \A i \in DOMAIN p.names : p.names[i] \notin Positions
    BY <1>2, ParametersAreNames
  <2>2. normalizePath(p) = <<"forProvider", f>> /\ <<"forProvider", f>> # Malformed
    BY <1>2, <2>1 DEF normalizePath, Malformed
  <2>3. checkEligible(<<"forProvider", f>>)
    BY <1>2, FieldsExist DEF checkEligible, identityDenylist
  <2> QED
    BY <2>2, <2>3 DEF Eligible
<1> QED
  BY <1>1, <1>2

\* What a list that is read makes of its paths are fields, never the address of
\* the machine, and every path of the list counts.
THEOREM IgnoredFields ==
    ASSUME NEW Names, Vocabulary(Names), NEW paths, \A p \in paths : p.names \in Seq(Names)
    PROVE  /\ IgnorePaths(paths) \subseteq ClusterParameters \ {"host"}
           /\ ~ReadConfigFails(paths) => \A p \in paths : p.names[2] \in IgnorePaths(paths)
<1>1. \A p \in paths : Eligible(p) => /\ normalizePath(p) = p.names
                                      /\ p.names[2] \in ClusterParameters \ {"host"}
  <2> SUFFICES ASSUME NEW p \in paths, Eligible(p)
               PROVE  normalizePath(p) = p.names /\ p.names[2] \in ClusterParameters \ {"host"}
    OBVIOUS
  <2>1. PICK f \in ClusterParameters \ {"host"} : p.names = <<"forProvider", f>>
    BY EligiblePaths
  <2>2. normalizePath(p) # Malformed
    BY DEF Eligible
  <2> QED
    BY <2>1, <2>2 DEF normalizePath
<1> QED
  BY <1>1 DEF IgnorePaths, ReadConfigFails
=============================================================================
