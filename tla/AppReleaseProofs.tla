---------------------------- MODULE AppReleaseProofs ----------------------------
(***************************************************************************)
(* Theorems of module AppRelease, for any releases, images and recoveries.  *)
(* What a process may do next depends on the files other processes left;    *)
(* the invariant says what each checkpoint can look like, which marker goes *)
(* with it, which native command may still be at work, and what a process   *)
(* knows at each of its places.                                             *)
(***************************************************************************)
EXTENDS AppRelease, SequenceTheorems, TLAPS

-----------------------------------------------------------------------------
(* One checkpoint c, of the release x.                                      *)

StageNames == {"none", "preflight", "persist", "replace", "verify", "receipt-ready", "complete",
               "recovery-ready"}
Checkpoints == [stage : StageNames, initial : Apps, before : Selectors, after : Selectors,
                pending : Pendings, effects : Seq(Committed), retried : BOOLEAN, accepted : Apps]

\* How far it is: the stage, the pending effect and the number of those recorded.
Place(c) ==
  LET n == Len(c.effects)
      k == c.pending.kind
  IN  \/ c.stage = "none" /\ n = 0 /\ k = "none" /\ c = NoCp
      \/ c.stage = "preflight" /\ ((n = 0 /\ k \in {"none", "recovery-point"}) \/ (n = 1 /\ k = "none"))
      \/ c.stage = "persist" /\ ((n = 1 /\ k \in {"none", "persist"}) \/ (n = 2 /\ k = "none"))
      \/ c.stage = "replace" /\ ((n = 2 /\ k \in {"none", "replace"}) \/ (n = 3 /\ k = "none"))
      \/ c.stage \in {"verify", "receipt-ready", "complete", "recovery-ready"} /\ n = 3 /\ k = "none"

\* A selector that x installed.
Mine(s, x) == s.image = Wanted[x] /\ s.version.rel = x

EffectsOK(c, x) ==
  /\ Len(c.effects) >= 1 => c.effects[1].kind = "recovery-point"
  /\ Len(c.effects) >= 2 =>
       c.effects[2].kind = "persist" /\ c.effects[2].result \in Selectors /\ Mine(c.effects[2].result, x)
  /\ Len(c.effects) >= 3 => c.effects[3].kind = "replace" /\ c.effects[3].result \in Apps
  /\ c.before.version.rel # x
  /\ c.stage = "replace" => Mine(c.after, x)

PendingOK(c, x) ==
  /\ c.pending.kind = "none" => c.pending = NoPending
  /\ c.pending.kind # "none" => c.pending.op.rel = x
  /\ c.pending.delivered => c.pending.status = "submitted-unknown"
  /\ c.pending.delivered /\ c.pending.kind = "recovery-point" => c.pending.result = c.pending.op
  /\ c.pending.delivered /\ c.pending.kind = "persist" =>
       c.pending.result \in Selectors /\ Mine(c.pending.result, x)
  /\ c.pending.delivered /\ c.pending.kind = "replace" => c.pending.result \in Apps

\* What p says reached the host is recorded, or submitted and not recorded yet.
InDoubt(c, k) == c.pending.kind = k /\ c.pending.status = "submitted-unknown"
CountsOK(c, p) ==
  /\ p \in [Kinds -> 0 .. 1]
  /\ p["recovery-point"] = 1 => Len(c.effects) >= 1 \/ InDoubt(c, "recovery-point")
  /\ p["persist"] = 1 => Len(c.effects) >= 2 \/ InDoubt(c, "persist")
  /\ p["replace"] = 1 => Len(c.effects) >= 3 \/ InDoubt(c, "replace")

CheckpointOK(c, x, p, ds) ==
  /\ c \in Checkpoints /\ Place(c) /\ EffectsOK(c, x) /\ PendingOK(c, x) /\ CountsOK(c, p)
  /\ Len(c.effects) >= 1 => \E op \in ds : op.rel = x

\* Between its first intent and the known success of its last effect.
Working(c) ==
  /\ c.pending.kind # "none" \/ Len(c.effects) > 0
  /\ Len(c.effects) < 3 /\ ~(c.pending.kind = "replace" /\ c.pending.delivered)

-----------------------------------------------------------------------------
(* The parts of the invariant.                                              *)

Held(x) == marker = [owner |-> x, readOnly |-> FALSE]

FilesOK ==
  /\ cp \in [Releases -> Checkpoints] /\ performed \in [Releases -> [Kinds -> 0 .. 1]]
  /\ \A x \in Releases : CheckpointOK(cp[x], x, performed[x], dumps)
  /\ receipt \subseteq Releases /\ superseded \in [Releases -> Releases \cup {NoRelease}]
  /\ DOMAIN handoff = Releases
  /\ \A x \in Releases : handoff[x] # <<>> =>
       handoff[x][1].observed \in Apps /\ handoff[x][1].selector \in Selectors

HostOK ==
  /\ app \in Apps /\ selector \in Selectors /\ runtime \in Images /\ dumps \subseteq Ops
  /\ ReplacedWithWanted
  /\ \A x \in Releases : selector.version.rel = x =>
       /\ performed[x]["persist"] = 1
       /\ Len(cp[x].effects) >= 2 => runtime = Wanted[x]

MarkOK ==
  /\ marker \in [owner : Releases \cup {NoRelease}, readOnly : BOOLEAN]
  /\ \A x \in Releases : Working(cp[x]) => Held(x)
  /\ \A x \in Releases : Pending(x) /\ superseded[x] = NoRelease => Held(x)

NativeOf(x) ==
  /\ Submitted(x) /\ ~cp[x].pending.delivered /\ Held(x)
  /\ \/ cp[x].pending.kind = "persist" /\ selector.version.rel # x /\ performed[x]["persist"] = 1
     \/ cp[x].pending.kind = "replace" /\ selector.version.rel = x
NativeOK ==
  /\ native \in [rel : Releases \cup {NoRelease}, done : 0 .. 4, alive : BOOLEAN]
  /\ native.rel = NoRelease => native = NoNative
  /\ \A x \in Releases : native.rel = x => NativeOf(x)

Places == {"none", "handoff", "supersede", "transfer", "begin", "stage", "intent", "mutate", "perform",
           "wait", "result", "commit", "advance", "failed", "verify", "receipt", "receipted", "return"}
Commands == {"none", "preflight", "release", "resume", "recover"}
Before == {"handoff", "supersede", "transfer"}

\* A recovery that has written its handoff, and does not own the target yet.
Handed(x) ==
  LET f == FailedOf[x]
  IN  /\ f \in Releases /\ marker.owner \in {NoRelease, f, x} /\ native.rel \in {NoRelease, x}
      /\ ~Working(cp[f])

\* An effect under way in this process.
Busy(x) == Pending(x) /\ ~cp[x].pending.delivered
\* What the process of x knows at each of its places.
Knows(x) ==
  /\ proc.pc # "none" /\ proc.cmd # "none" /\ proc.step \in 1 .. 2
  /\ proc.pc \in {"supersede", "transfer"} => Handed(x)
  /\ proc.pc = "handoff" => FailedOf[x] \in Releases
  /\ proc.pc = "transfer" => superseded[FailedOf[x]] = x
  /\ proc.pc \in Before => proc.cmd = "recover"
  /\ proc.pc \notin Before => marker.owner = x
  /\ proc.cmd = "recover" /\ proc.pc # "handoff" => handoff[x] # <<>>
  /\ proc.pc \in {"stage", "intent", "advance", "verify", "receipt", "receipted"} =>
       ~Pending(x) /\ cp[x].stage # "none"
  /\ proc.pc = "stage" =>
       /\ cp[x].stage = "preflight" => Len(cp[x].effects) = 0
       /\ cp[x].stage = "persist" => Len(cp[x].effects) = 1
       /\ cp[x].stage = "replace" => Len(cp[x].effects) = 2
  /\ proc.pc = "intent" =>
       /\ Held(x)
       /\ \/ cp[x].stage = "preflight" /\ Len(cp[x].effects) = 0
          \/ cp[x].stage = "persist" /\ Len(cp[x].effects) = 1
          \/ cp[x].stage = "replace" /\ Len(cp[x].effects) = 2
  /\ proc.pc = "mutate" =>
       /\ Busy(x) /\ native = NoNative
       /\ proc.step = 1 => ~Submitted(x)
       /\ proc.step = 2 => Submitted(x) /\ cp[x].pending.kind # "replace"
       /\ proc.step = 2 /\ cp[x].pending.kind = "persist" => selector.version.rel = x
  /\ proc.pc = "perform" =>
       /\ Busy(x) /\ native = NoNative /\ Submitted(x)
       /\ proc.step = 1 => performed[x][cp[x].pending.kind] = 0
       /\ proc.step = 2 => cp[x].pending.kind # "replace"
       /\ proc.step = 1 /\ cp[x].pending.kind = "persist" => selector.version.rel # x
       /\ proc.step = 2 /\ cp[x].pending.kind = "persist" => selector.version.rel = x
       /\ cp[x].pending.kind = "replace" => selector.version.rel = x
  /\ proc.pc = "wait" => Busy(x) /\ Submitted(x) /\ cp[x].pending.kind # "recovery-point" /\ proc.step = 1
  /\ proc.pc = "result" =>
       /\ Busy(x) /\ native = NoNative /\ Submitted(x)
       /\ cp[x].pending.kind = "recovery-point" => cp[x].pending.op \in dumps
  /\ proc.pc = "commit" =>
       /\ Pending(x) /\ cp[x].pending.delivered /\ Held(x)
       /\ cp[x].pending.kind = "recovery-point" => cp[x].pending.op \in dumps
       /\ cp[x].pending.kind = "persist" => runtime = Wanted[x]
  /\ proc.pc = "advance" =>
       /\ Held(x)
       /\ \/ cp[x].stage = "preflight" /\ Len(cp[x].effects) = 1
          \/ cp[x].stage = "persist" /\ Len(cp[x].effects) = 2
          \/ cp[x].stage = "replace" /\ Len(cp[x].effects) = 3
  /\ proc.pc \in {"verify", "receipt", "receipted"} => Len(cp[x].effects) = 3
  /\ proc.pc = "receipted" => x \in receipt
  /\ proc.pc = "begin" /\ proc.cmd = "preflight" => marker.readOnly
  /\ proc.pc = "return" =>
       \/ proc.cmd = "preflight" /\ marker.readOnly
       \/ /\ Len(cp[x].effects) = 3 /\ ~Pending(x)
          /\ cp[x].stage = "complete" => x \in receipt /\ app.image = Wanted[x] /\ Mine(selector, x)
ProcOK ==
  /\ proc \in [rel : Releases \cup {NoRelease}, cmd : Commands, pc : Places, step : 0 .. 2]
  /\ proc.rel = NoRelease => proc = NoProc
  /\ \A x \in Releases : proc.rel = x => Knows(x)

IInv == FilesOK /\ HostOK /\ MarkOK /\ NativeOK /\ ProcOK

-----------------------------------------------------------------------------
(* Facts about the operators.                                               *)

LEMMA EffectFacts ==
  /\ Effect["preflight"] = "recovery-point" /\ Effect["persist"] = "persist"
  /\ Effect["replace"] = "replace"
  /\ DOMAIN Effect = {"preflight", "persist", "replace"}
  BY DEF Effect

LEMMA StageFacts ==
  Stages[1] = "preflight" /\ Stages[2] = "persist" /\ Stages[3] = "replace" /\ Stages[4] = "verify"
  BY DEF Stages

LEMMA NoPendingFacts ==
  /\ NoPending.kind = "none" /\ NoPending.op = NoOp /\ NoPending.status = "none"
  /\ NoPending.delivered = FALSE /\ NoPending \in Pendings
  BY DEF NoPending, Pendings, NoOp, Ops, Results

LEMMA AbsentFacts ==
  Absent \in Apps /\ NoOp \in Ops /\ NoSelector \in Selectors /\ NoSelector.version.rel = NoRelease
  BY ReleaseAssumption DEF Absent, Apps, NoOp, Ops, NoSelector, Selectors

LEMMA NoCpFacts ==
  /\ NoCp \in Checkpoints /\ NoCp.stage = "none" /\ NoCp.effects = <<>> /\ NoCp.pending = NoPending
  /\ NoCp.before = NoSelector /\ NoCp.retried = FALSE
  BY NoPendingFacts, AbsentFacts DEF NoCp, Checkpoints, StageNames

\* One more effect is recorded.
LEMMA Recorded ==
  ASSUME NEW S, NEW e \in Seq(S), NEW v \in S
  PROVE  /\ Append(e, v) \in Seq(S) /\ Len(Append(e, v)) = Len(e) + 1 /\ Len(e) \in Nat
         /\ \A i \in 1 .. Len(e) : Append(e, v)[i] = e[i]
         /\ Append(e, v)[Len(e) + 1] = v
  OBVIOUS

-----------------------------------------------------------------------------
(* Frames: what a step of one kind leaves as it was.                        *)

\* A process saves its checkpoint, and no native command is left.
LEMMA SaveKeeps ==
  ASSUME IInv, NEW r \in Releases, NEW c, native = NoNative, Save(r, c),
         UNCHANGED <<host, marker, receipt, handoff, superseded, performed>>,
         CheckpointOK(c, r, performed[r], dumps),
         Working(c) => Held(r),
         c.pending.kind # "none" /\ superseded[r] = NoRelease => Held(r),
         selector.version.rel = r /\ Len(c.effects) >= 2 => runtime = Wanted[r]
  PROVE  FilesOK' /\ HostOK' /\ MarkOK' /\ NativeOK' /\ cp'[r] = c
<1>1. /\ cp \in [Releases -> Checkpoints] /\ c \in Checkpoints
  BY DEF IInv, FilesOK, CheckpointOK
<1>2. /\ cp' \in [Releases -> Checkpoints] /\ cp'[r] = c
      /\ \A y \in Releases : y # r => cp'[y] = cp[y]
  BY <1>1 DEF Save
<1>3. /\ app' = app /\ selector' = selector /\ runtime' = runtime /\ dumps' = dumps /\ native' = native
      /\ marker' = marker /\ receipt' = receipt /\ handoff' = handoff /\ superseded' = superseded
      /\ performed' = performed
  BY DEF host
<1>4. FilesOK'
  <2>1. \A y \in Releases : CheckpointOK(cp'[y], y, performed'[y], dumps')
    <3> TAKE y \in Releases
    <3>1. CASE y = r
      BY <1>2, <1>3, <3>1
    <3>2. CASE y # r
      BY <1>2, <1>3, <3>2 DEF IInv, FilesOK
    <3> QED
      BY <3>1, <3>2
  <2> QED
    BY <1>2, <1>3, <2>1 DEF IInv, FilesOK
<1>5. HostOK'
  <2>1. ReplacedWithWanted'
    BY <1>3 DEF IInv, HostOK, ReplacedWithWanted
  <2>2. \A y \in Releases : selector.version.rel = y =>
           performed[y]["persist"] = 1 /\ (Len(cp'[y].effects) >= 2 => runtime = Wanted[y])
    <3> TAKE y \in Releases
    <3>1. CASE y = r
      BY <1>2, <3>1 DEF IInv, HostOK
    <3>2. CASE y # r
      BY <1>2, <3>2 DEF IInv, HostOK
    <3> QED
      BY <3>1, <3>2
  <2> QED
    BY <1>3, <2>1, <2>2 DEF IInv, HostOK
<1>6. MarkOK'
  <2>1. \A y \in Releases : (Working(cp'[y]) => Held(y)) /\ (cp'[y].pending.kind # "none" /\ superseded[y] = NoRelease => Held(y))
    <3> TAKE y \in Releases
    <3>1. CASE y = r
      BY <1>2, <3>1
    <3>2. CASE y # r
      BY <1>2, <3>2 DEF IInv, MarkOK, Pending
    <3> QED
      BY <3>1, <3>2
  <2> QED
    BY <1>3, <2>1 DEF IInv, MarkOK, Held, Pending
<1>7. NativeOK'
  <2>1. NoNative.rel = NoRelease /\ NoRelease \notin Releases
    BY ReleaseAssumption DEF NoNative
  <2> QED
    BY <1>3, <2>1 DEF IInv, NativeOK
<1> QED
  BY <1>2, <1>4, <1>5, <1>6, <1>7

\* Only the place of the process changes.
LEMMA QuietKeeps ==
  ASSUME IInv, UNCHANGED <<host, marker, files, performed>>
  PROVE  FilesOK' /\ HostOK' /\ MarkOK' /\ NativeOK'
<1>1. /\ app' = app /\ selector' = selector /\ runtime' = runtime /\ dumps' = dumps /\ native' = native
      /\ marker' = marker /\ receipt' = receipt /\ handoff' = handoff /\ superseded' = superseded
      /\ performed' = performed /\ cp' = cp
  BY DEF host, files
<1>2. FilesOK'
  BY <1>1 DEF IInv, FilesOK
<1>3. HostOK'
  BY <1>1 DEF IInv, HostOK, ReplacedWithWanted
<1>4. MarkOK'
  BY <1>1 DEF IInv, MarkOK, Held, Pending
<1>5. NativeOK'
  BY <1>1 DEF IInv, NativeOK, NativeOf, Held, Submitted
<1> QED
  BY <1>2, <1>3, <1>4, <1>5

\* A native command that is left is of the release that has the target.
LEMMA NativeOfOwner ==
  ASSUME IInv, NEW r \in Releases, marker.owner = r, native # NoNative
  PROVE  native.rel = r /\ NativeOf(r)
<1>1. native.rel \in Releases /\ NativeOf(native.rel)
  BY DEF IInv, NativeOK
<1>2. marker.owner = native.rel
  BY <1>1 DEF NativeOf, Held
<1> QED
  BY <1>1, <1>2
LEMMA NoNativeLeft ==
  ASSUME IInv, NEW r \in Releases, marker.owner = r,
         ~Submitted(r) \/ cp[r].pending.delivered \/ cp[r].pending.kind \in {"none", "recovery-point"}
  PROVE  native = NoNative
  BY NativeOfOwner DEF NativeOf

LEMMA MarkerMoves ==
  ASSUME IInv, UNCHANGED <<host, files, performed>>
  PROVE  FilesOK' /\ HostOK'
<1>1. /\ app' = app /\ selector' = selector /\ runtime' = runtime /\ dumps' = dumps /\ native' = native
      /\ receipt' = receipt /\ handoff' = handoff /\ superseded' = superseded
      /\ performed' = performed /\ cp' = cp
  BY DEF host, files
<1>2. FilesOK'
  BY <1>1 DEF IInv, FilesOK
<1>3. HostOK'
  BY <1>1 DEF IInv, HostOK, ReplacedWithWanted
<1> QED
  BY <1>2, <1>3

\* What is known of the checkpoint of the process at work.
LEMMA Known ==
  ASSUME IInv, NEW r \in Releases
  PROVE  /\ cp[r] \in Checkpoints /\ Place(cp[r]) /\ EffectsOK(cp[r], r) /\ PendingOK(cp[r], r)
         /\ CountsOK(cp[r], performed[r]) /\ (Len(cp[r].effects) >= 1 => \E op \in dumps : op.rel = r)
         /\ Len(cp[r].effects) \in 0 .. 3
         /\ proc.rel = r => Knows(r)
<1>1. CheckpointOK(cp[r], r, performed[r], dumps) /\ (proc.rel = r => Knows(r))
  BY DEF IInv, FilesOK, ProcOK
<1>2. Len(cp[r].effects) \in Nat
  BY <1>1 DEF CheckpointOK, Checkpoints
<1>3. Len(cp[r].effects) \in 0 .. 3
  BY <1>1, <1>2 DEF CheckpointOK, Place
<1> QED
  BY <1>1, <1>3 DEF CheckpointOK

\* A process moves, or is gone.
LEMMA Moved ==
  ASSUME NEW r \in Releases, Knows(r)',
         proc' \in [rel : Releases \cup {NoRelease}, cmd : Commands, pc : Places, step : 0 .. 2],
         proc'.rel = r
  PROVE  ProcOK'
<1>1. NoRelease \notin Releases
  BY ReleaseAssumption
<1> QED
  BY <1>1 DEF ProcOK
LEMMA Gone == proc' = NoProc => ProcOK'
<1>1. NoRelease \notin Releases
  BY ReleaseAssumption
<1> QED
  BY <1>1 DEF ProcOK, NoProc, Commands, Places
LEMMA Went ==
  ASSUME IInv, NEW r \in Releases, NEW q, proc.rel = r, Goto(q), q \in Places
  PROVE  /\ proc' \in [rel : Releases \cup {NoRelease}, cmd : Commands, pc : Places, step : 0 .. 2]
         /\ proc'.rel = r /\ proc'.pc = q /\ proc'.cmd = proc.cmd /\ proc'.step = proc.step
  BY DEF IInv, ProcOK, Goto
LEMMA Stepped ==
  ASSUME IInv, NEW r \in Releases, NEW q \in Places, NEW k \in 0 .. 2, proc.rel = r,
         proc' = [proc EXCEPT !.pc = q, !.step = k]
  PROVE  /\ proc' \in [rel : Releases \cup {NoRelease}, cmd : Commands, pc : Places, step : 0 .. 2]
         /\ proc'.rel = r /\ proc'.pc = q /\ proc'.cmd = proc.cmd /\ proc'.step = k
  BY DEF IInv, ProcOK

-----------------------------------------------------------------------------
(* An effect.                                                               *)

LEMMA IntendKeeps ==
  ASSUME IInv, NEW r \in Releases, Intend(r)
  PROVE  IInv'
<1>1. At(r, "stage") /\ Knows(r) /\ CheckpointOK(cp[r], r, performed[r], dumps)
  BY Known DEF Intend, At, CheckpointOK
<1>2. Held(r)' /\ marker' = [owner |-> r, readOnly |-> FALSE]
  BY DEF Intend, Held
<1>3. native = NoNative
  BY <1>1, NoNativeLeft DEF At, Knows, Before, Pending
<1>4. FilesOK' /\ HostOK'
  BY MarkerMoves DEF Intend
<1>5. cp' = cp /\ superseded' = superseded /\ native' = native /\ performed' = performed /\ handoff' = handoff
  BY DEF Intend, host, files
<1>6. MarkOK'
  <2>1. ASSUME NEW y \in Releases, Held(y) PROVE y = r
    BY <1>1, <2>1 DEF At, Knows, Held, Before
  <2>2. \A y \in Releases : (Working(cp[y]) => Held(y)') /\ (Pending(y) /\ superseded[y] = NoRelease => Held(y)')
    BY <1>2, <2>1 DEF IInv, MarkOK
  <2> QED
    BY <1>2, <1>5, <2>2 DEF MarkOK, Pending
<1>7. NativeOK'
  <2>1. NoNative.rel = NoRelease /\ NoRelease \notin Releases
    BY ReleaseAssumption DEF NoNative
  <2> QED
    BY <1>3, <1>5, <2>1 DEF IInv, NativeOK
<1>8. /\ proc' \in [rel : Releases \cup {NoRelease}, cmd : Commands, pc : Places, step : 0 .. 2]
      /\ proc'.rel = r /\ proc'.pc = "intent" /\ proc'.cmd = proc.cmd /\ proc'.step = proc.step
  BY <1>1, Went DEF Intend, At, Places
<1>9. Knows(r)'
  <2>1. cp[r].stage \in {"preflight", "persist", "replace"}
    BY EffectFacts DEF Intend
  <2> QED
    BY <1>1, <1>2, <1>5, <1>8, <2>1 DEF Knows, Before, At, Held, Pending
<1> QED
  BY <1>4, <1>6, <1>7, <1>8, <1>9, Moved DEF IInv

LEMMA SaveIntentKeeps ==
  ASSUME IInv, NEW r \in Releases, SaveIntent(r)
  PROVE  IInv'
<1> DEFINE c == [cp[r] EXCEPT !.pending = [NoPending EXCEPT !.kind = Kind(r), !.op = Op(r),
                                                            !.status = "proven-unsubmitted"]]
<1>1. At(r, "intent") /\ Knows(r) /\ cp[r] \in Checkpoints /\ Held(r) /\ ~Pending(r)
  BY Known DEF SaveIntent, At, Knows
<1>2. /\ c.stage = cp[r].stage /\ c.effects = cp[r].effects /\ c.before = cp[r].before /\ c.after = cp[r].after
      /\ c.initial = cp[r].initial /\ c.accepted = cp[r].accepted /\ c.retried = cp[r].retried
      /\ c.pending.kind = Kind(r) /\ c.pending.op = Op(r) /\ c.pending.status = "proven-unsubmitted"
      /\ c.pending.delivered = FALSE
  BY <1>1 DEF Checkpoints, NoPending
<1>3. \/ cp[r].stage = "preflight" /\ Len(cp[r].effects) = 0 /\ Kind(r) = "recovery-point"
      \/ cp[r].stage = "persist" /\ Len(cp[r].effects) = 1 /\ Kind(r) = "persist"
      \/ cp[r].stage = "replace" /\ Len(cp[r].effects) = 2 /\ Kind(r) = "replace"
  BY <1>1, EffectFacts DEF At, Knows, Kind
<1>4. Op(r) \in Ops /\ Op(r).rel = r
  BY DEF Op, Ops
<1>5. c \in Checkpoints
  <2>1. c.pending = [kind |-> Kind(r), op |-> Op(r), status |-> "proven-unsubmitted", delivered |-> FALSE,
                     result |-> NoResult]
    BY <1>1 DEF Checkpoints, NoPending
  <2>2. c \in Checkpoints <=> c.pending \in Pendings
    BY <1>1 DEF Checkpoints
  <2> HIDE DEF c
  <2>3. Kind(r) \in Kinds /\ NoResult \in Results
    BY <1>3 DEF Kinds, Results
  <2>4. c.pending \in Pendings
    BY <1>4, <2>1, <2>3 DEF Pendings
  <2> QED
    BY <2>2, <2>4
<1> HIDE DEF c
<1>6. CheckpointOK(c, r, performed[r], dumps)
  <2>1. Place(c)
    BY <1>2, <1>3 DEF Place
  <2>2. EffectsOK(c, r) /\ (Len(c.effects) >= 1 => \E op \in dumps : op.rel = r)
    BY <1>2, Known DEF EffectsOK
  <2>3. PendingOK(c, r)
    BY <1>2, <1>3, <1>4 DEF PendingOK
  <2>4. CountsOK(c, performed[r])
    <3>1. CountsOK(cp[r], performed[r]) /\ cp[r].pending.kind = "none"
      BY <1>1, Known DEF Pending
    <3> QED
      BY <1>2, <3>1 DEF CountsOK, InDoubt
  <2> QED
    BY <1>5, <2>1, <2>2, <2>3, <2>4 DEF CheckpointOK
<1>7. native = NoNative
  BY <1>1, NoNativeLeft DEF At, Knows, Before, Pending
<1>8. FilesOK' /\ HostOK' /\ MarkOK' /\ NativeOK' /\ cp'[r] = c
  <2>1. selector.version.rel = r /\ Len(c.effects) >= 2 => runtime = Wanted[r]
    BY <1>2 DEF IInv, HostOK
  <2> QED
    BY <1>1, <1>6, <1>7, <2>1, SaveKeeps DEF SaveIntent, c
<1>9. /\ proc' \in [rel : Releases \cup {NoRelease}, cmd : Commands, pc : Places, step : 0 .. 2]
      /\ proc'.rel = r /\ proc'.pc = "mutate" /\ proc'.cmd = proc.cmd /\ proc'.step = 1
  <2>1. proc' = [proc EXCEPT !.pc = "mutate", !.step = 1] /\ proc.rel = r
    BY <1>1 DEF SaveIntent, At
  <2>2. "mutate" \in Places /\ 1 \in 0 .. 2
    BY DEF Places
  <2> QED
    BY <2>1, <2>2, Stepped
<1>10. Knows(r)'
  <2>1. native' = native /\ marker' = marker /\ handoff' = handoff
    BY DEF SaveIntent, host
  <2> QED
    BY <1>1, <1>2, <1>3, <1>7, <1>8, <1>9, <2>1 DEF Knows, Before, At, Busy, Pending, Submitted
<1> QED
  BY <1>8, <1>9, <1>10, Moved DEF IInv

\* The marker covers an effect that is not known to have succeeded.
LEMMA BusyHolds ==
  ASSUME IInv, NEW r \in Releases, Busy(r)
  PROVE  /\ Held(r) /\ Working(cp[r])
         /\ \/ cp[r].stage = "preflight" /\ Len(cp[r].effects) = 0 /\ cp[r].pending.kind = "recovery-point"
            \/ cp[r].stage = "persist" /\ Len(cp[r].effects) = 1 /\ cp[r].pending.kind = "persist"
            \/ cp[r].stage = "replace" /\ Len(cp[r].effects) = 2 /\ cp[r].pending.kind = "replace"
         /\ Kind(r) = cp[r].pending.kind
<1>1. /\ \/ cp[r].stage = "preflight" /\ Len(cp[r].effects) = 0 /\ cp[r].pending.kind = "recovery-point"
         \/ cp[r].stage = "persist" /\ Len(cp[r].effects) = 1 /\ cp[r].pending.kind = "persist"
         \/ cp[r].stage = "replace" /\ Len(cp[r].effects) = 2 /\ cp[r].pending.kind = "replace"
  BY Known DEF Busy, Pending, Place
<1>2. Working(cp[r])
  <2>1. cp[r].pending.kind # "none" /\ ~cp[r].pending.delivered
    BY DEF Busy, Pending
  <2>2. Len(cp[r].effects) < 3
    <3> DEFINE n == Len(cp[r].effects)
    <3>1. n = 0 \/ n = 1 \/ n = 2
      BY <1>1
    <3> HIDE DEF n
    <3>2. n < 3
      BY <3>1
    <3> QED
      BY <3>2 DEF n
  <2> QED
    BY <2>1, <2>2, Zenon DEF Working
<1>3. Held(r)
  BY <1>2 DEF IInv, MarkOK
<1>4. Kind(r) = cp[r].pending.kind
  BY <1>1, EffectFacts DEF Kind
<1> QED
  BY <1>1, <1>2, <1>3, <1>4

\* An effect whose submission is not written has not reached the host.
LEMMA NotYet ==
  ASSUME IInv, NEW r \in Releases, Busy(r), ~Submitted(r)
  PROVE  performed[r][cp[r].pending.kind] = 0
<1>1. CountsOK(cp[r], performed[r]) /\ cp[r].pending.status # "submitted-unknown"
  BY Known DEF Submitted
<1>2. CASE Len(cp[r].effects) = 0 /\ cp[r].pending.kind = "recovery-point"
  BY <1>1, <1>2 DEF CountsOK, InDoubt, Kinds
<1>3. CASE Len(cp[r].effects) = 1 /\ cp[r].pending.kind = "persist"
  BY <1>1, <1>3 DEF CountsOK, InDoubt, Kinds
<1>4. CASE Len(cp[r].effects) = 2 /\ cp[r].pending.kind = "replace"
  BY <1>1, <1>4 DEF CountsOK, InDoubt, Kinds
<1> QED
  BY <1>2, <1>3, <1>4, BusyHolds

\* A new status of what is pending.
WithStatus(c, s) == [c EXCEPT !.pending.status = s]
LEMMA StatusChanges ==
  ASSUME IInv, NEW r \in Releases, Busy(r), NEW s \in {"proven-unsubmitted", "submitted-unknown"},
         NEW c, c = WithStatus(cp[r], s),
         s = "submitted-unknown" \/ performed[r][cp[r].pending.kind] = 0
  PROVE  /\ CheckpointOK(c, r, performed[r], dumps) /\ Working(c)
         /\ c.stage = cp[r].stage /\ c.effects = cp[r].effects /\ c.before = cp[r].before /\ c.after = cp[r].after
         /\ c.pending.kind = cp[r].pending.kind /\ c.pending.op = cp[r].pending.op
         /\ c.pending.status = s /\ c.pending.delivered = cp[r].pending.delivered
<1>1. cp[r] \in Checkpoints /\ cp[r].pending \in Pendings
  BY Known DEF Checkpoints
<1>2. /\ c.stage = cp[r].stage /\ c.effects = cp[r].effects /\ c.before = cp[r].before /\ c.after = cp[r].after
      /\ c.initial = cp[r].initial /\ c.accepted = cp[r].accepted /\ c.retried = cp[r].retried
      /\ c.pending = [cp[r].pending EXCEPT !.status = s]
  BY <1>1 DEF Checkpoints, WithStatus
<1>3. /\ c.pending.kind = cp[r].pending.kind /\ c.pending.op = cp[r].pending.op
      /\ c.pending.delivered = cp[r].pending.delivered /\ c.pending.status = s
      /\ c.pending.result = cp[r].pending.result /\ c.pending \in Pendings
  BY <1>1, <1>2 DEF Pendings
<1>4. c \in Checkpoints
  BY <1>1, <1>3 DEF Checkpoints, WithStatus
<1>5. Place(c)
  BY <1>2, <1>3, Known DEF Place, Busy, Pending
<1>6. EffectsOK(c, r) /\ (Len(c.effects) >= 1 => \E op \in dumps : op.rel = r)
  BY <1>2, Known DEF EffectsOK
<1>7. PendingOK(c, r)
  BY <1>3, Known DEF PendingOK, Busy, Pending
<1>8. CountsOK(c, performed[r])
  <2>1. CountsOK(cp[r], performed[r])
    BY Known
  <2>2. CASE s = "submitted-unknown"
    BY <1>2, <1>3, <2>1, <2>2 DEF CountsOK, InDoubt
  <2>3. CASE performed[r][cp[r].pending.kind] = 0
    BY <1>2, <1>3, <2>1, <2>3 DEF CountsOK, InDoubt
  <2> QED
    BY <2>2, <2>3
<1>9. Working(c)
  BY <1>2, <1>3, BusyHolds DEF Working
<1> QED
  BY <1>2, <1>3, <1>4, <1>5, <1>6, <1>7, <1>8, <1>9 DEF CheckpointOK

LEMMA SubmitKeeps ==
  ASSUME IInv, NEW r \in Releases, Submit(r)
  PROVE  IInv'
<1>1. At(r, "mutate") /\ Knows(r) /\ Busy(r) /\ native = NoNative /\ proc.rel = r /\ Held(r)
  BY Known, BusyHolds DEF Submit, At, Knows
<1> DEFINE c == WithStatus(cp[r], "submitted-unknown")
<1>2. Save(r, c) /\ Goto("perform") /\ PreWrite(r, Kind(r)) /\ c = WithStatus(cp[r], "submitted-unknown")
  BY DEF Submit, WithStatus
<1> HIDE DEF c
<1>3. /\ CheckpointOK(c, r, performed[r], dumps) /\ Working(c)
      /\ c.stage = cp[r].stage /\ c.effects = cp[r].effects /\ c.before = cp[r].before /\ c.after = cp[r].after
      /\ c.pending.kind = cp[r].pending.kind /\ c.pending.op = cp[r].pending.op
      /\ c.pending.status = "submitted-unknown" /\ c.pending.delivered = cp[r].pending.delivered
  BY <1>1, <1>2, StatusChanges
<1>4. FilesOK' /\ HostOK' /\ MarkOK' /\ NativeOK' /\ cp'[r] = c
  <2>1. selector.version.rel = r /\ Len(c.effects) >= 2 => runtime = Wanted[r]
    BY <1>3 DEF IInv, HostOK
  <2>2. UNCHANGED <<host, marker, receipt, handoff, superseded, performed>>
    BY DEF Submit
  <2> QED
    BY <1>1, <1>2, <1>3, <2>1, <2>2, SaveKeeps
<1>5. /\ proc' \in [rel : Releases \cup {NoRelease}, cmd : Commands, pc : Places, step : 0 .. 2]
      /\ proc'.rel = r /\ proc'.pc = "perform" /\ proc'.cmd = proc.cmd /\ proc'.step = proc.step
  BY <1>1, <1>2, Went DEF Places
<1>6. native' = native /\ marker' = marker /\ handoff' = handoff /\ selector' = selector /\ performed' = performed
  BY DEF Submit, host
<1>7. proc.step = 1 => performed[r][c.pending.kind] = 0
  BY <1>1, <1>3, NotYet DEF At, Knows
<1>8. /\ proc.step = 1 /\ c.pending.kind = "persist" => selector.version.rel # r
      /\ c.pending.kind = "replace" => selector.version.rel = r
  <2>1. EffectsOK(cp[r], r)
    BY Known
  <2>2. CASE proc.step = 1 /\ c.pending.kind = "persist"
    <3>1. selector = cp[r].before
      BY <1>1, <1>2, <1>3, <2>2, BusyHolds DEF PreWrite, At, Knows, Submitted
    <3> QED
      BY <2>1, <2>2, <3>1 DEF EffectsOK
  <2>3. CASE c.pending.kind = "replace"
    <3>1. selector = cp[r].after /\ cp[r].stage = "replace"
      BY <1>1, <1>2, <1>3, <2>3, BusyHolds DEF PreWrite
    <3> QED
      BY <2>1, <2>3, <3>1 DEF EffectsOK, Mine
  <2> QED
    BY <2>2, <2>3
<1>9. Knows(r)'
  BY <1>1, <1>3, <1>4, <1>5, <1>6, <1>7, <1>8 DEF Knows, Before, At, Busy, Pending, Submitted
<1> QED
  BY <1>4, <1>5, <1>9, Moved DEF IInv

\* An effect reaches the host for the first time.
LEMMA CountKeeps ==
  ASSUME IInv, NEW r \in Releases, NEW k \in Kinds, performed[r][k] = 0, InDoubt(cp[r], k), Count(r, k),
         UNCHANGED <<app, selector, runtime, dumps, marker, files>>
  PROVE  /\ FilesOK' /\ HostOK' /\ MarkOK' /\ performed'[r][k] = 1
         /\ \A y \in Releases, j \in Kinds : y # r \/ j # k => performed'[y][j] = performed[y][j]
<1>1. performed \in [Releases -> [Kinds -> 0 .. 1]]
  BY DEF IInv, FilesOK
<1>2. performed' = [performed EXCEPT ![r] = [performed[r] EXCEPT ![k] = 1]]
  BY <1>1 DEF Count
<1>3. /\ performed' \in [Releases -> [Kinds -> 0 .. 1]] /\ performed'[r] = [performed[r] EXCEPT ![k] = 1]
      /\ \A y \in Releases : y # r => performed'[y] = performed[y]
  BY <1>1, <1>2
<1>4. performed'[r][k] = 1 /\ \A y \in Releases, j \in Kinds : y # r \/ j # k => performed'[y][j] = performed[y][j]
  BY <1>1, <1>3
<1>5. /\ app' = app /\ selector' = selector /\ runtime' = runtime /\ dumps' = dumps
      /\ marker' = marker /\ receipt' = receipt /\ handoff' = handoff /\ superseded' = superseded /\ cp' = cp
  BY DEF files
<1>6. FilesOK'
  <2>1. \A y \in Releases : CheckpointOK(cp[y], y, performed'[y], dumps)
    <3> TAKE y \in Releases
    <3>1. CASE y = r
      <4>1. CountsOK(cp[r], performed[r])
        BY Known
      <4>2. CountsOK(cp[r], performed'[r])
        BY <1>1, <1>3, <4>1 DEF CountsOK, InDoubt, Kinds
      <4> QED
        BY <3>1, <4>2, Known DEF CheckpointOK
    <3>2. CASE y # r
      BY <1>3, <3>2 DEF IInv, FilesOK
    <3> QED
      BY <3>1, <3>2
  <2> QED
    BY <1>3, <1>5, <2>1 DEF IInv, FilesOK
<1>7. HostOK'
  <2>1. \A y \in Releases : selector.version.rel = y =>
           performed'[y]["persist"] = 1 /\ (Len(cp[y].effects) >= 2 => runtime = Wanted[y])
    <3> TAKE y \in Releases
    <3>1. CASE y = r /\ k = "persist"
      BY <1>4, <3>1 DEF IInv, HostOK
    <3>2. CASE y # r \/ k # "persist"
      BY <1>4, <3>2 DEF IInv, HostOK, Kinds
    <3> QED
      BY <3>1, <3>2
  <2>2. ReplacedWithWanted'
    BY <1>5 DEF IInv, HostOK, ReplacedWithWanted
  <2> QED
    BY <1>5, <2>1, <2>2 DEF IInv, HostOK
<1>8. MarkOK'
  BY <1>5 DEF IInv, MarkOK, Held, Pending
<1> QED
  BY <1>4, <1>6, <1>7, <1>8

LEMMA CreateDumpKeeps ==
  ASSUME IInv, NEW r \in Releases, CreateDump(r)
  PROVE  IInv'
<1>1. /\ At(r, "perform") /\ Knows(r) /\ Busy(r) /\ native = NoNative /\ proc.rel = r /\ Submitted(r)
      /\ Kind(r) = "recovery-point" /\ proc.step = 1 /\ cp[r].pending.kind = "recovery-point"
      /\ performed[r]["recovery-point"] = 0
  BY Known, BusyHolds DEF CreateDump, At, Knows
<1>2. FilesOK' /\ HostOK' /\ MarkOK'
  <2>1. "recovery-point" \in Kinds /\ InDoubt(cp[r], "recovery-point")
    BY <1>1 DEF InDoubt, Submitted, Kinds
  <2>2. UNCHANGED <<app, selector, runtime, dumps, marker, files>> /\ Count(r, "recovery-point")
    BY DEF CreateDump, host
  <2> QED
    BY <1>1, <2>1, <2>2, CountKeeps
<1>3. cp' = cp /\ native' = native /\ marker' = marker /\ handoff' = handoff
  BY DEF CreateDump, host, files
<1>4. NativeOK'
  <2>1. NoNative.rel = NoRelease /\ NoRelease \notin Releases
    BY ReleaseAssumption DEF NoNative
  <2> QED
    BY <1>1, <1>3, <2>1 DEF IInv, NativeOK
<1>5. /\ proc' \in [rel : Releases \cup {NoRelease}, cmd : Commands, pc : Places, step : 0 .. 2]
      /\ proc'.rel = r /\ proc'.pc = "mutate" /\ proc'.cmd = proc.cmd /\ proc'.step = 2
  <2>1. proc' = [proc EXCEPT !.pc = "mutate", !.step = 2] /\ proc.rel = r
    BY <1>1 DEF CreateDump
  <2>2. "mutate" \in Places /\ 2 \in 0 .. 2
    BY DEF Places
  <2> QED
    BY <2>1, <2>2, Stepped
<1>6. Knows(r)'
  BY <1>1, <1>3, <1>5 DEF Knows, Before, At, Busy, Pending, Submitted
<1> QED
  BY <1>2, <1>4, <1>5, <1>6, Moved DEF IInv

LEMMA VerifyDumpKeeps ==
  ASSUME IInv, NEW r \in Releases, VerifyDump(r)
  PROVE  IInv'
<1>1. /\ At(r, "perform") /\ Knows(r) /\ Busy(r) /\ native = NoNative /\ proc.rel = r /\ Submitted(r)
      /\ cp[r].pending.kind = "recovery-point" /\ cp[r].pending.op \in Ops
  BY Known, BusyHolds DEF VerifyDump, At, Knows, Checkpoints, Pendings
<1>2. /\ app' = app /\ selector' = selector /\ runtime' = runtime /\ native' = native
      /\ marker' = marker /\ receipt' = receipt /\ handoff' = handoff /\ superseded' = superseded /\ cp' = cp
      /\ performed' = performed /\ dumps' = dumps \cup {cp[r].pending.op}
  BY DEF VerifyDump, files
<1>3. FilesOK'
  <2>1. \A y \in Releases : CheckpointOK(cp[y], y, performed[y], dumps')
    BY <1>2 DEF IInv, FilesOK, CheckpointOK
  <2> QED
    BY <1>2, <2>1 DEF IInv, FilesOK
<1>4. HostOK'
  BY <1>1, <1>2 DEF IInv, HostOK, ReplacedWithWanted
<1>5. MarkOK' /\ NativeOK'
  BY <1>2 DEF IInv, MarkOK, Held, Pending, NativeOK, NativeOf, Submitted
<1>6. /\ proc' \in [rel : Releases \cup {NoRelease}, cmd : Commands, pc : Places, step : 0 .. 2]
      /\ proc'.rel = r /\ proc'.pc = "result" /\ proc'.cmd = proc.cmd /\ proc'.step = proc.step
  BY <1>1, Went DEF VerifyDump, Places
<1>7. Knows(r)'
  BY <1>1, <1>2, <1>6 DEF Knows, Before, At, Busy, Pending, Submitted
<1> QED
  BY <1>3, <1>4, <1>5, <1>6, <1>7, Moved DEF IInv

LEMMA SpawnKeeps ==
  ASSUME IInv, NEW r \in Releases, Spawn(r)
  PROVE  IInv'
<1>1. /\ At(r, "perform") /\ Knows(r) /\ Busy(r) /\ native = NoNative /\ proc.rel = r /\ Submitted(r)
      /\ proc.step = 1 /\ Kind(r) = cp[r].pending.kind /\ cp[r].pending.kind \in {"persist", "replace"}
      /\ performed[r][Kind(r)] = 0 /\ Held(r)
  BY Known, BusyHolds DEF Spawn, At, Knows
<1>2. /\ FilesOK' /\ HostOK' /\ MarkOK' /\ performed'[r][Kind(r)] = 1
  <2>1. Kind(r) \in Kinds /\ InDoubt(cp[r], Kind(r))
    BY <1>1 DEF InDoubt, Submitted, Kinds
  <2>2. UNCHANGED <<app, selector, runtime, dumps, marker, files>> /\ Count(r, Kind(r))
    BY DEF Spawn
  <2> QED
    BY <1>1, <2>1, <2>2, CountKeeps
<1>3. cp' = cp /\ marker' = marker /\ handoff' = handoff /\ selector' = selector
      /\ native' = [rel |-> r, done |-> 0, alive |-> TRUE]
  BY DEF Spawn, files
<1>4. NativeOK'
  <2>1. NativeOf(r)'
    BY <1>1, <1>2, <1>3 DEF NativeOf, Busy, Pending, Submitted, Held, Knows, At
  <2>2. native'.rel = r /\ native' \in [rel : Releases \cup {NoRelease}, done : 0 .. 4, alive : BOOLEAN]
    BY <1>3
  <2>3. r # NoRelease
    BY ReleaseAssumption
  <2> QED
    BY <2>1, <2>2, <2>3 DEF NativeOK
<1>5. /\ proc' \in [rel : Releases \cup {NoRelease}, cmd : Commands, pc : Places, step : 0 .. 2]
      /\ proc'.rel = r /\ proc'.pc = "wait" /\ proc'.cmd = proc.cmd /\ proc'.step = proc.step
  BY <1>1, Went DEF Spawn, Places
<1>6. Knows(r)'
  BY <1>1, <1>3, <1>5 DEF Knows, Before, At, Busy, Pending, Submitted
<1> QED
  BY <1>2, <1>4, <1>5, <1>6, Moved DEF IInv

LEMMA NotSubmittedKeeps ==
  ASSUME IInv, NEW r \in Releases, NotSubmitted(r)
  PROVE  IInv'
<1> DEFINE s == IF proc.step = 1 THEN "proven-unsubmitted" ELSE "submitted-unknown"
           c == WithStatus(cp[r], s)
<1>1. /\ At(r, "perform") /\ Knows(r) /\ Busy(r) /\ native = NoNative /\ proc.rel = r /\ Submitted(r) /\ Held(r)
      /\ proc.step = 1 => performed[r][cp[r].pending.kind] = 0
  BY Known, BusyHolds DEF NotSubmitted, At, Knows
<1>2. Save(r, c) /\ Goto("failed")
  BY <1>1 DEF NotSubmitted, WithStatus, Submitted
<1>3. s \in {"proven-unsubmitted", "submitted-unknown"} /\ c = WithStatus(cp[r], s)
      /\ (s = "submitted-unknown" \/ performed[r][cp[r].pending.kind] = 0)
  BY <1>1
<1> HIDE DEF c, s
<1>4. /\ CheckpointOK(c, r, performed[r], dumps) /\ Working(c) /\ c.effects = cp[r].effects
      /\ c.stage = cp[r].stage
  BY <1>1, <1>3, StatusChanges
<1>5. FilesOK' /\ HostOK' /\ MarkOK' /\ NativeOK' /\ cp'[r] = c
  <2>1. selector.version.rel = r /\ Len(c.effects) >= 2 => runtime = Wanted[r]
    BY <1>4 DEF IInv, HostOK
  <2>2. UNCHANGED <<host, marker, receipt, handoff, superseded, performed>>
    BY DEF NotSubmitted
  <2> QED
    BY <1>1, <1>2, <1>4, <2>1, <2>2, SaveKeeps
<1>6. /\ proc' \in [rel : Releases \cup {NoRelease}, cmd : Commands, pc : Places, step : 0 .. 2]
      /\ proc'.rel = r /\ proc'.pc = "failed" /\ proc'.cmd = proc.cmd /\ proc'.step = proc.step
  BY <1>1, <1>2, Went DEF Places
<1>7. marker' = marker /\ handoff' = handoff
  BY DEF NotSubmitted
<1>8. Knows(r)'
  BY <1>1, <1>6, <1>7 DEF Knows, Before, At
<1> QED
  BY <1>5, <1>6, <1>8, Moved DEF IInv

LEMMA WriteRuntimeKeeps ==
  ASSUME IInv, NEW r \in Releases, WriteRuntime(r)
  PROVE  IInv'
<1>1. /\ At(r, "perform") /\ Knows(r) /\ Busy(r) /\ native = NoNative /\ proc.rel = r /\ Submitted(r)
      /\ cp[r].pending.kind = "persist" /\ Len(cp[r].effects) = 1 /\ selector.version.rel = r
  BY Known, BusyHolds DEF WriteRuntime, At, Knows
<1>2. /\ app' = app /\ selector' = selector /\ dumps' = dumps /\ native' = native
      /\ marker' = marker /\ receipt' = receipt /\ handoff' = handoff /\ superseded' = superseded /\ cp' = cp
      /\ performed' = performed /\ runtime' = Wanted[r]
  BY DEF WriteRuntime, files
<1>3. FilesOK'
  BY <1>2 DEF IInv, FilesOK
<1>4. HostOK'
  <2>1. Wanted[r] \in Images
    BY ReleaseAssumption
  <2>2. ReplacedWithWanted'
    BY <1>2 DEF IInv, HostOK, ReplacedWithWanted
  <2>3. \A y \in Releases : selector.version.rel = y =>
          performed[y]["persist"] = 1 /\ (Len(cp[y].effects) >= 2 => Wanted[r] = Wanted[y])
    BY <1>1 DEF IInv, HostOK
  <2> QED
    BY <1>2, <2>1, <2>2, <2>3 DEF IInv, HostOK
<1>5. MarkOK' /\ NativeOK'
  BY <1>2 DEF IInv, MarkOK, Held, Pending, NativeOK, NativeOf, Submitted
<1>6. /\ proc' \in [rel : Releases \cup {NoRelease}, cmd : Commands, pc : Places, step : 0 .. 2]
      /\ proc'.rel = r /\ proc'.pc = "result" /\ proc'.cmd = proc.cmd /\ proc'.step = proc.step
  BY <1>1, Went DEF WriteRuntime, Places
<1>7. Knows(r)'
  BY <1>1, <1>2, <1>6 DEF Knows, Before, At, Busy, Pending, Submitted
<1> QED
  BY <1>3, <1>4, <1>5, <1>6, <1>7, Moved DEF IInv

LEMMA ReadBackKeeps ==
  ASSUME IInv, NEW r \in Releases, ReadBack(r)
  PROVE  IInv'
<1>1. /\ At(r, "result") /\ Knows(r) /\ Busy(r) /\ native = NoNative /\ proc.rel = r /\ Submitted(r)
      /\ cp[r].pending.kind = "persist" /\ selector = Expected(r) /\ cp[r].pending.op.rel = r
  BY Known, BusyHolds DEF ReadBack, At, Knows, PendingOK
<1>2. selector.version.rel = r
  BY <1>1 DEF Expected
<1>3. FilesOK' /\ HostOK' /\ MarkOK' /\ NativeOK'
  <2>1. UNCHANGED <<host, marker, files, performed>>
    BY DEF ReadBack
  <2> QED
    BY <2>1, QuietKeeps
<1>4. cp' = cp /\ native' = native /\ marker' = marker /\ handoff' = handoff /\ selector' = selector
  BY DEF ReadBack, host, files
<1>5. /\ proc' \in [rel : Releases \cup {NoRelease}, cmd : Commands, pc : Places, step : 0 .. 2]
      /\ proc'.rel = r /\ proc'.pc = "mutate" /\ proc'.cmd = proc.cmd /\ proc'.step = 2
  <2>1. proc' = [proc EXCEPT !.pc = "mutate", !.step = 2] /\ proc.rel = r
    BY <1>1 DEF ReadBack
  <2>2. "mutate" \in Places /\ 2 \in 0 .. 2
    BY DEF Places
  <2> QED
    BY <2>1, <2>2, Stepped
<1>6. Knows(r)'
  BY <1>1, <1>2, <1>4, <1>5 DEF Knows, Before, At, Busy, Pending, Submitted
<1> QED
  BY <1>3, <1>5, <1>6, Moved DEF IInv

\* The result of what is pending.
WithResult(c, v) == [c EXCEPT !.pending.delivered = TRUE, !.pending.result = v]
ResultFits(p, v, x) ==
  /\ v \in Results
  /\ p.kind = "recovery-point" => v = p.op
  /\ p.kind = "persist" => v \in Selectors /\ Mine(v, x)
  /\ p.kind = "replace" => v \in Apps
LEMMA ResultArrives ==
  ASSUME IInv, NEW r \in Releases, Busy(r), Submitted(r), NEW v, ResultFits(cp[r].pending, v, r),
         NEW c, c = WithResult(cp[r], v)
  PROVE  /\ CheckpointOK(c, r, performed[r], dumps) /\ c.stage = cp[r].stage /\ c.effects = cp[r].effects
         /\ c.pending.kind = cp[r].pending.kind /\ c.pending.op = cp[r].pending.op
         /\ c.pending.status = "submitted-unknown" /\ c.pending.delivered /\ c.pending.result = v
<1>1. cp[r] \in Checkpoints /\ cp[r].pending \in Pendings /\ cp[r].pending.status = "submitted-unknown"
  BY Known DEF Checkpoints, Submitted
<1> v \in Results
  BY DEF ResultFits
<1>2. /\ c.stage = cp[r].stage /\ c.effects = cp[r].effects /\ c.before = cp[r].before /\ c.after = cp[r].after
      /\ c.initial = cp[r].initial /\ c.accepted = cp[r].accepted /\ c.retried = cp[r].retried
      /\ c.pending = [cp[r].pending EXCEPT !.delivered = TRUE, !.result = v]
  BY <1>1 DEF Checkpoints, WithResult
<1>3. /\ c.pending.kind = cp[r].pending.kind /\ c.pending.op = cp[r].pending.op
      /\ c.pending.delivered = TRUE /\ c.pending.status = "submitted-unknown"
      /\ c.pending.result = v /\ c.pending \in Pendings
  BY <1>1, <1>2 DEF Pendings
<1>4. c \in Checkpoints
  BY <1>1, <1>3 DEF Checkpoints, WithResult
<1>5. Place(c)
  BY <1>2, <1>3, Known DEF Place, Busy, Pending
<1>6. EffectsOK(c, r) /\ (Len(c.effects) >= 1 => \E op \in dumps : op.rel = r)
  BY <1>2, Known DEF EffectsOK
<1>7. PendingOK(c, r)
  BY <1>3, Known DEF PendingOK, Busy, Pending, ResultFits
<1>8. CountsOK(c, performed[r])
  <2>1. CountsOK(cp[r], performed[r])
    BY Known
  <2> QED
    BY <1>2, <1>3, <2>1 DEF CountsOK, InDoubt
<1> QED
  BY <1>2, <1>3, <1>4, <1>5, <1>6, <1>7, <1>8 DEF CheckpointOK

LEMMA SaveResultKeeps ==
  ASSUME IInv, NEW r \in Releases, SaveResult(r)
  PROVE  IInv'
<1>1. /\ At(r, "result") /\ Knows(r) /\ Busy(r) /\ native = NoNative /\ proc.rel = r /\ Submitted(r) /\ Held(r)
      /\ Kind(r) = cp[r].pending.kind /\ cp[r].pending.kind \in {"recovery-point", "persist", "replace"}
      /\ cp[r].pending.op.rel = r /\ cp[r].pending.op \in Ops
      /\ cp[r].pending.kind = "recovery-point" => cp[r].pending.op \in dumps
  BY Known, BusyHolds DEF SaveResult, At, Knows, PendingOK, Checkpoints, Pendings
<1>2. PICK v : /\ Save(r, WithResult(cp[r], v))
               /\ cp[r].pending.kind = "recovery-point" => v = cp[r].pending.op
               /\ cp[r].pending.kind = "persist" => v = selector /\ selector = Expected(r) /\ runtime = Wanted[r]
               /\ cp[r].pending.kind = "replace" => v = app
  <2>1. CASE Kind(r) = "recovery-point"
    BY <1>1, <2>1 DEF SaveResult, WithResult
  <2>2. CASE Kind(r) = "persist"
    BY <1>1, <2>2 DEF SaveResult, WithResult
  <2>3. CASE Kind(r) = "replace"
    BY <1>1, <2>3 DEF SaveResult, WithResult
  <2> QED
    BY <1>1, <2>1, <2>2, <2>3
<1>3. ResultFits(cp[r].pending, v, r)
  BY <1>1, <1>2 DEF IInv, HostOK, Mine, Expected, Results, ResultFits
<1> DEFINE c == WithResult(cp[r], v)
<1>4. c = WithResult(cp[r], v) /\ Save(r, c)
  BY <1>2
<1> HIDE DEF c
<1>5. /\ CheckpointOK(c, r, performed[r], dumps) /\ c.stage = cp[r].stage /\ c.effects = cp[r].effects
      /\ c.pending.kind = cp[r].pending.kind /\ c.pending.op = cp[r].pending.op
      /\ c.pending.status = "submitted-unknown" /\ c.pending.delivered /\ c.pending.result = v
  <2>1. Busy(r) /\ Submitted(r) /\ c = WithResult(cp[r], v)
    BY <1>1, <1>4
  <2> QED
    BY <1>3, <2>1, ResultArrives
<1>6. FilesOK' /\ HostOK' /\ MarkOK' /\ NativeOK' /\ cp'[r] = c
  <2>1. selector.version.rel = r /\ Len(c.effects) >= 2 => runtime = Wanted[r]
    BY <1>5 DEF IInv, HostOK
  <2>2. UNCHANGED <<host, marker, receipt, handoff, superseded, performed>>
    BY DEF SaveResult
  <2> QED
    BY <1>1, <1>4, <1>5, <2>1, <2>2, SaveKeeps
<1>7. /\ proc' \in [rel : Releases \cup {NoRelease}, cmd : Commands, pc : Places, step : 0 .. 2]
      /\ proc'.rel = r /\ proc'.pc = "commit" /\ proc'.cmd = proc.cmd /\ proc'.step = proc.step
  BY <1>1, Went DEF SaveResult, Places
<1>8. marker' = marker /\ handoff' = handoff /\ dumps' = dumps /\ runtime' = runtime
  BY DEF SaveResult, host
<1>9. Knows(r)'
  BY <1>1, <1>2, <1>5, <1>6, <1>7, <1>8 DEF Knows, Before, At, Pending, Held
<1> QED
  BY <1>6, <1>7, <1>9, Moved DEF IInv

\* An effect is recorded, and no longer pending.
Recording(c, e, stage, after, accepted) ==
  [c EXCEPT !.stage = stage, !.after = after, !.accepted = accepted, !.pending = NoPending,
            !.effects = Append(@, e)]
EffectFits(r, e, stage, after) ==
  /\ e \in Committed /\ e.kind = cp[r].pending.kind /\ after \in Selectors
  /\ e.kind = "recovery-point" => stage = "preflight" /\ \E op \in dumps : op.rel = r
  /\ e.kind = "persist" =>
       /\ stage \in {"persist", "replace"} /\ e.result \in Selectors /\ Mine(e.result, r)
       /\ stage = "replace" => Mine(after, r)
  /\ e.kind = "replace" =>
       /\ stage \in {"replace", "verify", "recovery-ready"} /\ e.result \in Apps
       /\ stage = "replace" => after = cp[r].after
LEMMA EffectRecorded ==
  ASSUME IInv, NEW r \in Releases, Pending(r), NEW e, NEW stage, NEW after, EffectFits(r, e, stage, after),
         NEW accepted \in Apps, NEW c, c = Recording(cp[r], e, stage, after, accepted)
  PROVE  /\ CheckpointOK(c, r, performed[r], dumps) /\ c.stage = stage /\ c.pending.kind = "none"
         /\ c.after = after /\ c.accepted = accepted
         /\ e.kind = "recovery-point" => Len(c.effects) = 1
         /\ e.kind = "persist" => Len(c.effects) = 2 /\ c.effects[2] = e
         /\ e.kind = "replace" => Len(c.effects) = 3 /\ c.effects[3] = e /\ c.effects[2] = cp[r].effects[2]
<1>1. /\ cp[r] \in Checkpoints /\ cp[r].effects \in Seq(Committed) /\ e.kind \in Kinds
      /\ Place(cp[r]) /\ EffectsOK(cp[r], r) /\ CountsOK(cp[r], performed[r])
      /\ Len(cp[r].effects) >= 1 => \E op \in dumps : op.rel = r
  BY Known DEF Checkpoints, Committed, EffectFits
<1> e \in Committed /\ after \in Selectors
  BY DEF EffectFits
<1>2. /\ c.stage = stage /\ c.before = cp[r].before /\ c.after = after /\ c.accepted = accepted
      /\ c.initial = cp[r].initial /\ c.retried = cp[r].retried
      /\ c.pending = NoPending /\ c.effects = Append(cp[r].effects, e)
  BY <1>1 DEF Checkpoints, Recording
<1>3. /\ \A i \in 1 .. Len(cp[r].effects) : c.effects[i] = cp[r].effects[i]
      /\ c.effects[Len(cp[r].effects) + 1] = e /\ Len(c.effects) = Len(cp[r].effects) + 1
      /\ c.effects \in Seq(Committed)
  BY <1>1, <1>2, Recorded
<1>4. stage \in StageNames
  BY <1>1 DEF Kinds, StageNames, EffectFits
<1>5. c \in Checkpoints
  <2>1. c.pending \in Pendings
    BY <1>2, NoPendingFacts
  <2> QED
    BY <1>1, <1>2, <1>3, <1>4, <2>1 DEF Checkpoints, Recording
<1>6. c.pending.kind = "none" /\ c.pending.delivered = FALSE
  BY <1>2, NoPendingFacts
<1>7. PendingOK(c, r)
  BY <1>2, <1>6 DEF PendingOK
<1>8. CASE e.kind = "recovery-point"
  <2>1. cp[r].stage = "preflight" /\ Len(cp[r].effects) = 0 /\ cp[r].pending.kind = "recovery-point"
    BY <1>1, <1>8 DEF Place, EffectFits
  <2>2. Len(c.effects) = 1 /\ c.effects[1] = e
    BY <1>3, <2>1
  <2>3. Place(c) /\ EffectsOK(c, r)
    BY <1>1, <1>2, <1>6, <1>8, <2>2 DEF Place, EffectsOK, EffectFits
  <2>4. CountsOK(c, performed[r])
    BY <1>1, <2>1, <2>2 DEF CountsOK, InDoubt
  <2> QED
    BY <1>2, <1>5, <1>6, <1>7, <1>8, <2>2, <2>3, <2>4 DEF CheckpointOK, EffectFits
<1>9. CASE e.kind = "persist"
  <2>1. cp[r].stage = "persist" /\ Len(cp[r].effects) = 1 /\ cp[r].pending.kind = "persist"
    BY <1>1, <1>9 DEF Place, EffectFits
  <2>2. Len(c.effects) = 2 /\ c.effects[2] = e /\ c.effects[1] = cp[r].effects[1]
    BY <1>3, <2>1
  <2>3. Place(c) /\ EffectsOK(c, r)
    BY <1>1, <1>2, <1>6, <1>9, <2>1, <2>2 DEF Place, EffectsOK, EffectFits
  <2>4. CountsOK(c, performed[r])
    BY <1>1, <2>1, <2>2 DEF CountsOK, InDoubt
  <2> QED
    BY <1>1, <1>2, <1>5, <1>6, <1>7, <1>9, <2>1, <2>2, <2>3, <2>4 DEF CheckpointOK
<1>10. CASE e.kind = "replace"
  <2>1. cp[r].stage = "replace" /\ Len(cp[r].effects) = 2 /\ cp[r].pending.kind = "replace"
    BY <1>1, <1>10 DEF Place, EffectFits
  <2>2. /\ Len(c.effects) = 3 /\ c.effects[3] = e
        /\ c.effects[1] = cp[r].effects[1] /\ c.effects[2] = cp[r].effects[2]
    BY <1>3, <2>1
  <2>3. Place(c) /\ EffectsOK(c, r)
    BY <1>1, <1>2, <1>6, <1>10, <2>1, <2>2 DEF Place, EffectsOK, EffectFits
  <2>4. CountsOK(c, performed[r])
    BY <1>1, <2>1, <2>2 DEF CountsOK, InDoubt
  <2> QED
    BY <1>1, <1>2, <1>5, <1>6, <1>7, <1>10, <2>1, <2>2, <2>3, <2>4 DEF CheckpointOK
<1> QED
  BY <1>1, <1>8, <1>9, <1>10 DEF Kinds

LEMMA CommitKeeps ==
  ASSUME IInv, NEW r \in Releases, Commit(r)
  PROVE  IInv'
<1> DEFINE e == [kind |-> cp[r].pending.kind, result |-> cp[r].pending.result, status |-> "committed"]
           c == Recording(cp[r], e, cp[r].stage, cp[r].after, cp[r].accepted)
<1>1. /\ At(r, "commit") /\ Knows(r) /\ Pending(r) /\ cp[r].pending.delivered /\ proc.rel = r /\ Held(r)
      /\ cp[r] \in Checkpoints /\ Place(cp[r]) /\ PendingOK(cp[r], r)
  BY Known DEF Commit, At, Knows
<1>2. /\ e.kind = cp[r].pending.kind /\ e.result = cp[r].pending.result
      /\ cp[r].after \in Selectors /\ cp[r].accepted \in Apps
      /\ cp[r].pending.kind \in Kinds /\ cp[r].pending.result \in Results
  BY <1>1 DEF Checkpoints, Pendings, Pending
<1>3. e \in Committed
  BY <1>2 DEF Committed
<1>4. Save(r, c) /\ c = Recording(cp[r], e, cp[r].stage, cp[r].after, cp[r].accepted)
  BY <1>1 DEF Commit, Committing, Recording, Checkpoints
<1> HIDE DEF e, c
<1>5. EffectFits(r, e, cp[r].stage, cp[r].after)
  <2>1. e.kind = "recovery-point" => cp[r].stage = "preflight" /\ cp[r].pending.op \in dumps /\ cp[r].pending.op.rel = r
    BY <1>1, <1>2 DEF Place, At, Knows, PendingOK
  <2>2. e.kind = "persist" => cp[r].stage = "persist" /\ e.result \in Selectors /\ Mine(e.result, r)
    BY <1>1, <1>2 DEF Place, PendingOK
  <2>3. e.kind = "replace" => cp[r].stage = "replace" /\ e.result \in Apps
    BY <1>1, <1>2 DEF Place, PendingOK
  <2> QED
    BY <1>2, <1>3, <2>1, <2>2, <2>3 DEF EffectFits
<1>6. /\ CheckpointOK(c, r, performed[r], dumps) /\ c.stage = cp[r].stage /\ c.pending.kind = "none"
      /\ e.kind = "recovery-point" => Len(c.effects) = 1
      /\ e.kind = "persist" => Len(c.effects) = 2
      /\ e.kind = "replace" => Len(c.effects) = 3
  BY <1>1, <1>2, <1>4, <1>5, EffectRecorded
<1>7. native = NoNative
  BY <1>1, NoNativeLeft DEF Held
<1>8. FilesOK' /\ HostOK' /\ MarkOK' /\ NativeOK' /\ cp'[r] = c
  <2>1. selector.version.rel = r /\ Len(c.effects) >= 2 => runtime = Wanted[r]
    <3>1. CASE e.kind = "recovery-point"
      BY <1>6, <3>1
    <3>2. CASE e.kind = "persist"
      BY <1>1, <1>2, <3>2 DEF At, Knows
    <3>3. CASE e.kind = "replace"
      <4> DEFINE n == Len(cp[r].effects)
      <4>1. n = 2
        BY <1>1, <1>2, <3>3 DEF Place
      <4> HIDE DEF n
      <4>2. n >= 2
        BY <4>1
      <4> QED
        BY <4>2 DEF IInv, HostOK, n
    <3> QED
      BY <1>2, <3>1, <3>2, <3>3 DEF Kinds
  <2>2. UNCHANGED <<host, marker, receipt, handoff, superseded, performed>>
    BY DEF Commit
  <2> QED
    BY <1>1, <1>4, <1>6, <1>7, <2>1, <2>2, SaveKeeps
<1>9. /\ proc' \in [rel : Releases \cup {NoRelease}, cmd : Commands, pc : Places, step : 0 .. 2]
      /\ proc'.rel = r /\ proc'.pc = "advance" /\ proc'.cmd = proc.cmd /\ proc'.step = proc.step
  BY <1>1, Went DEF Commit, Places
<1>10. marker' = marker /\ handoff' = handoff
  BY DEF Commit
<1>11. \/ c.stage = "preflight" /\ Len(c.effects) = 1
       \/ c.stage = "persist" /\ Len(c.effects) = 2
       \/ c.stage = "replace" /\ Len(c.effects) = 3
  BY <1>1, <1>2, <1>6 DEF Place, Pending
<1>12. Knows(r)'
  BY <1>1, <1>6, <1>8, <1>9, <1>10, <1>11 DEF Knows, Before, At, Pending, Held
<1> QED
  BY <1>8, <1>9, <1>12, Moved DEF IInv

\* The next stage after the effects recorded so far.
LEMMA AdvanceFits ==
  ASSUME IInv, NEW r \in Releases, cp[r].pending.kind = "none", NEW c, c = Advanced(r),
         \/ cp[r].stage = "preflight" /\ Len(cp[r].effects) = 1
         \/ cp[r].stage = "persist" /\ Len(cp[r].effects) = 2
         \/ cp[r].stage = "replace" /\ Len(cp[r].effects) = 3
  PROVE  /\ CheckpointOK(c, r, performed[r], dumps) /\ c.pending.kind = "none" /\ c.effects = cp[r].effects
         /\ \/ Len(cp[r].effects) = 1 /\ c.stage = "persist"
            \/ Len(cp[r].effects) = 2 /\ c.stage = "replace"
            \/ Len(cp[r].effects) = 3 /\ c.stage = "verify"
<1>1. /\ cp[r] \in Checkpoints /\ Place(cp[r]) /\ EffectsOK(cp[r], r) /\ CountsOK(cp[r], performed[r])
      /\ PendingOK(cp[r], r) /\ (Len(cp[r].effects) >= 1 => \E op \in dumps : op.rel = r)
  BY Known
<1>2. \/ Len(cp[r].effects) = 1 /\ NextStage(r) = "persist"
      \/ Len(cp[r].effects) = 2 /\ NextStage(r) = "replace"
      \/ Len(cp[r].effects) = 3 /\ NextStage(r) = "verify"
  <2> DEFINE n == Len(cp[r].effects)
  <2>1. NextStage(r) = Stages[n + 1] /\ (n = 1 \/ n = 2 \/ n = 3)
    BY DEF NextStage
  <2> HIDE DEF n
  <2>2. \/ n = 1 /\ NextStage(r) = "persist"
        \/ n = 2 /\ NextStage(r) = "replace"
        \/ n = 3 /\ NextStage(r) = "verify"
    BY <2>1, StageFacts
  <2> QED
    BY <2>2 DEF n
<1> DEFINE after == IF NextStage(r) = "replace" THEN cp[r].effects[2].result ELSE cp[r].after
           accepted == IF NextStage(r) = "verify" THEN cp[r].effects[3].result ELSE cp[r].accepted
<1>3. c = [cp[r] EXCEPT !.stage = NextStage(r), !.after = after, !.accepted = accepted]
  BY <1>1 DEF Advanced, Checkpoints
<1>4. after \in Selectors /\ accepted \in Apps /\ (NextStage(r) = "replace" => Mine(after, r))
  BY <1>1, <1>2 DEF EffectsOK, Checkpoints
<1> HIDE DEF after, accepted
<1>5. /\ c.stage = NextStage(r) /\ c.after = after /\ c.effects = cp[r].effects /\ c.pending = cp[r].pending
      /\ c.before = cp[r].before
  BY <1>1, <1>3 DEF Checkpoints
<1>6. c \in Checkpoints
  BY <1>1, <1>2, <1>3, <1>4 DEF Checkpoints, StageNames
<1>7. Place(c)
  BY <1>2, <1>5 DEF Place
<1>8. EffectsOK(c, r)
  BY <1>1, <1>4, <1>5 DEF EffectsOK
<1>9. PendingOK(c, r) /\ CountsOK(c, performed[r])
  BY <1>1, <1>5 DEF PendingOK, CountsOK, InDoubt
<1> QED
  BY <1>1, <1>2, <1>5, <1>6, <1>7, <1>8, <1>9 DEF CheckpointOK

LEMMA AdvanceKeeps ==
  ASSUME IInv, NEW r \in Releases, Advance(r)
  PROVE  IInv'
<1>1. /\ At(r, "advance") /\ Knows(r) /\ ~Pending(r) /\ proc.rel = r /\ Held(r)
      /\ \/ cp[r].stage = "preflight" /\ Len(cp[r].effects) = 1
         \/ cp[r].stage = "persist" /\ Len(cp[r].effects) = 2
         \/ cp[r].stage = "replace" /\ Len(cp[r].effects) = 3
  BY Known DEF Advance, At, Knows
<1> DEFINE c == Advanced(r)
<1>2. Save(r, c) /\ c = Advanced(r) /\ cp[r].pending.kind = "none"
  BY <1>1 DEF Advance, Pending
<1> HIDE DEF c
<1>3. /\ CheckpointOK(c, r, performed[r], dumps) /\ c.pending.kind = "none" /\ c.effects = cp[r].effects
      /\ \/ Len(cp[r].effects) = 1 /\ c.stage = "persist"
         \/ Len(cp[r].effects) = 2 /\ c.stage = "replace"
         \/ Len(cp[r].effects) = 3 /\ c.stage = "verify"
  BY <1>1, <1>2, AdvanceFits
<1>4. native = NoNative
  BY <1>1, NoNativeLeft DEF Held, Pending
<1>5. FilesOK' /\ HostOK' /\ MarkOK' /\ NativeOK' /\ cp'[r] = c
  <2>1. selector.version.rel = r /\ Len(c.effects) >= 2 => runtime = Wanted[r]
    BY <1>3 DEF IInv, HostOK
  <2>2. UNCHANGED <<host, marker, receipt, handoff, superseded, performed>>
    BY DEF Advance
  <2> QED
    BY <1>1, <1>2, <1>3, <1>4, <2>1, <2>2, SaveKeeps
<1>6. /\ proc' \in [rel : Releases \cup {NoRelease}, cmd : Commands, pc : Places, step : 0 .. 2]
      /\ proc'.rel = r /\ proc'.pc = "stage" /\ proc'.cmd = proc.cmd /\ proc'.step = proc.step
  BY <1>1, Went DEF Advance, Places
<1>7. marker' = marker /\ handoff' = handoff
  BY DEF Advance
<1>8. Knows(r)'
  BY <1>1, <1>3, <1>5, <1>6, <1>7 DEF Knows, Before, At, Pending
<1> QED
  BY <1>5, <1>6, <1>8, Moved DEF IInv

-----------------------------------------------------------------------------
(* The beginning of an invocation.                                          *)

LEMMA AttendKeeps ==
  ASSUME IInv, NEW r \in Releases, Attend(r)
  PROVE  IInv'
<1> DEFINE e == [kind |-> "replace", result |-> app, status |-> "attended-effective-state"]
<1>1. /\ At(r, "begin") /\ Knows(r) /\ Pending(r) /\ Busy(r) /\ proc.rel = r /\ native = NoNative
      /\ cp[r] \in Checkpoints /\ cp[r].pending.kind = "replace" /\ Held(r) /\ app \in Apps
  BY Known, BusyHolds DEF Attend, Resuming, At, Busy, Pending, IInv, HostOK
<1>2. PICK stage \in {"verify", "recovery-ready"} : Save(r, Recording(cp[r], e, stage, cp[r].after, app))
  <2>1. PICK stage \in {"verify", "recovery-ready"} :
          Save(r, [cp[r] EXCEPT !.stage = stage, !.accepted = app, !.pending = NoPending, !.effects = Append(@, e)])
    BY DEF Attend
  <2>2. [cp[r] EXCEPT !.stage = stage, !.accepted = app, !.pending = NoPending, !.effects = Append(@, e)]
          = Recording(cp[r], e, stage, cp[r].after, app)
    BY <1>1 DEF Checkpoints, Recording
  <2> QED
    BY <2>1, <2>2
<1> DEFINE c == Recording(cp[r], e, stage, cp[r].after, app)
<1>3. Save(r, c) /\ c = Recording(cp[r], e, stage, cp[r].after, app)
  BY <1>2
<1>4. e.kind = "replace" /\ e.result = app /\ e \in Committed /\ cp[r].after \in Selectors
  BY <1>1 DEF Committed, Kinds, Results, Checkpoints
<1> HIDE DEF e, c
<1>5. EffectFits(r, e, stage, cp[r].after)
  BY <1>1, <1>4 DEF EffectFits
<1>6. CheckpointOK(c, r, performed[r], dumps) /\ c.stage = stage /\ c.pending.kind = "none" /\ Len(c.effects) = 3
  BY <1>1, <1>3, <1>4, <1>5, EffectRecorded
<1>7. Len(cp[r].effects) = 2
  BY <1>1, BusyHolds
<1>8. FilesOK' /\ HostOK' /\ MarkOK' /\ NativeOK' /\ cp'[r] = c
  <2>1. selector.version.rel = r /\ Len(c.effects) >= 2 => runtime = Wanted[r]
    <3> DEFINE n == Len(cp[r].effects)
    <3>1. n = 2
      BY <1>7
    <3> HIDE DEF n
    <3>2. n >= 2
      BY <3>1
    <3> QED
      BY <3>2 DEF IInv, HostOK, n
  <2>2. UNCHANGED <<host, marker, receipt, handoff, superseded, performed>>
    BY DEF Attend
  <2> QED
    BY <1>1, <1>3, <1>6, <2>1, <2>2, SaveKeeps
<1>9. /\ proc' \in [rel : Releases \cup {NoRelease}, cmd : Commands, pc : Places, step : 0 .. 2]
      /\ proc'.rel = r /\ proc'.pc = "stage" /\ proc'.cmd = proc.cmd /\ proc'.step = proc.step
  BY <1>1, Went DEF Attend, Places
<1>10. marker' = marker /\ handoff' = handoff
  BY DEF Attend
<1>11. Knows(r)'
  BY <1>1, <1>6, <1>8, <1>9, <1>10 DEF Knows, Before, At, Pending
<1> QED
  BY <1>8, <1>9, <1>11, Moved DEF IInv

LEMMA ResumeRetryKeeps ==
  ASSUME IInv, NEW r \in Releases, ResumeRetry(r)
  PROVE  IInv'
<1> DEFINE c == [cp[r] EXCEPT !.retried = TRUE, !.pending = NoPending]
<1>1. /\ At(r, "begin") /\ Knows(r) /\ Pending(r) /\ ~Submitted(r) /\ proc.rel = r /\ cp[r] \in Checkpoints
      /\ PendingOK(cp[r], r) /\ EffectsOK(cp[r], r) /\ CountsOK(cp[r], performed[r]) /\ Place(cp[r])
      /\ Len(cp[r].effects) >= 1 => \E op \in dumps : op.rel = r
  BY Known DEF ResumeRetry, Resuming, At
<1>2. Busy(r)
  BY <1>1 DEF Busy, PendingOK, Submitted
<1>3. /\ Held(r)
      /\ \/ cp[r].stage = "preflight" /\ Len(cp[r].effects) = 0
         \/ cp[r].stage = "persist" /\ Len(cp[r].effects) = 1
         \/ cp[r].stage = "replace" /\ Len(cp[r].effects) = 2
  BY <1>2, BusyHolds
<1>4. /\ c.stage = cp[r].stage /\ c.effects = cp[r].effects /\ c.before = cp[r].before /\ c.after = cp[r].after
      /\ c.pending = NoPending /\ c \in Checkpoints
  BY <1>1, NoPendingFacts DEF Checkpoints
<1>5. Save(r, c)
  BY DEF ResumeRetry
<1> HIDE DEF c
<1>6. c.pending.kind = "none" /\ ~c.pending.delivered
  BY <1>4, NoPendingFacts
<1>7. CheckpointOK(c, r, performed[r], dumps)
  <2>1. Place(c)
    BY <1>3, <1>4, <1>6 DEF Place
  <2>2. EffectsOK(c, r) /\ (Len(c.effects) >= 1 => \E op \in dumps : op.rel = r)
    BY <1>1, <1>4 DEF EffectsOK
  <2>3. PendingOK(c, r)
    BY <1>4, <1>6 DEF PendingOK
  <2>4. CountsOK(c, performed[r])
    BY <1>1, <1>4 DEF CountsOK, InDoubt, Submitted
  <2> QED
    BY <1>4, <2>1, <2>2, <2>3, <2>4 DEF CheckpointOK
<1>8. native = NoNative
  BY <1>1, <1>3, NoNativeLeft DEF Held
<1>9. FilesOK' /\ HostOK' /\ MarkOK' /\ NativeOK' /\ cp'[r] = c
  <2>1. selector.version.rel = r /\ Len(c.effects) >= 2 => runtime = Wanted[r]
    BY <1>4 DEF IInv, HostOK
  <2>2. UNCHANGED <<host, marker, receipt, handoff, superseded, performed>>
    BY DEF ResumeRetry
  <2> QED
    BY <1>3, <1>5, <1>7, <1>8, <2>1, <2>2, SaveKeeps
<1>10. /\ proc' \in [rel : Releases \cup {NoRelease}, cmd : Commands, pc : Places, step : 0 .. 2]
       /\ proc'.rel = r /\ proc'.pc = "stage" /\ proc'.cmd = proc.cmd /\ proc'.step = proc.step
  BY <1>1, Went DEF ResumeRetry, Places
<1>11. marker' = marker /\ handoff' = handoff
  BY DEF ResumeRetry
<1>12. Knows(r)'
  BY <1>1, <1>3, <1>4, <1>6, <1>9, <1>10, <1>11 DEF Knows, Before, At, Pending
<1> QED
  BY <1>9, <1>10, <1>12, Moved DEF IInv

LEMMA ResumeRuntimeKeeps ==
  ASSUME IInv, NEW r \in Releases, ResumeRuntime(r)
  PROVE  IInv'
<1>1. /\ At(r, "begin") /\ Knows(r) /\ proc.rel = r /\ cp[r].pending.kind = "persist" /\ Pending(r) /\ Submitted(r)
      /\ selector = Expected(r) /\ cp[r].pending.op.rel = r /\ Len(cp[r].effects) = 1 /\ cp[r].stage = "persist"
  BY Known DEF ResumeRuntime, PersistArrived, Resuming, At, Pending, PendingOK, Place
<1>2. selector.version.rel = r
  BY <1>1 DEF Expected
<1>3. native = NoNative
  BY <1>1, <1>2, NativeOfOwner DEF NativeOf, Knows, At, Before
<1>4. /\ app' = app /\ selector' = selector /\ dumps' = dumps /\ native' = native
      /\ marker' = marker /\ receipt' = receipt /\ handoff' = handoff /\ superseded' = superseded /\ cp' = cp
      /\ performed' = performed /\ runtime' = Wanted[r] /\ proc' = proc
  BY DEF ResumeRuntime, files
<1>5. FilesOK'
  BY <1>4 DEF IInv, FilesOK
<1>6. HostOK'
  <2>1. Wanted[r] \in Images
    BY ReleaseAssumption
  <2>2. ReplacedWithWanted'
    BY <1>4 DEF IInv, HostOK, ReplacedWithWanted
  <2>3. \A y \in Releases : selector.version.rel = y =>
          performed[y]["persist"] = 1 /\ (Len(cp[y].effects) >= 2 => Wanted[r] = Wanted[y])
    BY <1>2 DEF IInv, HostOK
  <2> QED
    BY <1>4, <2>1, <2>2, <2>3 DEF IInv, HostOK
<1>7. MarkOK' /\ NativeOK'
  BY <1>4 DEF IInv, MarkOK, Held, Pending, NativeOK, NativeOf, Submitted
<1>8. Knows(r)'
  BY <1>1, <1>4 DEF Knows, Before, At
<1>9. proc' \in [rel : Releases \cup {NoRelease}, cmd : Commands, pc : Places, step : 0 .. 2] /\ proc'.rel = r
  BY <1>1, <1>4 DEF IInv, ProcOK
<1> QED
  BY <1>5, <1>6, <1>7, <1>8, <1>9, Moved DEF IInv

LEMMA ResumePersistKeeps ==
  ASSUME IInv, NEW r \in Releases, ResumePersist(r)
  PROVE  IInv'
<1> DEFINE e == [kind |-> cp[r].pending.kind, result |-> selector, status |-> "committed"]
           c == Recording(cp[r], e, "replace", selector, cp[r].accepted)
<1>1. /\ At(r, "begin") /\ Knows(r) /\ proc.rel = r /\ cp[r].pending.kind = "persist" /\ Pending(r)
      /\ selector = Expected(r) /\ cp[r].pending.op.rel = r /\ runtime = Wanted[r] /\ cp[r] \in Checkpoints
      /\ selector \in Selectors /\ cp[r].accepted \in Apps
  BY Known DEF ResumePersist, PersistArrived, Resuming, At, Pending, PendingOK, Checkpoints, IInv, HostOK
<1>2. selector.version.rel = r /\ Mine(selector, r)
  BY <1>1 DEF Expected, Mine
<1>3. native = NoNative
  BY <1>1, <1>2, NativeOfOwner DEF NativeOf, Knows, At, Before
<1>4. Save(r, c) /\ c = Recording(cp[r], e, "replace", selector, cp[r].accepted)
  BY <1>1 DEF ResumePersist, Committing, Recording, Checkpoints
<1>5. e.kind = "persist" /\ e.result = selector /\ e \in Committed
  BY <1>1 DEF Committed, Kinds, Results
<1> HIDE DEF e, c
<1>6. EffectFits(r, e, "replace", selector)
  BY <1>1, <1>2, <1>5 DEF EffectFits
<1>7. CheckpointOK(c, r, performed[r], dumps) /\ c.stage = "replace" /\ c.pending.kind = "none" /\ Len(c.effects) = 2
  BY <1>1, <1>4, <1>5, <1>6, EffectRecorded
<1>8. Held(r)
  <2>1. Place(cp[r])
    BY Known
  <2>2. Len(cp[r].effects) = 1
    BY <1>1, <2>1 DEF Place
  <2>3. Working(cp[r])
    BY <1>1, <2>2 DEF Working
  <2> QED
    BY <2>3 DEF IInv, MarkOK
<1>9. FilesOK' /\ HostOK' /\ MarkOK' /\ NativeOK' /\ cp'[r] = c
  <2>1. UNCHANGED <<host, marker, receipt, handoff, superseded, performed>>
    BY DEF ResumePersist
  <2> QED
    BY <1>1, <1>3, <1>4, <1>7, <1>8, <2>1, SaveKeeps
<1>10. /\ proc' \in [rel : Releases \cup {NoRelease}, cmd : Commands, pc : Places, step : 0 .. 2]
       /\ proc'.rel = r /\ proc'.pc = "stage" /\ proc'.cmd = proc.cmd /\ proc'.step = proc.step
  BY <1>1, Went DEF ResumePersist, Places
<1>11. marker' = marker /\ handoff' = handoff
  BY DEF ResumePersist
<1>12. Knows(r)'
  BY <1>1, <1>7, <1>9, <1>10, <1>11 DEF Knows, Before, At, Pending
<1> QED
  BY <1>9, <1>10, <1>12, Moved DEF IInv

LEMMA ResumeReplaceKeeps ==
  ASSUME IInv, NEW r \in Releases, ResumeReplace(r)
  PROVE  IInv'
<1> DEFINE e == [kind |-> cp[r].pending.kind, result |-> app, status |-> "committed"]
           c == Recording(cp[r], e, "verify", cp[r].after, app)
<1>1. /\ At(r, "begin") /\ Knows(r) /\ proc.rel = r /\ cp[r].pending.kind = "replace" /\ Pending(r)
      /\ cp[r].pending.delivered /\ cp[r] \in Checkpoints /\ app \in Apps /\ cp[r].after \in Selectors
      /\ Place(cp[r])
  BY Known DEF ResumeReplace, Resuming, At, Pending, Checkpoints, IInv, HostOK
<1>2. native = NoNative
  BY <1>1, NoNativeLeft DEF Knows, At, Before
<1>3. Save(r, c) /\ c = Recording(cp[r], e, "verify", cp[r].after, app)
  BY <1>1 DEF ResumeReplace, Committing, Recording, Checkpoints
<1>4. e.kind = "replace" /\ e.result = app /\ e \in Committed
  BY <1>1 DEF Committed, Kinds, Results
<1> HIDE DEF e, c
<1>5. EffectFits(r, e, "verify", cp[r].after)
  BY <1>1, <1>4 DEF EffectFits
<1>6. CheckpointOK(c, r, performed[r], dumps) /\ c.stage = "verify" /\ c.pending.kind = "none" /\ Len(c.effects) = 3
  BY <1>1, <1>3, <1>4, <1>5, EffectRecorded
<1>7. FilesOK' /\ HostOK' /\ MarkOK' /\ NativeOK' /\ cp'[r] = c
  <2>1. selector.version.rel = r => runtime = Wanted[r]
    <3> DEFINE n == Len(cp[r].effects)
    <3>1. n = 2
      BY <1>1 DEF Place
    <3> HIDE DEF n
    <3>2. n >= 2
      BY <3>1
    <3> QED
      BY <3>2 DEF IInv, HostOK, n
  <2>2. UNCHANGED <<host, marker, receipt, handoff, superseded, performed>>
    BY DEF ResumeReplace
  <2>3. ~Working(c) /\ ~(c.pending.kind # "none" /\ superseded[r] = NoRelease)
    BY <1>6 DEF Working
  <2> QED
    BY <1>2, <1>3, <1>6, <2>1, <2>2, <2>3, SaveKeeps
<1>8. /\ proc' \in [rel : Releases \cup {NoRelease}, cmd : Commands, pc : Places, step : 0 .. 2]
      /\ proc'.rel = r /\ proc'.pc = "stage" /\ proc'.cmd = proc.cmd /\ proc'.step = proc.step
  BY <1>1, Went DEF ResumeReplace, Places
<1>9. marker' = marker /\ handoff' = handoff
  BY DEF ResumeReplace
<1>10. Knows(r)'
  BY <1>1, <1>6, <1>7, <1>8, <1>9 DEF Knows, Before, At, Pending
<1> QED
  BY <1>7, <1>8, <1>10, Moved DEF IInv

LEMMA ResumeBackupKeeps ==
  ASSUME IInv, NEW r \in Releases, ResumeBackup(r)
  PROVE  IInv'
<1> DEFINE e == [kind |-> cp[r].pending.kind, result |-> cp[r].pending.result, status |-> "committed"]
           c == Recording(cp[r], e, cp[r].stage, cp[r].after, cp[r].accepted)
<1>1. /\ At(r, "begin") /\ Knows(r) /\ proc.rel = r /\ cp[r].pending.kind = "recovery-point" /\ Pending(r)
      /\ cp[r].pending.delivered /\ cp[r] \in Checkpoints /\ cp[r].after \in Selectors /\ cp[r].accepted \in Apps
      /\ Place(cp[r]) /\ cp[r].pending.result \in dumps /\ PendingOK(cp[r], r)
      /\ cp[r].pending.result \in Results
  BY Known DEF ResumeBackup, Resuming, At, Pending, Checkpoints, Pendings
<1>2. native = NoNative
  BY <1>1, NoNativeLeft DEF Knows, At, Before
<1>3. Save(r, c) /\ c = Recording(cp[r], e, cp[r].stage, cp[r].after, cp[r].accepted)
  BY <1>1 DEF ResumeBackup, Committing, Recording, Checkpoints
<1>4. e.kind = "recovery-point" /\ e.result = cp[r].pending.result /\ e \in Committed
  BY <1>1 DEF Committed, Kinds
<1> HIDE DEF e, c
<1>5. cp[r].stage = "preflight" /\ Len(cp[r].effects) = 0 /\ \E op \in dumps : op.rel = r
  BY <1>1 DEF Place, PendingOK
<1>6. EffectFits(r, e, cp[r].stage, cp[r].after)
  BY <1>1, <1>4, <1>5 DEF EffectFits
<1>7. /\ CheckpointOK(c, r, performed[r], dumps) /\ c.stage = "preflight" /\ c.pending.kind = "none"
      /\ Len(c.effects) = 1
  BY <1>1, <1>3, <1>4, <1>5, <1>6, EffectRecorded
<1>8. Held(r)
  <2>1. Working(cp[r])
    BY <1>1, <1>5 DEF Working
  <2> QED
    BY <2>1 DEF IInv, MarkOK
<1>9. FilesOK' /\ HostOK' /\ MarkOK' /\ NativeOK' /\ cp'[r] = c
  <2>1. UNCHANGED <<host, marker, receipt, handoff, superseded, performed>>
    BY DEF ResumeBackup
  <2>2. ~(Len(c.effects) >= 2)
    BY <1>7
  <2> QED
    BY <1>2, <1>3, <1>7, <1>8, <2>1, <2>2, SaveKeeps
<1>10. /\ proc' \in [rel : Releases \cup {NoRelease}, cmd : Commands, pc : Places, step : 0 .. 2]
       /\ proc'.rel = r /\ proc'.pc = "advance" /\ proc'.cmd = proc.cmd /\ proc'.step = proc.step
  BY <1>1, Went DEF ResumeBackup, Places
<1>11. marker' = marker /\ handoff' = handoff
  BY DEF ResumeBackup
<1>12. Knows(r)'
  BY <1>1, <1>7, <1>8, <1>9, <1>10, <1>11 DEF Knows, Before, At, Pending, Held
<1> QED
  BY <1>9, <1>10, <1>12, Moved DEF IInv

LEMMA ResumeAdvanceKeeps ==
  ASSUME IInv, NEW r \in Releases, ResumeAdvance(r)
  PROVE  IInv'
<1> DEFINE behind == cp[r].stage \in DOMAIN Effect /\ cp[r].stage # NextStage(r)
           c == IF behind THEN Advanced(r) ELSE cp[r]
<1>1. /\ At(r, "begin") /\ Knows(r) /\ proc.rel = r /\ ~Pending(r) /\ cp[r].pending.kind = "none"
      /\ cp[r] \in Checkpoints /\ Place(cp[r]) /\ cp[r] # NoCp /\ proc.cmd = "resume"
      /\ CheckpointOK(cp[r], r, performed[r], dumps)
  BY Known DEF ResumeAdvance, Resuming, At, Pending, IInv, FilesOK
<1>2. Save(r, c)
  BY DEF ResumeAdvance
<1>3. /\ CheckpointOK(c, r, performed[r], dumps) /\ c.pending.kind = "none" /\ c.effects = cp[r].effects
      /\ c.stage = "preflight" => Len(c.effects) = 0
      /\ c.stage = "persist" => Len(c.effects) = 1
      /\ c.stage = "replace" => Len(c.effects) = 2
      /\ c.stage # "none"
  <2> DEFINE n == Len(cp[r].effects)
  <2>1. cp[r].stage # "none"
    BY <1>1 DEF Place
  <2>2. /\ NextStage(r) = Stages[n + 1] /\ n \in 0 .. 3
        /\ cp[r].stage = "preflight" => n \in {0, 1}
        /\ cp[r].stage = "persist" => n \in {1, 2}
        /\ cp[r].stage = "replace" => n \in {2, 3}
    BY <1>1, Known DEF Place, NextStage
  <2>3. CASE behind
    <3>1. c = Advanced(r) /\ cp[r].stage \in {"preflight", "persist", "replace"} /\ cp[r].stage # NextStage(r)
      BY <2>3, EffectFacts
    <3>2. \/ cp[r].stage = "preflight" /\ n = 1
          \/ cp[r].stage = "persist" /\ n = 2
          \/ cp[r].stage = "replace" /\ n = 3
      <4> HIDE DEF n, c
      <4> QED
        BY <2>2, <3>1, StageFacts
    <3> HIDE DEF c
    <3>3. /\ CheckpointOK(c, r, performed[r], dumps) /\ c.pending.kind = "none" /\ c.effects = cp[r].effects
          /\ \/ Len(cp[r].effects) = 1 /\ c.stage = "persist"
             \/ Len(cp[r].effects) = 2 /\ c.stage = "replace"
             \/ Len(cp[r].effects) = 3 /\ c.stage = "verify"
      BY <1>1, <3>1, <3>2, AdvanceFits
    <3> QED
      BY <3>3
  <2>4. CASE ~behind
    <3>1. c = cp[r] /\ (cp[r].stage \in {"preflight", "persist", "replace"} => cp[r].stage = NextStage(r))
      BY <2>4, EffectFacts
    <3>2. /\ cp[r].stage = "preflight" => n = 0
          /\ cp[r].stage = "persist" => n = 1
          /\ cp[r].stage = "replace" => n = 2
      <4> HIDE DEF n, c
      <4> QED
        BY <2>2, <3>1, StageFacts
    <3> QED
      BY <1>1, <2>1, <3>1, <3>2
  <2> QED
    BY <2>3, <2>4
<1> HIDE DEF c
<1>4. native = NoNative
  BY <1>1, NoNativeLeft DEF Knows, At, Before
<1>5. FilesOK' /\ HostOK' /\ MarkOK' /\ NativeOK' /\ cp'[r] = c
  <2>1. UNCHANGED <<host, marker, receipt, handoff, superseded, performed>>
    BY DEF ResumeAdvance
  <2>2. Working(c) => Held(r)
    <3>1. Working(c) => Working(cp[r])
      BY <1>1, <1>3 DEF Working
    <3> QED
      BY <3>1 DEF IInv, MarkOK
  <2>3. selector.version.rel = r /\ Len(c.effects) >= 2 => runtime = Wanted[r]
    BY <1>3 DEF IInv, HostOK
  <2> QED
    BY <1>2, <1>3, <1>4, <2>1, <2>2, <2>3, SaveKeeps
<1>6. /\ proc' \in [rel : Releases \cup {NoRelease}, cmd : Commands, pc : Places, step : 0 .. 2]
      /\ proc'.rel = r /\ proc'.pc = "stage" /\ proc'.cmd = proc.cmd /\ proc'.step = proc.step
  BY <1>1, Went DEF ResumeAdvance, Places
<1>7. marker' = marker /\ handoff' = handoff
  BY DEF ResumeAdvance
<1>8. Knows(r)'
  BY <1>1, <1>3, <1>5, <1>6, <1>7 DEF Knows, Before, At, Pending
<1> QED
  BY <1>5, <1>6, <1>8, Moved DEF IInv

LEMMA FirstCheckpointKeeps ==
  ASSUME IInv, NEW r \in Releases, FirstCheckpoint(r)
  PROVE  IInv'
<1> DEFINE initial == IF proc.cmd = "recover" THEN handoff[r][1].observed ELSE app
           c == [NoCp EXCEPT !.stage = "preflight", !.before = selector, !.initial = initial]
<1>1. /\ At(r, "begin") /\ Knows(r) /\ proc.rel = r /\ cp[r] = NoCp /\ CountsOK(NoCp, performed[r])
      /\ proc.cmd \in {"release", "recover"}
  BY Known DEF FirstCheckpoint, At
<1>2. NoCp.pending.kind = "none" /\ Len(NoCp.effects) = 0
  BY NoCpFacts, NoPendingFacts
<1>3. initial \in Apps /\ selector \in Selectors
  BY <1>1 DEF IInv, FilesOK, HostOK, Knows, At
<1>4. selector.version.rel # r
  <2>1. performed[r]["persist"] # 1
    BY <1>1, <1>2 DEF CountsOK, InDoubt
  <2> QED
    BY <2>1 DEF IInv, HostOK
<1>5. Save(r, c)
  BY DEF FirstCheckpoint
<1>6. /\ c.stage = "preflight" /\ c.effects = <<>> /\ c.pending = NoPending /\ c.before = selector
      /\ c \in Checkpoints
  BY <1>3, NoCpFacts DEF Checkpoints, StageNames
<1> HIDE DEF c, initial
<1>7. c.pending.kind = "none" /\ Len(c.effects) = 0 /\ ~c.pending.delivered
  BY <1>6, NoPendingFacts
<1>8. CheckpointOK(c, r, performed[r], dumps)
  <2>1. Place(c) /\ EffectsOK(c, r) /\ PendingOK(c, r)
    BY <1>4, <1>6, <1>7 DEF Place, EffectsOK, PendingOK
  <2>2. CountsOK(c, performed[r])
    BY <1>1, <1>2 DEF CountsOK, InDoubt
  <2> QED
    BY <1>6, <1>7, <2>1, <2>2 DEF CheckpointOK
<1>9. native = NoNative
  BY <1>1, <1>2, NoNativeLeft DEF Knows, At, Before
<1>10. FilesOK' /\ HostOK' /\ MarkOK' /\ NativeOK' /\ cp'[r] = c
  <2>1. UNCHANGED <<host, marker, receipt, handoff, superseded, performed>>
    BY DEF FirstCheckpoint
  <2>2. ~Working(c)
    BY <1>7 DEF Working
  <2> QED
    BY <1>4, <1>5, <1>7, <1>8, <1>9, <2>1, <2>2, SaveKeeps
<1>11. /\ proc' \in [rel : Releases \cup {NoRelease}, cmd : Commands, pc : Places, step : 0 .. 2]
       /\ proc'.rel = r /\ proc'.pc = "stage" /\ proc'.cmd = proc.cmd /\ proc'.step = proc.step
  BY <1>1, Went DEF FirstCheckpoint, Places
<1>12. marker' = marker /\ handoff' = handoff
  BY DEF FirstCheckpoint
<1>13. Knows(r)'
  BY <1>1, <1>6, <1>7, <1>10, <1>11, <1>12 DEF Knows, Before, At, Pending
<1> QED
  BY <1>10, <1>11, <1>13, Moved DEF IInv

LEMMA PreflightKeeps ==
  ASSUME IInv, NEW r \in Releases, Preflight(r)
  PROVE  IInv'
<1>1. At(r, "begin") /\ Knows(r) /\ proc.rel = r /\ proc.cmd = "preflight"
  BY Known DEF Preflight, At
<1>2. FilesOK' /\ HostOK' /\ MarkOK' /\ NativeOK'
  <2>1. UNCHANGED <<host, marker, files, performed>>
    BY DEF Preflight
  <2> QED
    BY <2>1, QuietKeeps
<1>3. /\ proc' \in [rel : Releases \cup {NoRelease}, cmd : Commands, pc : Places, step : 0 .. 2]
      /\ proc'.rel = r /\ proc'.pc = "return" /\ proc'.cmd = proc.cmd /\ proc'.step = proc.step
  BY <1>1, Went DEF Preflight, Places
<1>4. marker' = marker
  BY DEF Preflight
<1>5. Knows(r)'
  BY <1>1, <1>3, <1>4 DEF Knows, Before, At
<1> QED
  BY <1>2, <1>3, <1>5, Moved DEF IInv

-----------------------------------------------------------------------------
(* A recovery takes the target over.                                        *)

LEMMA WriteHandoffKeeps ==
  ASSUME IInv, NEW r \in Releases, WriteHandoff(r)
  PROVE  IInv'
<1> DEFINE f == FailedOf[r]
           record == [failed |-> cp[f], observed |-> app, selector |-> selector]
<1>1. /\ At(r, "handoff") /\ Knows(r) /\ proc.rel = r /\ f \in Releases /\ HandoffAllowed(r, f)
      /\ proc.cmd = "recover"
  BY Known DEF WriteHandoff, At, Knows, Before
<1>2. /\ handoff' = [handoff EXCEPT ![r] = <<record>>]
      /\ app' = app /\ selector' = selector /\ runtime' = runtime /\ dumps' = dumps /\ native' = native
      /\ marker' = marker /\ receipt' = receipt /\ superseded' = superseded
      /\ performed' = performed /\ cp' = cp
  BY DEF WriteHandoff, host
<1>3. /\ DOMAIN handoff' = Releases /\ handoff'[r] = <<record>>
      /\ \A y \in Releases : y # r => handoff'[y] = handoff[y]
  BY <1>2 DEF IInv, FilesOK
<1>4. handoff'[r] # <<>> /\ handoff'[r][1].observed = app /\ handoff'[r][1].selector = selector
  BY <1>3
<1>5. FilesOK'
  <2>1. \A y \in Releases : handoff'[y] # <<>> =>
           handoff'[y][1].observed \in Apps /\ handoff'[y][1].selector \in Selectors
    <3> TAKE y \in Releases
    <3>1. CASE y = r
      BY <1>4, <3>1 DEF IInv, HostOK
    <3>2. CASE y # r
      BY <1>3, <3>2 DEF IInv, FilesOK
    <3> QED
      BY <3>1, <3>2
  <2> QED
    BY <1>2, <1>3, <2>1 DEF IInv, FilesOK
<1>6. HostOK' /\ MarkOK' /\ NativeOK'
  BY <1>2 DEF IInv, HostOK, ReplacedWithWanted, MarkOK, Held, Pending, NativeOK, NativeOf, Submitted
<1>7. /\ proc' \in [rel : Releases \cup {NoRelease}, cmd : Commands, pc : Places, step : 0 .. 2]
      /\ proc'.rel = r /\ proc'.pc = "supersede" /\ proc'.cmd = proc.cmd /\ proc'.step = proc.step
  BY <1>1, Went DEF WriteHandoff, Places
<1>8. ~Working(cp[f])
  <2>1. CASE Pending(f)
    BY <1>1, <2>1 DEF HandoffAllowed, Settled, Working
  <2>2. CASE ~Pending(f)
    <3>1. Records(f) = cp[f].effects \o <<>> /\ cp[f].effects \in Seq(Committed)
      BY <1>1, <2>2, Known DEF Records, Checkpoints
    <3>2. Len(cp[f].effects) = 3
      BY <1>1, <3>1 DEF HandoffAllowed
    <3> QED
      BY <3>2 DEF Working
  <2> QED
    BY <2>1, <2>2
<1>9. marker.owner \in {NoRelease, f, r}
  BY <1>1 DEF HandoffAllowed, NoMarker
<1>10. native.rel \in {NoRelease, r}
  <2>1. CASE native = NoNative
    BY <2>1 DEF NoNative
  <2>2. CASE native # NoNative
    <3>1. native.rel \in Releases /\ NativeOf(native.rel)
      BY <2>2 DEF IInv, NativeOK
    <3>2. marker.owner = native.rel
      BY <3>1 DEF NativeOf, Held
    <3>3. native.rel # f
      <4>1. ASSUME native.rel = f PROVE FALSE
        <5>1. Pending(f)
          BY <3>1, <4>1 DEF NativeOf, Pending
        <5> QED
          BY <1>1, <4>1, <5>1 DEF HandoffAllowed, Settled
      <4> QED
        BY <4>1
    <3> QED
      BY <1>9, <3>1, <3>2, <3>3, ReleaseAssumption
  <2> QED
    BY <2>1, <2>2
<1>11. Handed(r)'
  BY <1>1, <1>2, <1>8, <1>9, <1>10 DEF Handed
<1>12. Knows(r)'
  BY <1>1, <1>4, <1>7, <1>11 DEF Knows, Before, At
<1> QED
  BY <1>5, <1>6, <1>7, <1>12, Moved DEF IInv

LEMMA SupersedeKeeps ==
  ASSUME IInv, NEW r \in Releases, Supersede(r)
  PROVE  IInv'
<1> DEFINE f == FailedOf[r]
<1>1. At(r, "supersede") /\ Knows(r) /\ proc.rel = r /\ Handed(r) /\ f \in Releases
  BY Known DEF Supersede, At, Knows, Handed
<1>2. /\ superseded' = [superseded EXCEPT ![f] = r]
      /\ app' = app /\ selector' = selector /\ runtime' = runtime /\ dumps' = dumps /\ native' = native
      /\ marker' = marker /\ receipt' = receipt /\ handoff' = handoff
      /\ performed' = performed /\ cp' = cp
  BY DEF Supersede, host
<1>3. /\ superseded' \in [Releases -> Releases \cup {NoRelease}] /\ superseded'[f] = r
      /\ \A y \in Releases : superseded'[y] = NoRelease => superseded[y] = NoRelease
  BY <1>1, <1>2, ReleaseAssumption DEF IInv, FilesOK
<1>4. FilesOK'
  BY <1>2, <1>3 DEF IInv, FilesOK
<1>5. HostOK' /\ NativeOK'
  BY <1>2 DEF IInv, HostOK, ReplacedWithWanted, Held, Pending, NativeOK, NativeOf, Submitted
<1>6. MarkOK'
  BY <1>2, <1>3 DEF IInv, MarkOK, Held, Pending
<1>7. /\ proc' \in [rel : Releases \cup {NoRelease}, cmd : Commands, pc : Places, step : 0 .. 2]
      /\ proc'.rel = r /\ proc'.pc = "transfer" /\ proc'.cmd = proc.cmd /\ proc'.step = proc.step
  BY <1>1, Went DEF Supersede, Places
<1>8. Handed(r)'
  BY <1>1, <1>2 DEF Handed
<1>9. Knows(r)'
  BY <1>1, <1>2, <1>3, <1>7, <1>8 DEF Knows, Before, At
<1> QED
  BY <1>4, <1>5, <1>6, <1>7, <1>9, Moved DEF IInv

LEMMA TransferKeeps ==
  ASSUME IInv, NEW r \in Releases, Transfer(r)
  PROVE  IInv'
<1> DEFINE f == FailedOf[r]
<1>1. /\ At(r, "transfer") /\ Knows(r) /\ proc.rel = r /\ Handed(r) /\ f \in Releases /\ superseded[f] = r
      /\ proc.cmd = "recover" /\ handoff[r] # <<>>
  BY Known DEF Transfer, At, Knows, Handed, Before
<1>2. /\ marker' = [owner |-> r, readOnly |-> FALSE] /\ superseded' = superseded /\ native' = native /\ cp' = cp
      /\ performed' = performed /\ selector' = selector /\ handoff' = handoff
  BY DEF Transfer, host, files
<1>3. FilesOK' /\ HostOK'
  BY MarkerMoves DEF Transfer
<1>4. ASSUME NEW y \in Releases, Held(y) PROVE y = f \/ y = r
  BY <1>1, <1>4, ReleaseAssumption DEF Handed, Held
<1>5. MarkOK'
  <2>1. \A y \in Releases : Working(cp[y]) => y = r
    BY <1>1, <1>4 DEF IInv, MarkOK, Handed
  <2>2. \A y \in Releases : Pending(y) /\ superseded[y] = NoRelease => y = r
    BY <1>1, <1>4, ReleaseAssumption DEF IInv, MarkOK
  <2> QED
    BY <1>2, <2>1, <2>2 DEF MarkOK, Held, Pending
<1>6. NativeOK'
  <2>1. \A y \in Releases : native.rel = y => y = r
    BY <1>1, ReleaseAssumption DEF Handed
  <2> QED
    BY <1>2, <2>1 DEF IInv, NativeOK, NativeOf, Held, Submitted
<1>7. /\ proc' \in [rel : Releases \cup {NoRelease}, cmd : Commands, pc : Places, step : 0 .. 2]
      /\ proc'.rel = r /\ proc'.pc = "begin" /\ proc'.cmd = proc.cmd /\ proc'.step = proc.step
  BY <1>1, Went DEF Transfer, Places
<1>8. Knows(r)'
  BY <1>1, <1>2, <1>7 DEF Knows, Before, At
<1> QED
  BY <1>3, <1>5, <1>6, <1>7, <1>8, Moved DEF IInv

-----------------------------------------------------------------------------
(* The lock and its marker.                                                 *)

\* Nobody holds the target by a marker of the kind m: nothing is at work.
LEMMA NobodyHolds ==
  ASSUME IInv, \A y \in Releases : ~Held(y)
  PROVE  /\ native = NoNative
         /\ \A y \in Releases : ~Working(cp[y]) /\ ~(Pending(y) /\ superseded[y] = NoRelease)
<1>1. native = NoNative
  BY DEF IInv, NativeOK, NativeOf
<1> QED
  BY <1>1 DEF IInv, MarkOK

\* A new marker, by which whoever held the target holds it.
LEMMA MarkerKeeps ==
  ASSUME IInv, UNCHANGED <<host, files, performed>>,
         marker' \in [owner : Releases \cup {NoRelease}, readOnly : BOOLEAN],
         \A y \in Releases : Held(y) => Held(y)' \/ /\ ~Working(cp[y]) /\ ~NativeOf(y)
                                                     /\ ~(Pending(y) /\ superseded[y] = NoRelease)
  PROVE  FilesOK' /\ HostOK' /\ MarkOK' /\ NativeOK'
<1>1. /\ selector' = selector /\ native' = native /\ superseded' = superseded
      /\ performed' = performed /\ cp' = cp
  BY DEF host, files
<1>2. FilesOK' /\ HostOK'
  BY MarkerMoves
<1>3. MarkOK'
  <2>1. \A y \in Releases : Working(cp[y]) => Held(y)'
    BY DEF IInv, MarkOK
  <2>2. \A y \in Releases : Pending(y) /\ superseded[y] = NoRelease => Held(y)'
    BY DEF IInv, MarkOK
  <2> QED
    BY <1>1, <2>1, <2>2 DEF MarkOK, Pending
<1>4. NativeOK'
  <2>1. \A y \in Releases : native.rel = y => NativeOf(y) /\ Held(y)'
    BY DEF IInv, NativeOK, NativeOf
  <2> QED
    BY <1>1, <2>1 DEF IInv, NativeOK, NativeOf, Submitted
<1> QED
  BY <1>2, <1>3, <1>4

LEMMA LockKeeps ==
  ASSUME IInv, NEW r \in Releases, NEW cmd \in {"preflight", "release", "resume", "recover"}, Lock(r, cmd)
  PROVE  IInv'
<1>1. UNCHANGED <<host, files, performed>> /\ Admits(r, cmd)
  BY DEF Lock
<1>2. CASE cmd = "recover"
  <2>1. /\ marker' = marker /\ FailedOf[r] # NoRelease
        /\ proc' = [rel |-> r, cmd |-> cmd, pc |-> "handoff", step |-> 1]
    BY <1>2 DEF Lock
  <2>2. FilesOK' /\ HostOK' /\ MarkOK' /\ NativeOK'
    BY <1>1, <2>1, QuietKeeps
  <2>3. /\ proc' \in [rel : Releases \cup {NoRelease}, cmd : Commands, pc : Places, step : 0 .. 2]
        /\ proc'.rel = r /\ proc'.pc = "handoff" /\ proc'.cmd = "recover" /\ proc'.step = 1
    BY <1>2, <2>1 DEF Commands, Places
  <2>4. FailedOf[r] \in Releases
    BY <2>1, ReleaseAssumption
  <2>5. Knows(r)'
    BY <2>3, <2>4 DEF Knows, Before
  <2> QED
    BY <2>2, <2>3, <2>5, Moved DEF IInv
<1>3. CASE cmd # "recover"
  <2>1. /\ marker' = [owner |-> r, readOnly |-> cmd \in {"release", "preflight"}]
        /\ proc' = [rel |-> r, cmd |-> cmd, pc |-> "begin", step |-> 1]
    BY <1>3 DEF Lock
  <2>2. marker' \in [owner : Releases \cup {NoRelease}, readOnly : BOOLEAN] /\ marker'.owner = r
    BY <2>1
  <2>3. \A y \in Releases : Held(y) => Held(y)'
    <3>1. CASE cmd = "resume"
      <4>1. marker'.owner = r /\ ~marker'.readOnly
        BY <2>1, <3>1
      <4>2. \A y \in Releases : Held(y) => y = r
        BY <1>1, <3>1, ReleaseAssumption DEF Admits, Held, NoMarker
      <4>3. marker' = [owner |-> r, readOnly |-> FALSE]
        BY <2>2, <4>1
      <4> QED
        BY <4>2, <4>3 DEF Held
    <3>2. CASE cmd # "resume"
      <4>1. marker.readOnly
        BY <1>1, <1>3, <3>2 DEF Admits, NoMarker
      <4> QED
        BY <4>1 DEF Held
    <3> QED
      BY <3>1, <3>2
  <2>4. FilesOK' /\ HostOK' /\ MarkOK' /\ NativeOK'
    BY <1>1, <2>2, <2>3, MarkerKeeps
  <2>5. /\ proc' \in [rel : Releases \cup {NoRelease}, cmd : Commands, pc : Places, step : 0 .. 2]
        /\ proc'.rel = r /\ proc'.pc = "begin" /\ proc'.cmd = cmd /\ proc'.step = 1
    BY <1>3, <2>1 DEF Commands, Places
  <2>6. cmd = "preflight" => marker'.readOnly
    BY <2>1
  <2>7. Knows(r)'
    BY <1>3, <2>2, <2>5, <2>6 DEF Knows, Before
  <2> QED
    BY <2>4, <2>5, <2>7, Moved DEF IInv
<1> QED
  BY <1>2, <1>3

LEMMA FailKeeps ==
  ASSUME IInv, Fail
  PROVE  IInv'
<1>1. ProcOK' /\ UNCHANGED <<host, files, performed>>
  BY Gone DEF Fail
<1>2. CASE marker.readOnly
  <2>1. \A y \in Releases : ~Held(y)
    BY <1>2 DEF Held
  <2>2. marker' \in [owner : Releases \cup {NoRelease}, readOnly : BOOLEAN]
    BY DEF Fail, NoMarker, IInv, MarkOK
  <2> QED
    BY <1>1, <2>1, <2>2, MarkerKeeps DEF IInv
<1>3. CASE ~marker.readOnly
  <2>1. marker' = marker
    BY <1>3 DEF Fail
  <2> QED
    BY <1>1, <2>1, QuietKeeps DEF IInv
<1> QED
  BY <1>2, <1>3

LEMMA CrashKeeps ==
  ASSUME IInv, Crash
  PROVE  IInv'
<1>1. ProcOK' /\ UNCHANGED <<host, marker, files, performed>>
  BY Gone DEF Crash
<1> QED
  BY <1>1, QuietKeeps DEF IInv

LEMMA ReturnKeeps ==
  ASSUME IInv, NEW r \in Releases, Return(r)
  PROVE  IInv'
<1>1. /\ At(r, "return") /\ Knows(r) /\ proc.rel = r /\ marker.owner = r
      /\ marker.readOnly \/ (Len(cp[r].effects) = 3 /\ ~Pending(r))
  BY Known DEF Return, At, Knows, Before
<1>2. ProcOK' /\ UNCHANGED <<host, files, performed>> /\ marker' = NoMarker
  BY Gone DEF Return
<1>3. ASSUME NEW y \in Releases, Held(y)
      PROVE  ~Working(cp[y]) /\ ~NativeOf(y) /\ ~(Pending(y) /\ superseded[y] = NoRelease)
  <2>1. y = r /\ Len(cp[r].effects) = 3 /\ ~Pending(r)
    BY <1>1, <1>3 DEF Held
  <2>2. ~Working(cp[r])
    BY <2>1 DEF Working
  <2> QED
    BY <2>1, <2>2 DEF NativeOf, Pending
<1>4. marker' \in [owner : Releases \cup {NoRelease}, readOnly : BOOLEAN]
  BY <1>2 DEF NoMarker
<1> QED
  BY <1>2, <1>3, <1>4, MarkerKeeps DEF IInv

-----------------------------------------------------------------------------
(* Acceptance.                                                              *)

LEMMA VerifyStartKeeps ==
  ASSUME IInv, NEW r \in Releases, VerifyStart(r)
  PROVE  IInv'
<1>1. /\ At(r, "stage") /\ Knows(r) /\ proc.rel = r /\ ~Pending(r) /\ cp[r].stage = "verify" /\ Place(cp[r])
  BY Known DEF VerifyStart, At, Knows
<1>2. FilesOK' /\ HostOK' /\ MarkOK' /\ NativeOK'
  <2>1. UNCHANGED <<host, marker, files, performed>>
    BY DEF VerifyStart
  <2> QED
    BY <2>1, QuietKeeps
<1>3. /\ proc' \in [rel : Releases \cup {NoRelease}, cmd : Commands, pc : Places, step : 0 .. 2]
      /\ proc'.rel = r /\ proc'.pc = "verify" /\ proc'.cmd = proc.cmd /\ proc'.step = proc.step
  BY <1>1, Went DEF VerifyStart, Places
<1>4. marker' = marker /\ cp' = cp /\ handoff' = handoff
  BY DEF VerifyStart, files
<1>5. Knows(r)'
  BY <1>1, <1>3, <1>4 DEF Knows, Before, At, Pending, Place
<1> QED
  BY <1>2, <1>3, <1>5, Moved DEF IInv

LEMMA RecoveryReadyKeeps ==
  ASSUME IInv, NEW r \in Releases, RecoveryReady(r)
  PROVE  IInv'
<1>1. /\ At(r, "stage") /\ Knows(r) /\ proc.rel = r /\ ~Pending(r) /\ cp[r].stage = "recovery-ready"
      /\ Place(cp[r])
  BY Known DEF RecoveryReady, At, Knows
<1>2. FilesOK' /\ HostOK' /\ MarkOK' /\ NativeOK'
  <2>1. UNCHANGED <<host, marker, files, performed>>
    BY DEF RecoveryReady
  <2> QED
    BY <2>1, QuietKeeps
<1>3. /\ proc' \in [rel : Releases \cup {NoRelease}, cmd : Commands, pc : Places, step : 0 .. 2]
      /\ proc'.rel = r /\ proc'.pc = "return" /\ proc'.cmd = proc.cmd /\ proc'.step = proc.step
  BY <1>1, Went DEF RecoveryReady, Places
<1>4. marker' = marker /\ cp' = cp /\ handoff' = handoff
  BY DEF RecoveryReady, files
<1>5. Knows(r)'
  BY <1>1, <1>3, <1>4 DEF Knows, Before, At, Pending, Place
<1> QED
  BY <1>2, <1>3, <1>5, Moved DEF IInv

LEMMA WriteReceiptKeeps ==
  ASSUME IInv, NEW r \in Releases, WriteReceipt(r)
  PROVE  IInv'
<1>1. /\ At(r, "receipt") /\ Knows(r) /\ proc.rel = r
  BY Known DEF WriteReceipt, At
<1>2. /\ app' = app /\ selector' = selector /\ runtime' = runtime /\ dumps' = dumps /\ native' = native
      /\ marker' = marker /\ superseded' = superseded /\ cp' = cp /\ handoff' = handoff
      /\ performed' = performed /\ receipt' = receipt \cup {r}
  BY DEF WriteReceipt, host
<1>3. FilesOK'
  BY <1>2 DEF IInv, FilesOK
<1>4. HostOK' /\ MarkOK' /\ NativeOK'
  BY <1>2 DEF IInv, HostOK, ReplacedWithWanted, MarkOK, Held, Pending, NativeOK, NativeOf, Submitted
<1>5. /\ proc' \in [rel : Releases \cup {NoRelease}, cmd : Commands, pc : Places, step : 0 .. 2]
      /\ proc'.rel = r /\ proc'.pc = "receipted" /\ proc'.cmd = proc.cmd /\ proc'.step = proc.step
  BY <1>1, Went DEF WriteReceipt, Places
<1>6. Knows(r)'
  BY <1>1, <1>2, <1>5 DEF Knows, Before, At, Pending
<1> QED
  BY <1>3, <1>4, <1>5, <1>6, Moved DEF IInv

\* A new stage of a checkpoint with all its effects.
Renamed(c, stage) == [c EXCEPT !.stage = stage]
LEMMA LateStage ==
  ASSUME IInv, NEW r \in Releases, ~Pending(r), Len(cp[r].effects) = 3, marker.owner = r,
         NEW stage \in {"receipt-ready", "complete"}, Save(r, Renamed(cp[r], stage)),
         UNCHANGED <<host, marker, receipt, handoff, superseded, performed>>
  PROVE  /\ FilesOK' /\ HostOK' /\ MarkOK' /\ NativeOK'
         /\ cp'[r].stage = stage /\ cp'[r].effects = cp[r].effects /\ cp'[r].pending.kind = "none"
<1> DEFINE c == Renamed(cp[r], stage)
<1>1. /\ cp[r] \in Checkpoints /\ EffectsOK(cp[r], r) /\ PendingOK(cp[r], r) /\ CountsOK(cp[r], performed[r])
      /\ (Len(cp[r].effects) >= 1 => \E op \in dumps : op.rel = r) /\ cp[r].pending.kind = "none"
  BY Known DEF Pending
<1>2. /\ c.stage = stage /\ c.effects = cp[r].effects /\ c.pending = cp[r].pending /\ c.before = cp[r].before
      /\ c.after = cp[r].after /\ c \in Checkpoints
  BY <1>1 DEF Checkpoints, Renamed, StageNames
<1>3. Save(r, c)
  OBVIOUS
<1> HIDE DEF c
<1>4. CheckpointOK(c, r, performed[r], dumps)
  <2>1. Place(c)
    BY <1>1, <1>2 DEF Place
  <2>2. EffectsOK(c, r) /\ PendingOK(c, r) /\ CountsOK(c, performed[r])
    BY <1>1, <1>2 DEF EffectsOK, PendingOK, CountsOK, InDoubt
  <2> QED
    BY <1>1, <1>2, <2>1, <2>2 DEF CheckpointOK
<1>5. native = NoNative
  BY <1>1, NoNativeLeft
<1>6. ~Working(c) /\ c.pending.kind = "none"
  <2> DEFINE n == Len(c.effects)
  <2>1. n = 3 /\ c.pending.kind = "none"
    BY <1>1, <1>2
  <2> HIDE DEF n
  <2>2. ~(n < 3)
    BY <2>1
  <2> QED
    BY <2>1, <2>2 DEF Working, n
<1>7. selector.version.rel = r /\ Len(c.effects) >= 2 => runtime = Wanted[r]
  BY <1>2 DEF IInv, HostOK
<1>8. FilesOK' /\ HostOK' /\ MarkOK' /\ NativeOK' /\ cp'[r] = c
  BY <1>3, <1>4, <1>5, <1>6, <1>7, SaveKeeps
<1> QED
  BY <1>2, <1>6, <1>8

LEMMA VerifyEndKeeps ==
  ASSUME IInv, NEW r \in Releases, VerifyEnd(r)
  PROVE  IInv'
<1>1. /\ At(r, "verify") /\ Knows(r) /\ proc.rel = r /\ ~Pending(r) /\ Len(cp[r].effects) = 3
      /\ marker.owner = r
  BY Known DEF VerifyEnd, At, Knows, Before
<1>2. /\ FilesOK' /\ HostOK' /\ MarkOK' /\ NativeOK'
      /\ cp'[r].stage = "receipt-ready" /\ cp'[r].effects = cp[r].effects /\ cp'[r].pending.kind = "none"
  <2>1. Save(r, Renamed(cp[r], "receipt-ready")) /\ "receipt-ready" \in {"receipt-ready", "complete"}
    BY DEF VerifyEnd, Renamed
  <2>2. UNCHANGED <<host, marker, receipt, handoff, superseded, performed>>
    BY DEF VerifyEnd
  <2> QED
    BY <1>1, <2>1, <2>2, LateStage
<1>3. /\ proc' \in [rel : Releases \cup {NoRelease}, cmd : Commands, pc : Places, step : 0 .. 2]
      /\ proc'.rel = r /\ proc'.pc = "receipt" /\ proc'.cmd = proc.cmd /\ proc'.step = proc.step
  BY <1>1, Went DEF VerifyEnd, Places
<1>4. marker' = marker /\ handoff' = handoff
  BY DEF VerifyEnd
<1>5. Knows(r)'
  BY <1>1, <1>2, <1>3, <1>4 DEF Knows, Before, At, Pending
<1> QED
  BY <1>2, <1>3, <1>5, Moved DEF IInv

LEMMA CompleteKeeps ==
  ASSUME IInv, NEW r \in Releases, Complete(r)
  PROVE  IInv'
<1>1. /\ At(r, "receipted") /\ Knows(r) /\ proc.rel = r /\ ~Pending(r) /\ Len(cp[r].effects) = 3
      /\ marker.owner = r
  BY Known DEF Complete, At, Knows, Before
<1>2. /\ FilesOK' /\ HostOK' /\ MarkOK' /\ NativeOK'
      /\ cp'[r].stage = "complete" /\ cp'[r].effects = cp[r].effects /\ cp'[r].pending.kind = "none"
  <2>1. Save(r, Renamed(cp[r], "complete")) /\ "complete" \in {"receipt-ready", "complete"}
    BY DEF Complete, Renamed
  <2>2. UNCHANGED <<host, marker, receipt, handoff, superseded, performed>>
    BY DEF Complete
  <2> QED
    BY <1>1, <2>1, <2>2, LateStage
<1>3. /\ proc' \in [rel : Releases \cup {NoRelease}, cmd : Commands, pc : Places, step : 0 .. 2]
      /\ proc'.rel = r /\ proc'.pc = "stage" /\ proc'.cmd = proc.cmd /\ proc'.step = proc.step
  BY <1>1, Went DEF Complete, Places
<1>4. marker' = marker /\ handoff' = handoff
  BY DEF Complete
<1>5. Knows(r)'
  BY <1>1, <1>2, <1>3, <1>4 DEF Knows, Before, At, Pending
<1> QED
  BY <1>2, <1>3, <1>5, Moved DEF IInv

LEMMA FinishKeeps ==
  ASSUME IInv, NEW r \in Releases, Finish(r)
  PROVE  IInv'
<1>1. /\ At(r, "stage") /\ Knows(r) /\ proc.rel = r /\ ~Pending(r) /\ Len(cp[r].effects) = 3
      /\ marker.owner = r /\ r \in receipt /\ EffectsOK(cp[r], r)
      /\ app.image = Wanted[r] /\ selector = cp[r].effects[2].result
  BY Known DEF Finish, At, Knows, Before, ReceiptFacts, Unchanged, Observe
<1>2. Mine(selector, r)
  BY <1>1 DEF EffectsOK
<1>3. /\ FilesOK' /\ HostOK' /\ MarkOK' /\ NativeOK'
      /\ cp'[r].stage = "complete" /\ cp'[r].effects = cp[r].effects /\ cp'[r].pending.kind = "none"
  <2>1. Save(r, Renamed(cp[r], "complete")) /\ "complete" \in {"receipt-ready", "complete"}
    BY DEF Finish, Renamed
  <2>2. UNCHANGED <<host, marker, receipt, handoff, superseded, performed>>
    BY DEF Finish
  <2> QED
    BY <1>1, <2>1, <2>2, LateStage
<1>4. /\ proc' \in [rel : Releases \cup {NoRelease}, cmd : Commands, pc : Places, step : 0 .. 2]
      /\ proc'.rel = r /\ proc'.pc = "return" /\ proc'.cmd = proc.cmd /\ proc'.step = proc.step
  BY <1>1, Went DEF Finish, Places
<1>5. marker' = marker /\ handoff' = handoff /\ receipt' = receipt /\ app' = app /\ selector' = selector
  BY DEF Finish, host
<1>6. Knows(r)'
  BY <1>1, <1>2, <1>3, <1>4, <1>5 DEF Knows, Before, At, Pending, Mine
<1> QED
  BY <1>3, <1>4, <1>6, Moved DEF IInv

-----------------------------------------------------------------------------
(* The native command, and the application's own death.                     *)

LEMMA TheNative ==
  ASSUME IInv, native # NoNative
  PROVE  /\ native.rel \in Releases /\ NativeOf(native.rel) /\ cp[native.rel].pending.kind = NativeKind
         /\ NativeKind = "persist" =>
              /\ Len(cp[native.rel].effects) = 1 /\ performed[native.rel]["persist"] = 1
              /\ cp[native.rel].pending.op \in Ops /\ cp[native.rel].pending.op.rel = native.rel
         /\ NativeKind = "replace" =>
              selector.version.rel = native.rel /\ Len(cp[native.rel].effects) = 2
<1> DEFINE x == native.rel
<1>1. x \in Releases /\ NativeOf(x)
  BY DEF IInv, NativeOK
<1>2. Place(cp[x]) /\ PendingOK(cp[x], x) /\ cp[x] \in Checkpoints
  BY <1>1, Known
<1>3. cp[x].pending.op \in Ops
  BY <1>2 DEF Checkpoints, Pendings
<1> HIDE DEF x
<1>4. CASE cp[x].pending.kind = "persist"
  <2>1. cp[x].stage = "persist" /\ Len(cp[x].effects) = 1
    BY <1>2, <1>4 DEF Place
  <2>2. Effect[cp[x].stage] = "persist" /\ performed[x]["persist"] = 1 /\ cp[x].pending.op.rel = x
    BY <1>1, <1>2, <1>4, <2>1, EffectFacts DEF NativeOf, PendingOK
  <2> QED
    BY <1>1, <1>3, <1>4, <2>1, <2>2 DEF NativeKind, x
<1>5. CASE cp[x].pending.kind = "replace"
  <2>1. cp[x].stage = "replace" /\ Len(cp[x].effects) = 2
    BY <1>2, <1>5 DEF Place
  <2>2. Effect[cp[x].stage] = "replace" /\ selector.version.rel = x
    BY <1>1, <1>5, <2>1, EffectFacts DEF NativeOf
  <2> QED
    BY <1>1, <1>5, <2>1, <2>2 DEF NativeKind, x
<1> QED
  BY <1>1, <1>4, <1>5 DEF NativeOf

\* Where a process can be beside a native command: its own, before and after the
\* wait for it, or a recovery's that has not taken the target over yet.
LEMMA Alongside ==
  ASSUME IInv, native # NoNative, NEW z \in Releases, proc.rel = z
  PROVE  /\ proc.pc \in {"begin", "wait", "failed"} \cup Before
         /\ proc.pc \notin Before => z = native.rel /\ ~marker.readOnly
<1>1. Knows(z) /\ proc.pc \in Places
  BY Known DEF IInv, ProcOK
<1>2. CASE proc.pc \in Before
  BY <1>2
<1>3. CASE proc.pc \notin Before
  <2>1. marker.owner = z
    BY <1>1, <1>3 DEF Knows
  <2>2. native.rel = z /\ NativeOf(z)
    BY <2>1, NativeOfOwner
  <2>3. Submitted(z) /\ ~cp[z].pending.delivered /\ Pending(z) /\ ~marker.readOnly
    BY <2>2 DEF NativeOf, Pending, Held
  <2>4. proc.pc \notin {"stage", "intent", "advance", "verify", "receipt", "receipted"}
    BY <1>1, <2>3 DEF Knows
  <2>5. proc.pc \notin {"mutate", "perform", "result"}
    BY <1>1 DEF Knows
  <2>6. proc.pc \notin {"commit", "return", "none"}
    BY <1>1, <2>3 DEF Knows
  <2> QED
    BY <1>1, <1>3, <2>2, <2>3, <2>4, <2>5, <2>6 DEF Places, Before
<1> QED
  BY <1>2, <1>3

\* What the native side of the host does leaves the files, the marker and what
\* another process knows.
LEMMA HostMoves ==
  ASSUME IInv, UNCHANGED <<dumps, marker, files, performed>>
  PROVE  FilesOK' /\ MarkOK'
<1>1. /\ dumps' = dumps /\ marker' = marker /\ receipt' = receipt /\ handoff' = handoff
      /\ superseded' = superseded /\ performed' = performed /\ cp' = cp
  BY DEF files
<1>2. FilesOK'
  BY <1>1 DEF IInv, FilesOK
<1>3. MarkOK'
  BY <1>1 DEF IInv, MarkOK, Held, Pending
<1> QED
  BY <1>2, <1>3

LEMMA NoNativeNext ==
  ASSUME native' = NoNative
  PROVE  NativeOK'
<1>1. NoNative.rel = NoRelease /\ NoRelease \notin Releases
  BY ReleaseAssumption DEF NoNative
<1>2. NoNative \in [rel : Releases \cup {NoRelease}, done : 0 .. 4, alive : BOOLEAN]
  BY DEF NoNative
<1> QED
  BY <1>1, <1>2 DEF NativeOK

LEMMA NativeSame ==
  ASSUME IInv, native # NoNative, UNCHANGED <<selector, marker, files, performed>>,
         native' \in [rel : Releases \cup {NoRelease}, done : 0 .. 4, alive : BOOLEAN],
         native'.rel = native.rel
  PROVE  NativeOK'
<1>1. marker' = marker /\ selector' = selector /\ performed' = performed /\ cp' = cp
  BY DEF files
<1>2. native.rel \in Releases /\ native.rel # NoRelease
  BY TheNative, ReleaseAssumption
<1>3. \A x \in Releases : native.rel = x => NativeOf(x)
  BY DEF IInv, NativeOK
<1>4. \A x \in Releases : native'.rel = x => NativeOf(x)'
  BY <1>1, <1>3 DEF NativeOf, Submitted, Held
<1> QED
  BY <1>2, <1>4 DEF NativeOK

LEMMA ProcStays ==
  ASSUME IInv, native # NoNative, UNCHANGED <<dumps, marker, files, performed>>,
         native'.rel \in {native.rel, NoRelease}, proc' = proc
  PROVE  ProcOK'
<1>1. /\ marker' = marker /\ cp' = cp /\ handoff' = handoff /\ superseded' = superseded
  BY DEF files
<1>2. ASSUME NEW z \in Releases, proc.rel = z PROVE Knows(z)'
  <2>1. Knows(z)
    BY <1>2, Known
  <2>2. /\ proc.pc \in {"begin", "wait", "failed"} \cup Before
        /\ proc.pc \notin Before => z = native.rel /\ ~marker.readOnly
    BY <1>2, Alongside
  <2>3. Handed(z) => Handed(z)'
    BY <1>1 DEF Handed
  <2>4. Busy(z)' = Busy(z) /\ Submitted(z)' = Submitted(z)
    BY <1>1 DEF Busy, Submitted, Pending
  <2> QED
    BY <1>1, <2>1, <2>2, <2>3, <2>4 DEF Knows, Before
<1>3. proc'.rel = proc.rel
  OBVIOUS
<1>4. \A z \in Releases : proc'.rel = z => Knows(z)'
  BY <1>2, <1>3
<1> QED
  BY <1>4 DEF IInv, ProcOK

LEMMA ProcAwakes ==
  ASSUME IInv, native # NoNative, Waited, UNCHANGED <<dumps, marker, files, performed>>,
         NEW q, Goto(q), q = "failed" \/ (q = "result" /\ native' = NoNative)
  PROVE  ProcOK'
<1>1. native.rel \in Releases /\ proc.rel = native.rel /\ proc.pc = "wait" /\ q \in Places
  BY TheNative DEF Waited, Places
<1> PICK z \in Releases : z = native.rel
  BY <1>1
<1>2. Knows(z)
  BY <1>1, Known
<1>3. /\ marker' = marker /\ cp' = cp /\ handoff' = handoff
  BY DEF files
<1>4. /\ proc' \in [rel : Releases \cup {NoRelease}, cmd : Commands, pc : Places, step : 0 .. 2]
      /\ proc'.rel = z /\ proc'.pc = q /\ proc'.cmd = proc.cmd /\ proc'.step = proc.step
  BY <1>1, Went
<1>5. Busy(z) /\ Submitted(z) /\ cp[z].pending.kind # "recovery-point" /\ marker.owner = z
  BY <1>1, <1>2 DEF Knows, Before
<1>6. Busy(z)' /\ Submitted(z)' /\ cp'[z].pending.kind # "recovery-point" /\ marker'.owner = z
  BY <1>3, <1>5 DEF Busy, Submitted, Pending
<1>7. Knows(z)'
  BY <1>1, <1>2, <1>3, <1>4, <1>6 DEF Knows, Before
<1> QED
  BY <1>1, <1>4, <1>7, Moved

LEMMA PutLandsKeeps ==
  ASSUME IInv, PutLands
  PROVE  IInv'
<1> DEFINE x == native.rel
<1>1. /\ native # NoNative /\ NativeKind = "persist" /\ native' = NoNative
      /\ app' = app /\ runtime' = runtime /\ dumps' = dumps /\ performed' = performed /\ cp' = cp
      /\ UNCHANGED <<dumps, marker, files, performed>>
  BY DEF PutLands, files
<1>2. /\ x \in Releases /\ Len(cp[x].effects) = 1 /\ performed[x]["persist"] = 1
      /\ cp[x].pending.op \in Ops /\ cp[x].pending.op.rel = x
  BY <1>1, TheNative
<1>3. selector' = [image |-> Wanted[x], version |-> cp[x].pending.op]
  BY DEF PutLands, Expected
<1> HIDE DEF x
<1>4. HostOK'
  <2>1. selector' \in Selectors
    BY <1>2, <1>3, ReleaseAssumption DEF Selectors
  <2>2. selector'.version.rel = x
    BY <1>2, <1>3
  <2>3. ~(Len(cp[x].effects) >= 2)
    BY <1>2
  <2>4. ReplacedWithWanted'
    BY <1>1 DEF IInv, HostOK, ReplacedWithWanted
  <2> QED
    BY <1>1, <1>2, <2>1, <2>2, <2>3, <2>4 DEF IInv, HostOK
<1>5. FilesOK' /\ MarkOK' /\ NativeOK'
  BY <1>1, HostMoves, NoNativeNext
<1>6. ProcOK'
  <2>1. CASE Waited
    <3>1. PICK q \in {"result", "failed"} : Goto(q)
      BY <2>1 DEF PutLands
    <3> QED
      BY <1>1, <2>1, <3>1, ProcAwakes
  <2>2. CASE ~Waited
    <3>1. proc' = proc
      BY <2>2 DEF PutLands
    <3>2. native'.rel = NoRelease
      BY <1>1 DEF NoNative
    <3> QED
      BY <1>1, <3>1, <3>2, ProcStays
  <2> QED
    BY <2>1, <2>2
<1> QED
  BY <1>4, <1>5, <1>6 DEF IInv

\* Compose creates the container from the environment file, which the commit of
\* the selector's effect left on the image the release wants.
LEMMA Composed ==
  ASSUME IInv, ComposeStep
  PROVE  app' \in Apps /\ ReplacedWithWanted'
<1> DEFINE x == native.rel
<1>1. /\ native # NoNative /\ NativeKind = "replace"
      /\ app' = CASE native.done = 0 -> [app EXCEPT !.running = FALSE]
                  [] native.done = 1 -> [Absent EXCEPT !.lapse = app.lapse]
                  [] native.done = 2 -> [app EXCEPT !.id = native.rel, !.image = runtime]
                  [] OTHER -> [app EXCEPT !.running = TRUE]
  BY DEF ComposeStep
<1>2. x \in Releases /\ selector.version.rel = x /\ Len(cp[x].effects) = 2
  BY <1>1, TheNative
<1>3. /\ app \in Apps /\ runtime \in Images /\ \A y \in Releases : app.id = y => app.image = Wanted[y]
  BY DEF IInv, HostOK, ReplacedWithWanted
<1>4. runtime = Wanted[x]
  <2> DEFINE n == Len(cp[x].effects)
  <2>1. n = 2
    BY <1>2
  <2>2. n >= 2 => runtime = Wanted[x]
    BY <1>2 DEF IInv, HostOK
  <2> HIDE DEF n
  <2> QED
    BY <2>1, <2>2
<1> HIDE DEF x
<1>5. CASE native.done = 0
  <2>1. app' = [app EXCEPT !.running = FALSE]
    BY <1>1, <1>5
  <2> QED
    BY <1>3, <2>1 DEF Apps, ReplacedWithWanted
<1>6. CASE native.done = 1
  <2>1. app' = [Absent EXCEPT !.lapse = app.lapse]
    BY <1>1, <1>6
  <2> QED
    BY <1>3, <2>1, ReleaseAssumption DEF Apps, Absent, ReplacedWithWanted
<1>7. CASE native.done = 2
  <2>1. app' = [app EXCEPT !.id = x, !.image = runtime]
    BY <1>1, <1>7 DEF x
  <2> QED
    BY <1>2, <1>3, <1>4, <2>1 DEF Apps, ReplacedWithWanted
<1>8. CASE native.done \notin {0, 1, 2}
  <2>1. app' = [app EXCEPT !.running = TRUE]
    BY <1>1, <1>8
  <2> QED
    BY <1>3, <2>1 DEF Apps, ReplacedWithWanted
<1> QED
  BY <1>5, <1>6, <1>7, <1>8

LEMMA ComposeStepKeeps ==
  ASSUME IInv, ComposeStep
  PROVE  IInv'
<1>1. /\ native # NoNative /\ native.done < 4
      /\ native' = IF native.alive THEN [native EXCEPT !.done = @ + 1] ELSE NoNative
      /\ selector' = selector /\ runtime' = runtime /\ dumps' = dumps /\ performed' = performed
      /\ proc' = proc /\ cp' = cp /\ UNCHANGED <<dumps, marker, files, performed>>
  BY DEF ComposeStep, Continue, files
<1>2. HostOK'
  BY <1>1, Composed DEF IInv, HostOK
<1>3. FilesOK' /\ MarkOK'
  BY <1>1, HostMoves
<1>4. native \in [rel : Releases \cup {NoRelease}, done : 0 .. 4, alive : BOOLEAN]
  BY DEF IInv, NativeOK
<1>5. CASE native.alive
  <2>1. native' = [native EXCEPT !.done = @ + 1]
    BY <1>1, <1>5
  <2>2. /\ native' \in [rel : Releases \cup {NoRelease}, done : 0 .. 4, alive : BOOLEAN]
        /\ native'.rel = native.rel
    BY <1>1, <1>4, <2>1
  <2>3. NativeOK'
    BY <1>1, <2>2, NativeSame
  <2>4. ProcOK'
    BY <1>1, <2>2, ProcStays
  <2> QED
    BY <1>2, <1>3, <2>3, <2>4 DEF IInv
<1>6. CASE ~native.alive
  <2>1. native' = NoNative /\ native'.rel = NoRelease
    BY <1>1, <1>6 DEF NoNative
  <2>2. NativeOK' /\ ProcOK'
    BY <1>1, <2>1, NoNativeNext, ProcStays
  <2> QED
    BY <1>2, <1>3, <2>2 DEF IInv
<1> QED
  BY <1>5, <1>6

LEMMA HostStays ==
  ASSUME IInv, UNCHANGED <<app, selector, runtime, dumps, marker, files, performed>>
  PROVE  FilesOK' /\ HostOK' /\ MarkOK'
<1>1. /\ app' = app /\ selector' = selector /\ runtime' = runtime /\ dumps' = dumps
      /\ performed' = performed /\ cp' = cp
  BY DEF files
<1>2. HostOK'
  BY <1>1 DEF IInv, HostOK, ReplacedWithWanted
<1> QED
  BY <1>2, HostMoves

\* The native command is gone: its process, if it waits, goes on to q.
LEMMA NativeGone ==
  ASSUME IInv, native # NoNative, native' = NoNative, NEW q \in {"result", "failed"},
         IF Waited THEN Goto(q) ELSE UNCHANGED proc,
         UNCHANGED <<app, selector, runtime, dumps, marker, files, performed>>
  PROVE  IInv'
<1>1. FilesOK' /\ HostOK' /\ MarkOK' /\ NativeOK'
  BY HostStays, NoNativeNext
<1>2. CASE Waited
  BY <1>1, <1>2, ProcAwakes DEF IInv
<1>3. CASE ~Waited
  <2>1. native'.rel = NoRelease /\ proc' = proc
    BY <1>3 DEF NoNative
  <2> QED
    BY <1>1, <2>1, ProcStays DEF IInv
<1> QED
  BY <1>2, <1>3

LEMMA ComposeSucceedsKeeps ==
  ASSUME IInv, ComposeSucceeds
  PROVE  IInv'
<1>1. native # NoNative
  BY DEF ComposeSucceeds, NoNative
<1> QED
  BY <1>1, NativeGone DEF ComposeSucceeds

LEMMA NativeFailsKeeps ==
  ASSUME IInv, NativeFails
  PROVE  IInv'
  BY NativeGone DEF NativeFails

LEMMA NativeKilledKeeps ==
  ASSUME IInv, NativeKilled
  PROVE  IInv'
<1>1. /\ native # NoNative /\ Waited /\ native' = [native EXCEPT !.alive = FALSE] /\ Goto("failed")
      /\ UNCHANGED <<app, selector, runtime, dumps, marker, files, performed>>
  BY DEF NativeKilled, NoNative
<1>2. native \in [rel : Releases \cup {NoRelease}, done : 0 .. 4, alive : BOOLEAN]
  BY DEF IInv, NativeOK
<1>3. /\ native' \in [rel : Releases \cup {NoRelease}, done : 0 .. 4, alive : BOOLEAN]
      /\ native'.rel = native.rel
  BY <1>1, <1>2
<1> QED
  BY <1>1, <1>3, HostStays, NativeSame, ProcAwakes DEF IInv

\* The application dies: its container stays the same one, of the same image.
LEMMA LapseKeeps ==
  ASSUME IInv, Lapse
  PROVE  IInv'
<1>1. /\ selector' = selector /\ runtime' = runtime /\ dumps' = dumps /\ native' = native
      /\ proc' = proc /\ marker' = marker /\ performed' = performed
      /\ cp' = cp /\ receipt' = receipt /\ handoff' = handoff /\ superseded' = superseded
      /\ UNCHANGED <<dumps, marker, files, performed>>
  BY DEF Lapse, files
<1>2. app' \in Apps /\ app'.id = app.id /\ app'.image = app.image
  <2>1. app \in Apps /\ app.lapse < MaxLapses /\ MaxLapses \in Nat
    BY ReleaseAssumption DEF Lapse, IInv, HostOK
  <2>2. PICK up \in BOOLEAN : app' = [app EXCEPT !.running = up, !.lapse = @ + 1]
    BY DEF Lapse
  <2>3. app.lapse + 1 \in 0 .. MaxLapses
    BY <2>1 DEF Apps
  <2>4. CASE up
    <3>1. app' = [app EXCEPT !.running = TRUE, !.lapse = @ + 1]
      BY <2>2, <2>4
    <3> QED
      BY <2>1, <2>3, <3>1 DEF Apps
  <2>5. CASE ~up
    <3>1. app' = [app EXCEPT !.running = FALSE, !.lapse = @ + 1]
      BY <2>2, <2>5
    <3> QED
      BY <2>1, <2>3, <3>1 DEF Apps
  <2> QED
    BY <2>4, <2>5
<1>3. HostOK'
  BY <1>1, <1>2 DEF IInv, HostOK, ReplacedWithWanted
<1>4. FilesOK' /\ MarkOK'
  BY <1>1, HostMoves
<1>5. NativeOK'
  BY <1>1 DEF IInv, NativeOK, NativeOf, Submitted, Held
<1>6. ProcOK'
  <2>1. ASSUME NEW z \in Releases, proc.rel = z PROVE Knows(z)'
    <3>1. Knows(z)
      BY <2>1, Known
    <3>2. Handed(z)' = Handed(z) /\ Busy(z)' = Busy(z) /\ Held(z)' = Held(z)
      BY <1>1 DEF Handed, Busy, Held, Pending
    <3>3. Pending(z)' = Pending(z) /\ Submitted(z)' = Submitted(z)
      BY <1>1 DEF Pending, Submitted
    <3> QED
      BY <1>1, <1>2, <3>1, <3>2, <3>3 DEF Knows
  <2>2. \A z \in Releases : proc'.rel = z => Knows(z)'
    BY <1>1, <2>1
  <2> QED
    BY <1>1, <2>2 DEF IInv, ProcOK
<1> QED
  BY <1>3, <1>4, <1>5, <1>6 DEF IInv

-----------------------------------------------------------------------------
(* The invariant.                                                           *)

LEMMA NoCpOK ==
  ASSUME NEW x \in Releases
  PROVE  CheckpointOK(NoCp, x, [k \in Kinds |-> 0], {}) /\ ~Working(NoCp)
<1>1. /\ NoCp \in Checkpoints /\ NoCp.stage = "none" /\ NoCp.effects = <<>> /\ NoCp.pending = NoPending
      /\ NoCp.before.version.rel = NoRelease /\ NoRelease # x
  BY NoCpFacts, AbsentFacts, ReleaseAssumption
<1>2. NoCp.pending.kind = "none" /\ ~NoCp.pending.delivered /\ Len(NoCp.effects) = 0
  BY <1>1, NoPendingFacts
<1>3. Place(NoCp)
  BY <1>1, <1>2 DEF Place
<1>4. EffectsOK(NoCp, x)
  BY <1>1, <1>2 DEF EffectsOK
<1>5. PendingOK(NoCp, x)
  BY <1>1, <1>2 DEF PendingOK
<1>6. CountsOK(NoCp, [k \in Kinds |-> 0])
  BY DEF CountsOK, Kinds
<1>7. ~Working(NoCp)
  BY <1>2 DEF Working
<1> QED
  BY <1>1, <1>2, <1>3, <1>4, <1>5, <1>6, <1>7 DEF CheckpointOK

LEMMA InitKeeps == Init => IInv
<1> SUFFICES ASSUME Init PROVE IInv
  OBVIOUS
<1>1. /\ app = [id |-> NoRelease, image |-> Deployed, running |-> TRUE, lapse |-> 0]
      /\ selector = [image |-> Deployed, version |-> NoOp] /\ runtime = Deployed
      /\ dumps = {} /\ native = NoNative /\ proc = NoProc /\ marker = NoMarker
      /\ cp = [r \in Releases |-> NoCp] /\ receipt = {}
      /\ handoff = [r \in Releases |-> <<>>] /\ superseded = [r \in Releases |-> NoRelease]
      /\ performed = [r \in Releases |-> [k \in Kinds |-> 0]]
  BY DEF Init
<1>2. NoRelease \notin Releases /\ Deployed \in Images /\ MaxLapses \in Nat
  BY ReleaseAssumption
<1>3. FilesOK
  <2>1. cp \in [Releases -> Checkpoints] /\ \A x \in Releases : cp[x] = NoCp
    BY <1>1, NoCpFacts
  <2>2. [k \in Kinds |-> 0] \in [Kinds -> 0 .. 1]
    OBVIOUS
  <2>3. /\ performed \in [Releases -> [Kinds -> 0 .. 1]]
        /\ \A x \in Releases : performed[x] = [k \in Kinds |-> 0]
    BY <1>1, <2>2
  <2>4. \A x \in Releases : CheckpointOK(cp[x], x, performed[x], dumps)
    BY <1>1, <2>1, <2>3, NoCpOK
  <2>5. /\ receipt \subseteq Releases /\ superseded \in [Releases -> Releases \cup {NoRelease}]
        /\ DOMAIN handoff = Releases /\ \A x \in Releases : handoff[x] = <<>>
    BY <1>1
  <2> QED
    BY <2>1, <2>3, <2>4, <2>5 DEF FilesOK
<1>4. HostOK
  <2>1. app \in Apps /\ app.id = NoRelease
    BY <1>1, <1>2 DEF Apps
  <2>2. selector \in Selectors /\ selector.version.rel = NoRelease
    BY <1>1, <1>2, AbsentFacts DEF Selectors, NoOp
  <2> QED
    BY <1>1, <1>2, <2>1, <2>2 DEF HostOK, ReplacedWithWanted
<1>5. MarkOK
  <2>1. marker \in [owner : Releases \cup {NoRelease}, readOnly : BOOLEAN]
    BY <1>1 DEF NoMarker
  <2>2. \A x \in Releases : ~Working(cp[x]) /\ ~Pending(x)
    BY <1>1, NoCpOK, NoCpFacts, NoPendingFacts DEF Pending
  <2> QED
    BY <2>1, <2>2 DEF MarkOK
<1>6. NativeOK
  BY <1>1, <1>2 DEF NativeOK, NoNative
<1>7. ProcOK
  BY <1>1, <1>2 DEF ProcOK, NoProc, Commands, Places
<1> QED
  BY <1>3, <1>4, <1>5, <1>6, <1>7 DEF IInv

LEMMA ReleaseStepKeeps ==
  ASSUME IInv, NEW r \in Releases, Step(r)
  PROVE  IInv'
<1>1. CASE Return(r) \/ WriteHandoff(r) \/ Supersede(r) \/ Transfer(r) \/ Preflight(r) \/ FirstCheckpoint(r)
  BY <1>1, ReturnKeeps, WriteHandoffKeeps, SupersedeKeeps, TransferKeeps, PreflightKeeps,
     FirstCheckpointKeeps
<1>2. CASE \/ Attend(r) \/ ResumeRetry(r) \/ ResumeRuntime(r) \/ ResumePersist(r) \/ ResumeReplace(r)
           \/ ResumeBackup(r) \/ ResumeAdvance(r)
  BY <1>2, AttendKeeps, ResumeRetryKeeps, ResumeRuntimeKeeps, ResumePersistKeeps, ResumeReplaceKeeps,
     ResumeBackupKeeps, ResumeAdvanceKeeps
<1>3. CASE Intend(r) \/ SaveIntent(r) \/ Submit(r) \/ CreateDump(r) \/ VerifyDump(r) \/ Spawn(r)
  BY <1>3, IntendKeeps, SaveIntentKeeps, SubmitKeeps, CreateDumpKeeps, VerifyDumpKeeps, SpawnKeeps
<1>4. CASE NotSubmitted(r) \/ WriteRuntime(r) \/ ReadBack(r) \/ SaveResult(r) \/ Commit(r) \/ Advance(r)
  BY <1>4, NotSubmittedKeeps, WriteRuntimeKeeps, ReadBackKeeps, SaveResultKeeps, CommitKeeps, AdvanceKeeps
<1>5. CASE \/ VerifyStart(r) \/ VerifyEnd(r) \/ WriteReceipt(r) \/ Complete(r) \/ Finish(r)
           \/ RecoveryReady(r)
  BY <1>5, VerifyStartKeeps, VerifyEndKeeps, WriteReceiptKeeps, CompleteKeeps, FinishKeeps,
     RecoveryReadyKeeps
<1> QED
  BY <1>1, <1>2, <1>3, <1>4, <1>5 DEF Step

LEMMA StutterKeeps ==
  ASSUME IInv, UNCHANGED vars
  PROVE  IInv'
<1>1. proc' = proc /\ UNCHANGED <<host, marker, files, performed>>
  BY DEF vars
<1>2. FilesOK' /\ HostOK' /\ MarkOK' /\ NativeOK'
  BY <1>1, QuietKeeps
<1>3. /\ app' = app /\ selector' = selector /\ runtime' = runtime /\ dumps' = dumps /\ native' = native
      /\ marker' = marker /\ receipt' = receipt /\ handoff' = handoff /\ superseded' = superseded
      /\ performed' = performed /\ cp' = cp
  BY <1>1 DEF host, files
<1>4. \A z \in Releases : Knows(z) => Knows(z)'
  <2> TAKE z \in Releases
  <2>1. /\ Handed(z)' = Handed(z) /\ Busy(z)' = Busy(z) /\ Held(z)' = Held(z)
        /\ Pending(z)' = Pending(z) /\ Submitted(z)' = Submitted(z)
    BY <1>3 DEF Handed, Busy, Held, Pending, Submitted
  <2> QED
    BY <1>1, <1>3, <2>1 DEF Knows
<1>5. ProcOK'
  BY <1>1, <1>4 DEF IInv, ProcOK
<1> QED
  BY <1>2, <1>5 DEF IInv

LEMMA NextKeeps ==
  ASSUME IInv, [Next]_vars
  PROVE  IInv'
<1>1. CASE \E r \in Releases : Step(r)
  BY <1>1, ReleaseStepKeeps
<1>2. CASE \E r \in Releases, cmd \in {"preflight", "release", "resume", "recover"} : Lock(r, cmd)
  BY <1>2, LockKeeps
<1>3. CASE Fail \/ Crash
  BY <1>3, FailKeeps, CrashKeeps
<1>4. CASE PutLands \/ ComposeStep \/ ComposeSucceeds \/ NativeFails \/ NativeKilled \/ Lapse
  BY <1>4, PutLandsKeeps, ComposeStepKeeps, ComposeSucceedsKeeps, NativeFailsKeeps, NativeKilledKeeps,
     LapseKeeps
<1>5. CASE UNCHANGED vars
  BY <1>5, StutterKeeps
<1> QED
  BY <1>1, <1>2, <1>3, <1>4, <1>5 DEF Next

\* In every state each checkpoint has the shape of its stage, and the host, the
\* marker, the native command and the process at work agree with the checkpoints
\* (what app_release.py relies on whenever it reads its own files again).
THEOREM ReleaseInvariant == Spec => []IInv
<1>1. Init => IInv
  BY InitKeeps
<1>2. IInv /\ [Next]_vars => IInv'
  BY NextKeeps
<1> QED
  BY <1>1, <1>2, PTL DEF Spec

-----------------------------------------------------------------------------
(* The properties.                                                          *)

LEMMA TypeFollows == IInv => TypeOK
<1> SUFFICES ASSUME IInv PROVE TypeOK
  OBVIOUS
<1>1. /\ app \in Apps /\ selector \in Selectors /\ runtime \in Images /\ dumps \subseteq Ops
      /\ native \in [rel : Releases \cup {NoRelease}, done : 0 .. 4, alive : BOOLEAN]
      /\ proc.rel \in Releases \cup {NoRelease} /\ proc.step \in 0 .. 2
      /\ marker \in [owner : Releases \cup {NoRelease}, readOnly : BOOLEAN]
      /\ receipt \subseteq Releases /\ superseded \in [Releases -> Releases \cup {NoRelease}]
  BY DEF IInv, HostOK, NativeOK, ProcOK, MarkOK, FilesOK
<1>2. ASSUME NEW r \in Releases
      PROVE  /\ cp[r].pending \in Pendings
             /\ cp[r].initial \in Apps /\ cp[r].accepted \in Apps
             /\ cp[r].before \in Selectors /\ cp[r].after \in Selectors
             /\ Len(cp[r].effects) <= 3
             /\ \A i \in 1 .. Len(cp[r].effects) :
                  cp[r].effects[i] \in Committed /\ cp[r].effects[i].kind = Effect[Stages[i]]
  <2> DEFINE e == cp[r].effects
             n == Len(e)
  <2>1. cp[r] \in Checkpoints /\ EffectsOK(cp[r], r) /\ n \in 0 .. 3
    BY Known
  <2>2. e \in Seq(Committed)
    BY <2>1 DEF Checkpoints
  <2>3. /\ n >= 1 => e[1].kind = "recovery-point"
        /\ n >= 2 => e[2].kind = "persist"
        /\ n >= 3 => e[3].kind = "replace"
    BY <2>1 DEF EffectsOK
  <2>4. /\ Effect[Stages[1]] = "recovery-point" /\ Effect[Stages[2]] = "persist"
        /\ Effect[Stages[3]] = "replace"
    BY EffectFacts, StageFacts
  <2>5. \A i \in 1 .. n : e[i] \in Committed
    BY <2>2
  <2> HIDE DEF n, e
  <2>6. \A i \in 1 .. n : e[i].kind = Effect[Stages[i]]
    <3> TAKE i \in 1 .. n
    <3>1. i = 1 \/ i = 2 \/ i = 3
      BY <2>1
    <3>2. i = 1 => n >= 1
      BY <2>1
    <3>3. i = 2 => n >= 2
      BY <2>1
    <3>4. i = 3 => n >= 3
      BY <2>1
    <3> QED
      BY <2>3, <2>4, <3>1, <3>2, <3>3, <3>4
  <2>7. n <= 3
    BY <2>1
  <2> QED
    BY <2>1, <2>5, <2>6, <2>7 DEF Checkpoints, n, e
<1> QED
  BY <1>1, <1>2 DEF TypeOK

LEMMA PointFollows == IInv => RecoveryPointFirst
<1> SUFFICES ASSUME IInv, NEW r \in Releases, performed[r]["persist"] + performed[r]["replace"] > 0
             PROVE  \E op \in dumps : op.rel = r
  BY DEF RecoveryPointFirst
<1> DEFINE n == Len(cp[r].effects)
<1>1. /\ Place(cp[r]) /\ CountsOK(cp[r], performed[r]) /\ n \in 0 .. 3
      /\ n >= 1 => \E op \in dumps : op.rel = r
  BY Known
<1>2. performed[r]["persist"] = 1 \/ performed[r]["replace"] = 1
  BY <1>1 DEF CountsOK, Kinds
<1>3. \/ n >= 2 \/ n >= 3
      \/ cp[r].pending.kind = "persist" \/ cp[r].pending.kind = "replace"
  BY <1>1, <1>2 DEF CountsOK, InDoubt
<1>4. cp[r].pending.kind = "persist" => n = 1
  BY <1>1 DEF Place
<1>5. cp[r].pending.kind = "replace" => n = 2
  BY <1>1 DEF Place
<1> HIDE DEF n
<1> QED
  BY <1>1, <1>3, <1>4, <1>5

LEMMA EffectsFollow == IInv => EffectsSound
<1> SUFFICES ASSUME IInv PROVE EffectsSound
  OBVIOUS
<1>1. EffectsNotReplayed
  <2>1. \A r \in Releases : performed[r] \in [Kinds -> 0 .. 1]
    BY DEF IInv, FilesOK
  <2> QED
    BY <2>1 DEF EffectsNotReplayed
<1>2. ReplacedWithWanted
  BY DEF IInv, HostOK
<1> QED
  BY <1>1, <1>2, TypeFollows, PointFollows DEF EffectsSound

LEMMA CoverFollows == IInv => MarkerCoversIntent
<1> SUFFICES ASSUME IInv, NEW r \in Releases,
                    (Submitted(r) /\ superseded[r] = NoRelease) \/ native.rel = r
             PROVE  Held(r)
  BY DEF MarkerCoversIntent, Held
<1>1. CASE Submitted(r) /\ superseded[r] = NoRelease
  <2>1. Pending(r)
    BY <1>1, Known, NoPendingFacts DEF Pending, Submitted, PendingOK
  <2> QED
    BY <1>1, <2>1 DEF IInv, MarkOK
<1>2. CASE native.rel = r
  BY <1>2 DEF IInv, NativeOK, NativeOf
<1> QED
  BY <1>1, <1>2

\* A recovery that had an effect and does not hold the target had them all.
LEMMA Overtaken ==
  ASSUME IInv, NEW y \in Releases, NEW k \in Kinds, performed[y][k] > 0, ~Working(cp[y])
  PROVE  Len(Records(y)) = 3 /\ Settled(y)
<1> DEFINE n == Len(cp[y].effects)
<1>1. /\ cp[y] \in Checkpoints /\ Place(cp[y]) /\ PendingOK(cp[y], y) /\ CountsOK(cp[y], performed[y])
      /\ n \in 0 .. 3 /\ cp[y].effects \in Seq(Committed)
  BY Known DEF Checkpoints
<1>2. performed[y][k] = 1
  BY <1>1 DEF CountsOK
<1>3. n >= 1 \/ cp[y].pending.kind = k
  BY <1>1, <1>2 DEF CountsOK, InDoubt, Kinds
<1>4. n > 0 \/ cp[y].pending.kind # "none"
  BY <1>1, <1>3 DEF Kinds
<1>5. ~(n < 3) \/ (cp[y].pending.kind = "replace" /\ cp[y].pending.delivered)
  BY <1>4 DEF Working
<1>6. CASE n = 3
  <2>1. cp[y].pending.kind = "none"
    BY <1>1, <1>6 DEF Place
  <2>2. ~Pending(y)
    BY <2>1 DEF Pending
  <2>3. Records(y) = cp[y].effects \o <<>>
    BY <2>2 DEF Records
  <2>4. Len(Records(y)) = Len(cp[y].effects) + Len(<<>>)
    BY <1>1, <2>3, ConcatProperties
  <2> QED
    BY <1>6, <2>2, <2>4 DEF Settled
<1>7. CASE cp[y].pending.kind = "replace" /\ cp[y].pending.delivered
  <2>1. cp[y].stage = "replace" /\ n = 2
    BY <1>1, <1>7 DEF Place
  <2>2. Submitted(y) /\ native.rel # y
    BY <1>1, <1>7 DEF PendingOK, Submitted, IInv, NativeOK, NativeOf
  <2>3. Records(y) = cp[y].effects \o <<cp[y].pending>>
    BY <1>7 DEF Records, Pending
  <2> DEFINE S == Committed \cup {cp[y].pending}
  <2>4. cp[y].effects \in Seq(S) /\ <<cp[y].pending>> \in Seq(S) /\ Len(<<cp[y].pending>>) = 1
    BY <1>1
  <2> HIDE DEF S
  <2>5. Len(Records(y)) = n + 1
    BY <2>3, <2>4, ConcatProperties
  <2> QED
    BY <1>7, <2>1, <2>2, <2>5 DEF Settled
<1>8. ~(n < 3) => n = 3
  <2> HIDE DEF n
  <2> QED
    BY <1>1
<1> QED
  BY <1>5, <1>6, <1>7, <1>8

LEMMA AcceptanceFollows ==
  ASSUME IInv, NEW r \in Releases, Accepts(r)
  PROVE  InPlace(r) /\ NotOvertaken(r)
<1> DEFINE n == Len(cp[r].effects)
<1>1. proc.rel = r /\ proc.pc = "return" /\ cp[r].stage = "complete" /\ proc.cmd # "preflight"
  BY DEF Accepts, At
<1>2. Knows(r) /\ (n >= 1 => \E op \in dumps : op.rel = r)
  BY <1>1, Known
<1>3. /\ marker.owner = r /\ n = 3 /\ ~Pending(r)
      /\ r \in receipt /\ app.image = Wanted[r] /\ Mine(selector, r)
  BY <1>1, <1>2 DEF Knows, Before
<1>4. n >= 2 => runtime = Wanted[r]
  BY <1>3 DEF IInv, HostOK, Mine
<1>5. ~(n < 3)
  BY <1>3
<1>6. ~Working(cp[r])
  BY <1>5 DEF Working
<1>7. InPlace(r)
  <2>1. n >= 1 /\ n >= 2
    <3> HIDE DEF n
    <3> QED
      BY <1>3
  <2> QED
    BY <1>2, <1>3, <1>4, <2>1 DEF InPlace, Mine
<1>8. NotOvertaken(r)
  <2> DEFINE y == superseded[r]
  <2>1. SUFFICES ASSUME y # NoRelease, NEW k \in Kinds, performed[y][k] > 0
                 PROVE  Len(Records(y)) = 3 /\ Settled(y)
    BY DEF NotOvertaken
  <2>2. y \in Releases
    BY <2>1 DEF IInv, FilesOK
  <2> HIDE DEF y
  <2>3. ~Working(cp[y])
    BY <1>3, <1>6, <2>2 DEF IInv, MarkOK, Held
  <2> QED
    BY <2>1, <2>2, <2>3, Overtaken
<1> QED
  BY <1>7, <1>8

\* The host sees each effect of a release at most once, however often its process
\* fails, is killed and resumed; only after a recovery point of the release is off
\* the host; and a container it made runs the image it wanted (app_release.py:204,
\* resume_pending).
THEOREM EffectsAreSound == Spec => []EffectsSound
  BY ReleaseInvariant, EffectsFollow, PTL

\* An effect that may have been submitted, or a native command still at work, is
\* covered by a marker that calls for the resume of its release: TargetLock.intent
\* writes it first, and only the end of the release or a recovery takes it away.
THEOREM MarkerAlwaysCovers == Spec => []MarkerCoversIntent
  BY ReleaseInvariant, CoverFollows, PTL

\* A command reports a release as accepted only while what the release installed is
\* in place, and never when a recovery has begun to replace it: superseded.json is
\* read before the lock is asked for, and what makes that safe is the marker of
\* whichever release has an effect under way.
THEOREM OnlyWhatIsInPlaceIsAccepted == Spec => AcceptedIsInPlace
<1>1. IInv => [\A r \in Releases : Accepts(r) => InPlace(r) /\ NotOvertaken(r)]_vars
  BY AcceptanceFollows
<1> QED
  BY <1>1, ReleaseInvariant, PTL DEF AcceptedIsInPlace

================================================================================
