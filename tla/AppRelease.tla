------------------------------- MODULE AppRelease -------------------------------
(***************************************************************************)
(* scripts/app_release.py: an operator replaces the running application by *)
(* another image on its host.  Every invocation is a process that holds    *)
(* the target's kernel lock and leaves durable files behind: the target's  *)
(* lock marker, and a checkpoint, a receipt, a handoff and a superseded    *)
(* mark in the state directory of each release.  A release has three       *)
(* effects, a recovery point, the persisted selector and the replacement   *)
(* of the container, and each is preceded by a durable intent.             *)
(*                                                                         *)
(* A process may refuse, fail or be killed between any two durable writes; *)
(* a native command it started lives on, and may still take effect, after  *)
(* it.  A refusal by a check of something outside the model (the owner's   *)
(* STOP file, approvals, custody, protected configuration, the migration   *)
(* ledger) is the action Fail.                                             *)
(***************************************************************************)
EXTENDS Naturals, Sequences, FiniteSets

CONSTANTS
  Releases,    \* state directories, each with its one descriptor
  NoRelease,
  Images,
  NoImage,
  Deployed,    \* the image that is deployed in the beginning
  Current,     \* of each release, the image its descriptor calls current
  Wanted,      \* and the one to install: its candidate, or a recovery's recovery
  FailedOf,    \* the failed release a recovery takes over; NoRelease for a release
  MaxLapses    \* bound on the deaths of the application

ASSUME ReleaseAssumption ==
  /\ NoRelease \notin Releases /\ NoImage \notin Images /\ Deployed \in Images
  /\ Current \in [Releases -> Images] /\ Wanted \in [Releases -> Images]
  /\ FailedOf \in [Releases -> Releases \cup {NoRelease}]
  /\ MaxLapses \in Nat

VARIABLES
  app,         \* the application's container as a snapshot shows it
  selector,    \* the persisted image selector and its version
  runtime,     \* the image in the Compose environment file
  dumps,       \* recovery points that are whole and verified off the host
  native,      \* the native command that may still take effect
  proc,        \* the invocation that holds the kernel lock
  marker,      \* lock.json
  cp,          \* checkpoint.json of every release
  receipt,     \* releases with a receipt.json
  handoff,     \* handoff.json of every recovery
  superseded,  \* superseded.json: the recovery that took a release over
  performed    \* (history) how often each effect reached the host

host == <<app, selector, runtime, dumps, native>>
files == <<cp, receipt, handoff, superseded>>
vars == <<host, proc, marker, files, performed>>

Kinds == {"recovery-point", "persist", "replace"}
Stages == <<"preflight", "persist", "replace", "verify">>
Effect == [preflight |-> "recovery-point", persist |-> "persist", replace |-> "replace"]

Apps == [id : Releases \cup {NoRelease}, image : Images \cup {NoImage}, running : BOOLEAN,
         lapse : 0 .. MaxLapses]
Ops == [rel : Releases \cup {NoRelease}, try : 0 .. 2]
Selectors == [image : Images \cup {NoImage}, version : Ops]

NoOp == [rel |-> NoRelease, try |-> 0]
NoSelector == [image |-> NoImage, version |-> NoOp]
Absent == [id |-> NoRelease, image |-> NoImage, running |-> FALSE, lapse |-> 0]
NoResult == [none |-> TRUE]
NoPending == [kind |-> "none", op |-> NoOp, status |-> "none", delivered |-> FALSE, result |-> NoResult]
NoCp == [stage |-> "none", initial |-> Absent, before |-> NoSelector, after |-> NoSelector,
         pending |-> NoPending, effects |-> <<>>, retried |-> FALSE, accepted |-> Absent]
NoNative == [rel |-> NoRelease, done |-> 0, alive |-> FALSE]
NoProc == [rel |-> NoRelease, cmd |-> "none", pc |-> "none", step |-> 0]
NoMarker == [owner |-> NoRelease, readOnly |-> TRUE]

Results == Apps \cup Selectors \cup Ops \cup {NoResult}
Pendings == [kind : Kinds \cup {"none"}, op : Ops, delivered : BOOLEAN, result : Results,
             status : {"none", "proven-unsubmitted", "submitted-unknown"}]
Committed == [kind : Kinds, result : Results, status : {"committed", "attended-effective-state"}]

Init ==
  /\ app = [id |-> NoRelease, image |-> Deployed, running |-> TRUE, lapse |-> 0]
  /\ selector = [image |-> Deployed, version |-> NoOp] /\ runtime = Deployed
  /\ dumps = {} /\ native = NoNative
  /\ proc = NoProc /\ marker = NoMarker
  /\ cp = [r \in Releases |-> NoCp] /\ receipt = {}
  /\ handoff = [r \in Releases |-> <<>>] /\ superseded = [r \in Releases |-> NoRelease]
  /\ performed = [r \in Releases |-> [k \in Kinds |-> 0]]
--------------------------------------------------------------------------------
(* The checks.                                                              *)

At(r, pc) == proc.rel = r /\ proc.pc = pc
Goto(pc) == proc' = [proc EXCEPT !.pc = pc]

\* The operation's uuid; its stage may be retried once.
Op(r) == [rel |-> r, try |-> IF cp[r].retried THEN 2 ELSE 1]

Pending(r) == cp[r].pending.kind # "none"
Submitted(r) == cp[r].pending.status = "submitted-unknown"
Expected(r) == [image |-> Wanted[r], version |-> cp[r].pending.op]

RuntimePreimage(r) == app = cp[r].initial

PreWrite(r, kind) ==
  /\ RuntimePreimage(r)
  /\ \/ kind = "replace" /\ selector = cp[r].after
     \/ kind # "replace" /\ selector = cp[r].before
     \/ kind = "persist" /\ Submitted(r) /\ selector = Expected(r)

Observe(r) == app.image = Wanted[r] /\ app.running

\* A bug for comparison with Unchanged: the selector is not read again.
Unchanged_AppOnly(r) == Observe(r) /\ app = cp[r].accepted

Unchanged(r) == Observe(r) /\ app = cp[r].accepted /\ selector = cp[r].after

\* receipt_facts and completed_receipt, of what the checkpoint records.
ReceiptFacts(r) ==
  /\ r \in receipt /\ ~Pending(r) /\ cp[r].accepted.running
  /\ Len(cp[r].effects) = 3
  /\ cp[r].effects[3].result = cp[r].accepted /\ cp[r].effects[2].result = cp[r].after

Save(r, c) == cp' = [cp EXCEPT ![r] = c]
--------------------------------------------------------------------------------
(* The lock and its marker.                                                 *)

\* A marker is left to its own release, and a mutation marker to its resume; a
\* recovery examines it in recovery_handoff.
Admits(r, cmd) ==
  CASE cmd = "release" -> marker = NoMarker
    [] cmd = "preflight" -> marker = NoMarker \/ (marker.owner = r /\ marker.readOnly)
    [] cmd = "resume" -> marker = NoMarker \/ marker.owner = r
    [] OTHER -> TRUE

\* start() looks for superseded.json, and a recovery for a checkpoint of its own,
\* before it asks for the lock.  Anything may happen in between, so any invocation
\* may have looked while there was none, and neither look is a guard here.
Lock(r, cmd) ==
  /\ proc = NoProc /\ Admits(r, cmd)
  /\ IF cmd = "recover"
       THEN /\ FailedOf[r] # NoRelease /\ UNCHANGED marker
            /\ proc' = [rel |-> r, cmd |-> cmd, pc |-> "handoff", step |-> 1]
       ELSE /\ proc' = [rel |-> r, cmd |-> cmd, pc |-> "begin", step |-> 1]
            /\ marker' = [owner |-> r, readOnly |-> cmd \in {"release", "preflight"}]
  /\ UNCHANGED <<host, files, performed>>

\* __exit__ after an exception: only a read-only marker is taken away.
Fail ==
  /\ proc # NoProc /\ proc.pc # "wait"
  /\ proc' = NoProc
  /\ marker' = IF proc.pc \notin {"handoff", "supersede", "transfer"} /\ marker.readOnly
                 THEN NoMarker ELSE marker
  /\ UNCHANGED <<host, files, performed>>

\* The process is killed: the kernel frees its lock and the marker stays.
Crash ==
  /\ proc # NoProc /\ proc' = NoProc
  /\ UNCHANGED <<host, marker, files, performed>>

Return(r) ==
  /\ At(r, "return")
  /\ proc.cmd = "resume" /\ cp[r].stage = "complete" => Unchanged(r)
  /\ proc' = NoProc /\ marker' = NoMarker
  /\ UNCHANGED <<host, files, performed>>
--------------------------------------------------------------------------------
(* A recovery takes the target over from a failed release.                  *)

Records(f) == cp[f].effects \o IF Pending(f) THEN <<cp[f].pending>> ELSE <<>>

\* A pending effect is taken over only with its delivered success.
Settled(f) ==
  Pending(f) =>
    /\ cp[f].stage = "replace" /\ cp[f].pending.kind = "replace" /\ Submitted(f)
    /\ cp[f].pending.delivered /\ native.rel # f

PriorArtifact(f) ==
  IF cp[f].stage = "recovery-ready" /\ cp[f].accepted.image = cp[f].initial.image
    THEN Current[f] ELSE Wanted[f]

HandoffAllowed(r, f) ==
  /\ cp[f].stage \in {"replace", "verify", "receipt-ready", "complete", "recovery-ready"}
  /\ PriorArtifact(f) = Current[r]
  /\ marker # NoMarker => marker.owner = f \/ (marker.owner = r /\ handoff[r] # <<>>)
  /\ Settled(f) /\ Len(Records(f)) = 3
  /\ selector = Records(f)[2].result
  /\ IF cp[f].stage = "recovery-ready" THEN app = Records(f)[3].result
                                       ELSE app.image = Current[r]
  /\ app.id = Records(f)[3].result.id
  /\ Wanted[r] = Current[r] => ~app.running

\* handoff.json: written once, and the same for every later attempt.
WriteHandoff(r) ==
  /\ At(r, "handoff") /\ HandoffAllowed(r, FailedOf[r])
  /\ LET record == [failed |-> cp[FailedOf[r]], observed |-> app, selector |-> selector]
     IN  /\ handoff[r] \in {<<>>, <<record>>}
         /\ handoff' = [handoff EXCEPT ![r] = <<record>>]
  /\ Goto("supersede")
  /\ UNCHANGED <<host, marker, cp, receipt, superseded, performed>>

Supersede(r) ==
  /\ At(r, "supersede") /\ superseded[FailedOf[r]] \in {NoRelease, r}
  /\ superseded' = [superseded EXCEPT ![FailedOf[r]] = r]
  /\ Goto("transfer")
  /\ UNCHANGED <<host, marker, cp, receipt, handoff, performed>>

Transfer(r) ==
  /\ At(r, "transfer")
  /\ marker' = [owner |-> r, readOnly |-> FALSE] /\ Goto("begin")
  /\ UNCHANGED <<host, files, performed>>
--------------------------------------------------------------------------------
(* The beginning of an invocation.                                          *)

Preflight(r) ==
  /\ At(r, "begin") /\ proc.cmd = "preflight"
  /\ app.image = Current[r] /\ app.running /\ selector.image = Current[r]
  /\ Goto("return")
  /\ UNCHANGED <<host, marker, files, performed>>

FirstCheckpoint(r) ==
  /\ At(r, "begin") /\ proc.cmd \in {"release", "recover"} /\ cp[r] = NoCp
  /\ IF proc.cmd = "recover"
       THEN selector = handoff[r][1].selector
       ELSE /\ app.image = Current[r] /\ (app.running \/ FailedOf[r] # NoRelease)
            /\ selector.image = Current[r]
  /\ Save(r, [NoCp EXCEPT !.stage = "preflight", !.before = selector,
                          !.initial = IF proc.cmd = "recover" THEN handoff[r][1].observed ELSE app])
  /\ Goto("stage")
  /\ UNCHANGED <<host, marker, receipt, handoff, superseded, performed>>

Resuming(r) == At(r, "begin") /\ proc.cmd = "resume" /\ cp[r] # NoCp

\* attended_resolution: the operator vouches that no native command is left, and
\* says what the state it left behind is good for.
Attend(r) ==
  /\ Resuming(r)
  /\ cp[r].pending.kind = "replace" /\ Submitted(r) /\ ~cp[r].pending.delivered
  /\ native = NoNative /\ selector = cp[r].after
  /\ \E stage \in {"verify", "recovery-ready"} :
       /\ app.image \in {NoImage, Wanted[r]} \/ (stage = "recovery-ready" /\ app.image = Current[r])
       /\ Save(r, [cp[r] EXCEPT !.stage = stage, !.accepted = app, !.pending = NoPending,
                     !.effects = Append(@, [kind |-> "replace", result |-> app,
                                            status |-> "attended-effective-state"])])
  /\ Goto("stage")
  /\ UNCHANGED <<host, marker, receipt, handoff, superseded, performed>>
--------------------------------------------------------------------------------
(* resume_pending: what an interrupted process left behind.                 *)

Committing(r, result) ==
  Append(cp[r].effects, [kind |-> cp[r].pending.kind, result |-> result, status |-> "committed"])

\* An effect proven not to have been submitted: one retry, for all the stages.
ResumeRetry(r) ==
  /\ Resuming(r) /\ Pending(r) /\ ~Submitted(r) /\ ~cp[r].retried
  /\ RuntimePreimage(r)
  /\ selector = IF cp[r].pending.kind = "replace" THEN cp[r].after ELSE cp[r].before
  /\ Save(r, [cp[r] EXCEPT !.retried = TRUE, !.pending = NoPending])
  /\ Goto("stage")
  /\ UNCHANGED <<host, marker, receipt, handoff, superseded, performed>>

\* The selector arrived; the environment file may not have been written.
PersistArrived(r) ==
  /\ Resuming(r) /\ cp[r].pending.kind = "persist" /\ Submitted(r)
  /\ selector = Expected(r) /\ RuntimePreimage(r)

ResumeRuntime(r) ==
  /\ PersistArrived(r) /\ runtime # Wanted[r] /\ runtime' = Wanted[r]
  /\ UNCHANGED <<app, selector, dumps, native, proc, marker, files, performed>>

\* A bug for comparison with ResumePersist: the selector is all there is to persist.
ResumePersist_SelectorOnly(r) ==
  /\ PersistArrived(r)
  /\ Save(r, [cp[r] EXCEPT !.stage = "replace", !.after = selector, !.pending = NoPending,
                           !.effects = Committing(r, selector)])
  /\ Goto("stage")
  /\ UNCHANGED <<host, marker, receipt, handoff, superseded, performed>>

ResumePersist(r) ==
  /\ PersistArrived(r) /\ runtime = Wanted[r]
  /\ Save(r, [cp[r] EXCEPT !.stage = "replace", !.after = selector, !.pending = NoPending,
                           !.effects = Committing(r, selector)])
  /\ Goto("stage")
  /\ UNCHANGED <<host, marker, receipt, handoff, superseded, performed>>

\* reconcile_effect: only the recorded pair of success and exact postimage.
ResumeReplace(r) ==
  /\ Resuming(r) /\ cp[r].pending.kind = "replace" /\ Submitted(r)
  /\ cp[r].pending.delivered /\ app = cp[r].pending.result /\ app.image = Wanted[r]
  /\ selector = cp[r].after
  /\ Save(r, [cp[r] EXCEPT !.stage = "verify", !.accepted = app, !.pending = NoPending,
                           !.effects = Committing(r, app)])
  /\ Goto("stage")
  /\ UNCHANGED <<host, marker, receipt, handoff, superseded, performed>>

ResumeBackup(r) ==
  /\ Resuming(r) /\ cp[r].pending.kind = "recovery-point" /\ Submitted(r)
  /\ PreWrite(r, "recovery-point")
  /\ cp[r].pending.delivered /\ cp[r].pending.result \in dumps
  /\ Save(r, [cp[r] EXCEPT !.pending = NoPending,
                           !.effects = Committing(r, cp[r].pending.result)])
  /\ Goto("advance")
  /\ UNCHANGED <<host, marker, receipt, handoff, superseded, performed>>

\* The stage that follows the effects recorded so far.
NextStage(r) == Stages[Len(cp[r].effects) + 1]
Advanced(r) ==
  [cp[r] EXCEPT !.stage = NextStage(r),
                !.after = IF NextStage(r) = "replace" THEN cp[r].effects[2].result ELSE @,
                !.accepted = IF NextStage(r) = "verify" THEN cp[r].effects[3].result ELSE @]

\* The process died between the commit of an effect and its stage, or later.
ResumeAdvance(r) ==
  /\ Resuming(r) /\ ~Pending(r)
  /\ LET behind == cp[r].stage \in DOMAIN Effect /\ cp[r].stage # NextStage(r)
     IN  /\ behind => CASE NextStage(r) = "persist" -> PreWrite(r, "recovery-point")
                                                       /\ cp[r].effects[1].result \in dumps
                        [] NextStage(r) = "replace" -> RuntimePreimage(r)
                                                       /\ selector = cp[r].effects[2].result
                        [] OTHER -> Observe(r) /\ app = cp[r].effects[3].result
                                    /\ selector = cp[r].after
         /\ Save(r, IF behind THEN Advanced(r) ELSE cp[r])
  /\ Goto("stage")
  /\ UNCHANGED <<host, marker, receipt, handoff, superseded, performed>>
--------------------------------------------------------------------------------
(* An effect: intent, submission, the native operation, its outcome.        *)

Kind(r) == Effect[cp[r].stage]

\* A bug for comparison with Intend: the marker goes on calling the process read-only.
Intend_ReadOnly(r) ==
  /\ At(r, "stage") /\ cp[r].stage \in DOMAIN Effect
  /\ PreWrite(r, Kind(r))
  /\ Goto("intent")
  /\ UNCHANGED <<host, marker, files, performed>>

Intend(r) ==
  /\ At(r, "stage") /\ cp[r].stage \in DOMAIN Effect
  /\ PreWrite(r, Kind(r))
  /\ marker' = [owner |-> r, readOnly |-> FALSE] /\ Goto("intent")
  /\ UNCHANGED <<host, files, performed>>

SaveIntent(r) ==
  /\ At(r, "intent")
  /\ Save(r, [cp[r] EXCEPT !.pending = [NoPending EXCEPT !.kind = Kind(r), !.op = Op(r),
                                                         !.status = "proven-unsubmitted"]])
  /\ proc' = [proc EXCEPT !.pc = "mutate", !.step = 1]
  /\ UNCHANGED <<host, marker, receipt, handoff, superseded, performed>>

\* submission(call), up to the call.
Submit(r) ==
  /\ At(r, "mutate") /\ PreWrite(r, Kind(r))
  /\ Save(r, [cp[r] EXCEPT !.pending.status = "submitted-unknown"])
  /\ Goto("perform")
  /\ UNCHANGED <<host, marker, receipt, handoff, superseded, performed>>

Count(r, kind) == performed' = [performed EXCEPT ![r][kind] = @ + 1]

\* The archive is created; the dump, its upload and its readback follow.
CreateDump(r) ==
  /\ At(r, "perform") /\ Kind(r) = "recovery-point" /\ proc.step = 1
  /\ Count(r, "recovery-point")
  /\ proc' = [proc EXCEPT !.pc = "mutate", !.step = 2]
  /\ UNCHANGED <<host, marker, files>>

VerifyDump(r) ==
  /\ At(r, "perform") /\ Kind(r) = "recovery-point" /\ proc.step = 2
  /\ dumps' = dumps \cup {cp[r].pending.op} /\ Goto("result")
  /\ UNCHANGED <<app, selector, runtime, native, marker, files, performed>>

\* A native process is started: the put of the selector, or Compose.
Spawn(r) ==
  /\ At(r, "perform") /\ Kind(r) # "recovery-point" /\ proc.step = 1
  /\ native' = [rel |-> r, done |-> 0, alive |-> TRUE]
  /\ Count(r, Kind(r)) /\ Goto("wait")
  /\ UNCHANGED <<app, selector, runtime, dumps, marker, files>>

\* exec failed.  Only the first mutation of an effect proves it unsubmitted.
NotSubmitted(r) ==
  /\ At(r, "perform")
  /\ proc.step = IF Kind(r) = "recovery-point" THEN 2 ELSE 1
  /\ Save(r, [cp[r] EXCEPT !.pending.status = IF proc.step = 1 THEN "proven-unsubmitted" ELSE @])
  /\ Goto("failed")
  /\ UNCHANGED <<host, marker, receipt, handoff, superseded, performed>>

WriteRuntime(r) ==
  /\ At(r, "perform") /\ Kind(r) = "persist" /\ proc.step = 2
  /\ runtime' = Wanted[r] /\ Goto("result")
  /\ UNCHANGED <<app, selector, dumps, native, marker, files, performed>>

\* persist reads the selector back and goes on to the environment file.
ReadBack(r) ==
  /\ At(r, "result") /\ Kind(r) = "persist" /\ proc.step = 1
  /\ selector = Expected(r) /\ runtime # Wanted[r]
  /\ proc' = [proc EXCEPT !.pc = "mutate", !.step = 2]
  /\ UNCHANGED <<host, marker, files, performed>>

SaveResult(r) ==
  /\ At(r, "result")
  /\ LET deliver(result) == Save(r, [cp[r] EXCEPT !.pending.delivered = TRUE,
                                                  !.pending.result = result])
     IN  CASE Kind(r) = "recovery-point" -> deliver(cp[r].pending.op)
           [] Kind(r) = "persist" -> /\ selector = Expected(r) /\ runtime = Wanted[r]
                                     /\ deliver(selector)
           [] OTHER -> Observe(r) /\ app.id # cp[r].initial.id /\ deliver(app)
  /\ Goto("commit")
  /\ UNCHANGED <<host, marker, receipt, handoff, superseded, performed>>

Commit(r) ==
  /\ At(r, "commit")
  /\ Save(r, [cp[r] EXCEPT !.pending = NoPending,
                           !.effects = Committing(r, cp[r].pending.result)])
  /\ Goto("advance")
  /\ UNCHANGED <<host, marker, receipt, handoff, superseded, performed>>

Advance(r) ==
  /\ At(r, "advance") /\ Save(r, Advanced(r)) /\ Goto("stage")
  /\ UNCHANGED <<host, marker, receipt, handoff, superseded, performed>>
--------------------------------------------------------------------------------
(* The native command, which outlives the process that started it.          *)

NativeKind == Effect[cp[native.rel].stage]
Waited == proc.rel = native.rel /\ proc.pc = "wait"

\* A killed client leaves at most the request it had under way.
Continue == native' = IF native.alive THEN [native EXCEPT !.done = @ + 1] ELSE NoNative

\* put-secret-value takes effect; its reply may be lost.
PutLands ==
  /\ native # NoNative /\ NativeKind = "persist"
  /\ selector' = Expected(native.rel) /\ native' = NoNative
  /\ IF Waited THEN \E pc \in {"result", "failed"} : Goto(pc) ELSE UNCHANGED proc
  /\ UNCHANGED <<app, runtime, dumps, marker, files, performed>>

\* Compose stops the container, removes it, creates the new one and starts it.
ComposeStep ==
  /\ native # NoNative /\ NativeKind = "replace" /\ native.done < 4
  /\ app' = CASE native.done = 0 -> [app EXCEPT !.running = FALSE]
              [] native.done = 1 -> [Absent EXCEPT !.lapse = app.lapse]
              [] native.done = 2 -> [app EXCEPT !.id = native.rel, !.image = runtime]
              [] OTHER -> [app EXCEPT !.running = TRUE]
  /\ Continue
  /\ UNCHANGED <<selector, runtime, dumps, proc, marker, files, performed>>

ComposeSucceeds ==
  /\ native.alive /\ native.done = 4 /\ native' = NoNative
  /\ IF Waited THEN Goto("result") ELSE UNCHANGED proc
  /\ UNCHANGED <<app, selector, runtime, dumps, marker, files, performed>>

\* It exits with an error, or its last request came to nothing.
NativeFails ==
  /\ native # NoNative /\ native' = NoNative
  /\ IF Waited THEN Goto("failed") ELSE UNCHANGED proc
  /\ UNCHANGED <<app, selector, runtime, dumps, marker, files, performed>>

\* The deadline passes, or the process is told to stop: the client is killed.
NativeKilled ==
  /\ native.alive /\ Waited
  /\ native' = [native EXCEPT !.alive = FALSE] /\ Goto("failed")
  /\ UNCHANGED <<app, selector, runtime, dumps, marker, files, performed>>

\* The application dies; Docker starts it again, or gives up.
Lapse ==
  /\ app.running /\ app.lapse < MaxLapses
  /\ \E running \in BOOLEAN : app' = [app EXCEPT !.running = running, !.lapse = @ + 1]
  /\ UNCHANGED <<selector, runtime, dumps, native, proc, marker, files, performed>>
--------------------------------------------------------------------------------
(* Acceptance.                                                              *)

\* The first observation and journey of verify.
VerifyStart(r) ==
  /\ At(r, "stage") /\ cp[r].stage = "verify"
  /\ Observe(r) /\ app = cp[r].accepted
  /\ Goto("verify")
  /\ UNCHANGED <<host, marker, files, performed>>

\* The samples and the last readback; the receipt is bound before it is written.
VerifyEnd(r) ==
  /\ At(r, "verify") /\ Unchanged(r) /\ selector.image = Wanted[r]
  /\ Save(r, [cp[r] EXCEPT !.stage = "receipt-ready"])
  /\ Goto("receipt")
  /\ UNCHANGED <<host, marker, receipt, handoff, superseded, performed>>

WriteReceipt(r) ==
  /\ At(r, "receipt") /\ receipt' = receipt \cup {r} /\ Goto("receipted")
  /\ UNCHANGED <<host, marker, cp, handoff, superseded, performed>>

Complete(r) ==
  /\ At(r, "receipted") /\ Save(r, [cp[r] EXCEPT !.stage = "complete"]) /\ Goto("stage")
  /\ UNCHANGED <<host, marker, receipt, handoff, superseded, performed>>

\* Everything is read again before the receipt is returned.
Finish(r) ==
  /\ At(r, "stage") /\ cp[r].stage \in {"receipt-ready", "complete"}
  /\ Unchanged(r) /\ ReceiptFacts(r)
  /\ Save(r, [cp[r] EXCEPT !.stage = "complete"])
  /\ Goto("return")
  /\ UNCHANGED <<host, marker, receipt, handoff, superseded, performed>>

\* The operator chose to recover from the state: nothing is accepted.
RecoveryReady(r) ==
  /\ At(r, "stage") /\ cp[r].stage = "recovery-ready"
  /\ app = cp[r].accepted /\ selector = cp[r].after
  /\ Goto("return")
  /\ UNCHANGED <<host, marker, files, performed>>

Step(r) ==
  \/ Return(r) \/ WriteHandoff(r) \/ Supersede(r) \/ Transfer(r)
  \/ Preflight(r) \/ FirstCheckpoint(r) \/ Attend(r)
  \/ ResumeRetry(r) \/ ResumeRuntime(r) \/ ResumePersist(r) \/ ResumeReplace(r)
  \/ ResumeBackup(r) \/ ResumeAdvance(r)
  \/ Intend(r) \/ SaveIntent(r) \/ Submit(r) \/ CreateDump(r) \/ VerifyDump(r) \/ Spawn(r)
  \/ NotSubmitted(r) \/ WriteRuntime(r) \/ ReadBack(r) \/ SaveResult(r) \/ Commit(r) \/ Advance(r)
  \/ VerifyStart(r) \/ VerifyEnd(r) \/ WriteReceipt(r) \/ Complete(r) \/ Finish(r) \/ RecoveryReady(r)

Next ==
  \/ \E r \in Releases : Step(r)
  \/ \E r \in Releases, cmd \in {"preflight", "release", "resume", "recover"} : Lock(r, cmd)
  \/ Fail \/ Crash
  \/ PutLands \/ ComposeStep \/ ComposeSucceeds \/ NativeFails \/ NativeKilled \/ Lapse

Spec == Init /\ [][Next]_vars
--------------------------------------------------------------------------------
TypeOK ==
  /\ app \in Apps /\ selector \in Selectors /\ runtime \in Images
  /\ dumps \subseteq Ops
  /\ native \in [rel : Releases \cup {NoRelease}, done : 0 .. 4, alive : BOOLEAN]
  /\ proc.rel \in Releases \cup {NoRelease} /\ proc.step \in 0 .. 2
  /\ marker \in [owner : Releases \cup {NoRelease}, readOnly : BOOLEAN]
  /\ \A r \in Releases :
       /\ cp[r].pending \in Pendings
       /\ cp[r].initial \in Apps /\ cp[r].accepted \in Apps
       /\ cp[r].before \in Selectors /\ cp[r].after \in Selectors
       /\ Len(cp[r].effects) <= 3
       /\ \A i \in 1 .. Len(cp[r].effects) :
            cp[r].effects[i] \in Committed /\ cp[r].effects[i].kind = Effect[Stages[i]]
  /\ receipt \subseteq Releases
  /\ superseded \in [Releases -> Releases \cup {NoRelease}]

\* An effect reaches the host at most once, however often its release fails, is
\* killed and resumed (app_release.py:204 and resume_pending: only a proven
\* failure to start is retried).
EffectsNotReplayed == \A r \in Releases, k \in Kinds : performed[r][k] <= 1

\* The selector and the container are touched only when a whole recovery point
\* of the release is off the host, also after a resume that skipped the dump.
RecoveryPointFirst ==
  \A r \in Releases :
    performed[r]["persist"] + performed[r]["replace"] > 0 => \E op \in dumps : op.rel = r

\* Whoever finds a target with an effect that may have been submitted, or with a
\* native command still at work, finds a marker that names its release and calls
\* for its resume; TargetLock.intent writes it before the intent is saved.
MarkerCoversIntent ==
  \A r \in Releases :
    (Submitted(r) /\ superseded[r] = NoRelease) \/ native.rel = r =>
      marker = [owner |-> r, readOnly |-> FALSE]

\* A container that a release created runs the image that the release wanted:
\* Compose takes it from the environment file, which a crash may have left behind
\* the selector (persist_runtime_env and its call in resume_pending).
ReplacedWithWanted == \A r \in Releases : app.id = r => app.image = Wanted[r]

\* The host sees the effects of a release once, protected and as wanted.
EffectsSound == TypeOK /\ EffectsNotReplayed /\ RecoveryPointFirst /\ ReplacedWithWanted

\* A command that ends by reporting r as accepted.
Accepts(r) ==
  /\ At(r, "return") /\ cp[r].stage = "complete" /\ proc.cmd # "preflight"
  /\ proc' = NoProc /\ marker' = NoMarker /\ marker # NoMarker

\* What r installed is in place, its recovery point exists, nothing is pending.
InPlace(r) ==
  /\ app.image = Wanted[r] /\ selector.image = Wanted[r] /\ selector.version.rel = r
  /\ runtime = Wanted[r] /\ r \in receipt /\ ~Pending(r)
  /\ \E op \in dumps : op.rel = r

\* No recovery that superseded r is at work: one that had an effect had them all.
NotOvertaken(r) ==
  LET y == superseded[r]
  IN  y # NoRelease /\ (\E k \in Kinds : performed[y][k] > 0) => Len(Records(y)) = 3 /\ Settled(y)

\* A release is reported as accepted only while the selector, the environment
\* file and the container are what it installed, its recovery point exists and
\* nothing of it is pending, even when its receipt is of long ago.  Nor is it
\* accepted once a recovery took over and is at work, although superseded.json is
\* read before the lock is taken; a recovery that finished installed another
\* selector, unless it ran as a release before r did.
AcceptedIsInPlace == [][\A r \in Releases : Accepts(r) => InPlace(r) /\ NotOvertaken(r)]_vars

\* What app_release.py:181-184 promises of failures that had no native effect:
\* they do not strand the target.  A mutation marker left behind by a dead
\* process has an intent to reconcile, a checkpoint or a handoff.
DocumentedNoStranding ==
  proc = NoProc /\ marker # NoMarker /\ ~marker.readOnly =>
    cp[marker.owner] # NoCp \/ handoff[marker.owner] # <<>>
================================================================================
