----------------------------- MODULE PostingPage -----------------------------
(***************************************************************************)
(* One open page (web/posting-updates.js, createObserver): its event       *)
(* stream, its reads, and which views it lets replace the one it shows.    *)
(* The server is a register (PostingHub is how it keeps it): an epoch for  *)
(* the process, two revisions, a context token, and a version of the data  *)
(* they stand for.  Streams break, reads fail, the process restarts, the   *)
(* page is hidden and shown.  Time is the set of timers that are armed.    *)
(***************************************************************************)
EXTENDS Integers, Sequences, FiniteSets

CONSTANTS
  Contexts,      \* contexts of an account: profile and AI credential
  NoContext,     \* an empty context
  MaxWire,       \* bound: notices on the way; the server's slot merges more
  MaxRevision,   \* bound: user revisions of a process
  MaxChanges,    \* bound: changes of the data
  MaxFaults      \* bound: restarts, reads that fail, streams that break by themselves

ASSUME PageAssumption ==
  /\ NoContext \notin Contexts /\ Contexts # {}
  /\ MaxWire \in Nat \ {0} /\ {MaxRevision, MaxChanges, MaxFaults} \subseteq Nat

VARIABLES
  server,    \* [epoch, g, u, ctx, data]
  stream,    \* none, connecting, open, broken
  wire,      \* notices on the way to the page
  page,      \* on, off
  applied,   \* the view it shows, or Nothing
  admission, \* [epoch, context, locked, contextRevision, userRevision, retired, clock];
             \* clock (history): the process whose notice last raised userRevision
  want,      \* [dirty, forced, baseline]: the next read
  request,   \* the read under way: [forced, baseline, answer], or NoRequest
  timers,    \* of read, poll and reconnect, the armed ones
  faults,    \* faults so far
  announced  \* (history) the last context change a notice told of: [epoch, u, context,
             \* foreign]; foreign: measured by the clock of an earlier process

pageVars == <<server, stream, wire, page, applied, admission, want, request, timers, faults, announced>>
clientVars == <<applied, admission, want, request, timers, announced>>

Nothing   == [epoch |-> 0, g |-> 0, u |-> 0, ctx |-> NoContext, data |-> -1]
NoRequest == [answer |-> "no request"]
Unserved  == [epoch |-> -1]
Calm      == [dirty |-> FALSE, forced |-> FALSE, baseline |-> FALSE]
Unknown   == [epoch |-> 0, context |-> NoContext, locked |-> FALSE,
              contextRevision |-> 0, userRevision |-> 0, retired |-> 0, clock |-> 0]
Unannounced == [epoch |-> 0, u |-> 0, context |-> NoContext, foreign |-> FALSE]

\* A process salts its tokens: the same context of another process is another token.
Token(e, c) == <<e, c>>

PageInit ==
  /\ server = [epoch |-> 1, g |-> 0, u |-> 1, ctx |-> Token(1, CHOOSE c \in Contexts : TRUE), data |-> 0]
  /\ stream = "none" /\ wire = <<>> /\ page = "off"
  /\ applied = Nothing /\ admission = Unknown /\ want = Calm /\ request = NoRequest
  /\ timers = {} /\ faults = 0 /\ announced = Unannounced

-----------------------------------------------------------------------------
(* The server.                                                             *)

Coalesced(old, n) ==
  [n EXCEPT !.context = IF n.context = NoContext /\ ~n.changed THEN old.context ELSE n.context,
            !.changed = n.changed \/ old.changed, !.resync = TRUE,
            !.u = IF n.u > old.u THEN n.u ELSE old.u]

Publish(n) ==
  wire' = IF stream # "open" THEN wire
          ELSE IF Len(wire) < MaxWire THEN Append(wire, n)
          ELSE [wire EXCEPT ![MaxWire] = Coalesced(@, n)]

Plain(u) == [epoch |-> server.epoch, u |-> u, context |-> NoContext, changed |-> FALSE, resync |-> FALSE]

Change(s) ==
  /\ server.data < MaxChanges /\ server' = [s EXCEPT !.data = @ + 1]
  /\ UNCHANGED <<stream, page, clientVars, faults>>

WriteGlobal == Change([server EXCEPT !.g = @ + 1]) /\ Publish(Plain(0))
WriteUser ==
  /\ server.u < MaxRevision /\ Change([server EXCEPT !.u = @ + 1])
  /\ Publish(Plain(server.u + 1))
\* The token is empty when reading the new context back failed.
WriteContext(c) ==
  /\ server.u < MaxRevision
  /\ Change([server EXCEPT !.u = @ + 1, !.ctx = Token(server.epoch, c)])
  /\ \E t \in {NoContext, Token(server.epoch, c)} :
       Publish([Plain(server.u + 1) EXCEPT !.context = t, !.changed = TRUE, !.resync = TRUE])

Fault == faults < MaxFaults /\ faults' = faults + 1
\* An operator's command writes past the server.
WriteQuietly(c) ==
  /\ Fault /\ server' = [server EXCEPT !.ctx = Token(server.epoch, c)]
  /\ UNCHANGED <<stream, wire, page, clientVars>>

\* A process that dies takes its connections along.
Restart ==
  /\ Fault /\ server' = [server EXCEPT !.epoch = @ + 1, !.g = 0, !.u = 1, !.ctx = Token(server.epoch + 1, @[2])]
  /\ stream' = (IF stream = "none" THEN "none" ELSE "broken") /\ wire' = <<>>
  /\ UNCHANGED <<page, clientVars>>

\* Without a record of the account the cursor is the clock, later than any before.
Cursor(fresh) == IF fresh THEN server.u + 1 ELSE server.u

\* A read that reaches the server is answered from one snapshot.
Serve(fresh) ==
  /\ request # NoRequest /\ request.answer = Unserved
  /\ fresh => stream # "open" /\ server.u < MaxRevision
  /\ server' = [server EXCEPT !.u = Cursor(fresh)]
  /\ request' = [request EXCEPT !.answer = server']
  /\ UNCHANGED <<stream, wire, page, applied, admission, want, timers, faults, announced>>

-----------------------------------------------------------------------------
(* The page: what several handlers do.                                     *)

\* schedule: a read is due when the page is on, none is under way, and none is due.
Scheduled(armed, rq) == IF rq = NoRequest THEN armed \cup {"read"} ELSE armed
Dirty(force)    == [want EXCEPT !.dirty = TRUE, !.forced = @ \/ force]
DirtyBaseline   == [dirty |-> TRUE, forced |-> TRUE, baseline |-> TRUE]

\* force: a read that may establish a new baseline.
ForceRead(armed) == want' = DirtyBaseline /\ timers' = Scheduled(armed, request) /\ UNCHANGED request

Pause == stream' = "none" /\ wire' = <<>> /\ request' = NoRequest /\ timers' = {}

\* A bug for comparison with Release: nothing is armed in the place of a failed read.
Release_NoPoll(armed) == request' = NoRequest /\ timers' = armed
\* fail: the read is over; a poll is armed in its place.
Release(armed) == request' = NoRequest /\ timers' = armed \cup {"poll"}

-----------------------------------------------------------------------------
(* Showing, hiding, and the stream.                                        *)

\* resume: a new owner starts without authority, but keeps what it shows.
Show ==
  /\ page = "off" /\ page' = "on" /\ stream' = "connecting"
  /\ admission' = [admission EXCEPT !.epoch = 0, !.context = NoContext, !.locked = FALSE]
  /\ ForceRead({}) /\ UNCHANGED <<server, wire, applied, faults, announced>>
Hide ==
  /\ page = "on" /\ page' = "off" /\ Pause
  /\ UNCHANGED <<server, applied, admission, want, faults, announced>>

\* The stream is admitted; its first notice says where the server stands.
OpenStream(fresh) ==
  /\ stream = "connecting" /\ stream' = "open"
  /\ fresh => server.u < MaxRevision
  /\ server' = [server EXCEPT !.u = Cursor(fresh)]
  /\ wire' = <<[Plain(server'.u) EXCEPT !.context = server.ctx, !.resync = TRUE]>>
  /\ ForceRead(timers) /\ UNCHANGED <<page, applied, admission, faults, announced>>
\* An error: a refused or lost stream.  The browser's own reconnect is disabled.
StreamError ==
  /\ stream # "none" /\ stream' = "none" /\ wire' = <<>>
  /\ IF stream = "broken" THEN UNCHANGED faults ELSE Fault
  /\ ForceRead(timers \cup {"poll", "reconnect"})
  /\ UNCHANGED <<server, page, applied, admission, announced>>
Reconnect ==
  /\ "reconnect" \in timers /\ timers' = timers \ {"reconnect"}
  /\ stream' = IF stream = "none" THEN "connecting" ELSE stream
  /\ UNCHANGED <<server, wire, page, applied, admission, want, request, faults, announced>>

Poll == /\ "poll" \in timers /\ ForceRead(timers \ {"poll"})
        /\ UNCHANGED <<server, stream, wire, page, applied, admission, faults, announced>>
\* Every thirty seconds, and when the user asks or the page is shown again.
Periodic == /\ page = "on" /\ ForceRead(timers)
            /\ UNCHANGED <<server, stream, wire, page, applied, admission, faults, announced>>

-----------------------------------------------------------------------------
(* A notice.                                                               *)

\* A context the page already knows of or has passed.
Obsolete(n) ==
  /\ admission.epoch = n.epoch
  /\ \/ n.u < admission.userRevision \/ n.u <= admission.contextRevision
     \/ applied.epoch = n.epoch /\ n.u <= applied.u
Effective(n) == IF Obsolete(n) THEN [n EXCEPT !.context = NoContext, !.changed = FALSE] ELSE n

\* A bug for comparison with Supersedes: a change to an unknown context is none.
Supersedes_KnownOnly(n) ==
  \/ admission.epoch \notin {0, n.epoch}
  \/ NoContext \notin {n.context, admission.context} /\ n.context # admission.context
\* The notice, as far as it counts, changes the context or the process.
Supersedes(n) ==
  \/ n.changed
  \/ admission.epoch \notin {0, n.epoch}
  \/ NoContext \notin {n.context, admission.context} /\ n.context # admission.context

Authority(n) ==
  LET known == IF admission.epoch = n.epoch THEN admission
               ELSE [Unknown EXCEPT !.epoch = n.epoch, !.locked = admission.locked, !.clock = n.epoch,
                       !.retired = IF admission.epoch # 0 THEN admission.epoch ELSE admission.retired]
  IN  [known EXCEPT
         !.context = IF n.context # NoContext \/ n.changed THEN n.context ELSE @,
         !.locked = IF n.context # NoContext THEN TRUE ELSE IF n.changed THEN FALSE ELSE @,
         !.contextRevision = IF Supersedes(n) \/ n.context # NoContext THEN n.u ELSE @,
         !.clock = IF n.u > known.userRevision THEN n.epoch ELSE @,
         !.userRevision = IF n.u > @ THEN n.u ELSE @]

Hint ==
  LET told == Head(wire)
      n    == Effective(told)
      rq   == IF Supersedes(n) THEN NoRequest ELSE request
  IN  /\ stream = "open" /\ wire # <<>> /\ wire' = Tail(wire)
      /\ announced' = IF told.changed
                      THEN [epoch |-> told.epoch, u |-> told.u, context |-> told.context,
                            foreign |-> admission.epoch = told.epoch /\ admission.clock # told.epoch]
                      ELSE announced
      /\ IF told.epoch = admission.retired THEN UNCHANGED <<admission, want, request, timers>>
         ELSE /\ admission' = Authority(n) /\ request' = rq
              /\ want' = [Dirty(n.resync \/ Supersedes(n)) EXCEPT !.baseline = @ /\ ~Supersedes(n)]
              /\ timers' = Scheduled(timers, rq)
      /\ UNCHANGED <<server, stream, page, applied, faults>>

-----------------------------------------------------------------------------
(* A read.                                                                 *)

Read ==
  /\ "read" \in timers /\ timers' = timers \ {"read"}
  /\ IF request # NoRequest THEN UNCHANGED <<want, request>>
     ELSE /\ request' = [forced |-> want.forced, baseline |-> want.baseline, answer |-> Unserved]
          /\ want' = Calm
  /\ UNCHANGED <<server, stream, wire, page, applied, admission, faults, announced>>

ViewAdmission(v, rq) ==
  /\ v.epoch # admission.retired
  /\ v.epoch \in {0, admission.epoch} \/ admission.epoch = 0 \/ rq.forced
  /\ applied.epoch \in {0, v.epoch} \/ rq.forced
  /\ admission.context \in {NoContext, v.ctx}
     \/ /\ rq.forced
        /\ admission.locked => rq.baseline /\ v.u >= admission.contextRevision
  /\ applied.epoch = v.epoch => v.g >= applied.g /\ v.u >= applied.u

Apply ==
  /\ request # NoRequest /\ request.answer # Unserved /\ ViewAdmission(request.answer, request)
  /\ applied' = request.answer
  /\ admission' = [admission EXCEPT !.epoch = request.answer.epoch, !.context = request.answer.ctx, !.locked = FALSE,
                     !.retired = IF applied.epoch \notin {0, request.answer.epoch} THEN applied.epoch ELSE @]
  /\ request' = NoRequest
  /\ timers' = timers \cup (IF want.dirty THEN {"read"} ELSE {}) \cup (IF stream = "none" THEN {"poll"} ELSE {})
  /\ UNCHANGED <<server, stream, wire, page, want, faults, announced>>

\* The view is not admitted.
RejectView ==
  /\ request # NoRequest /\ request.answer # Unserved /\ ~ViewAdmission(request.answer, request)
  /\ Release(timers)
  /\ UNCHANGED <<server, stream, wire, page, applied, admission, want, faults, announced>>
\* No answer in time, a refusal, an answer that is not a view.
FailRead ==
  /\ request # NoRequest /\ Fault /\ Release(timers)
  /\ UNCHANGED <<server, stream, wire, page, applied, admission, want, announced>>

\* The session is over: the page gives up, and the next one is loaded anew.
SignOut ==
  /\ request # NoRequest /\ page' = "off" /\ Pause
  /\ applied' = Nothing /\ admission' = Unknown /\ want' = Calm
  /\ UNCHANGED <<server, faults, announced>>

PageNext ==
  \/ WriteGlobal \/ WriteUser
  \/ \E c \in Contexts : WriteContext(c) \/ WriteQuietly(c)
  \/ \E fresh \in BOOLEAN : OpenStream(fresh) \/ Serve(fresh)
  \/ Restart \/ Show \/ Hide \/ StreamError \/ Reconnect \/ Poll \/ Periodic
  \/ Hint \/ Read \/ Apply \/ RejectView \/ FailRead \/ SignOut

PageSpec == PageInit /\ [][PageNext]_pageVars

-----------------------------------------------------------------------------
(* Properties.                                                             *)

PageTypeOK ==
  /\ server.data \in 0 .. MaxChanges /\ server.epoch \in 1 .. MaxFaults + 1 /\ Len(wire) <= MaxWire
  /\ stream \in {"none", "connecting", "open", "broken"} /\ page \in {"on", "off"}
  /\ timers \subseteq {"read", "poll", "reconnect"}
  /\ page = "off" => stream = "none" /\ wire = <<>> /\ request = NoRequest /\ timers = {}

\* What the page shows is not what the server would answer now.
Behind == applied.epoch # server.epoch \/ applied.data # server.data
\* v is older than the change of context the page was told of, and of another context.
Contradicts(v) == v.epoch = announced.epoch /\ v.u < announced.u /\ v.ctx # announced.context
Rereads == request # NoRequest \/ timers \cap {"read", "poll"} # {}

\* The page is never left with an old view: while it is behind, or shows a view
\* from before a change of context it was told of, a read or a notice is still to
\* come, whatever was cancelled, refused or lost; and a read of the present state
\* would be admitted as soon as the stream is open and its notices are heard
\* (posting-updates.js fail, hint and the baseline rule of viewAdmission).
NeverStranded ==
  page = "on" =>
    /\ Behind => Rereads \/ wire # <<>> \/ stream \in {"broken", "connecting"}
    /\ Contradicts(applied) => Rereads
    /\ stream = "open" /\ wire = <<>> => ViewAdmission(server, [forced |-> TRUE, baseline |-> TRUE])

PageSound == PageTypeOK /\ NeverStranded

\* The page never goes back to an earlier process, and no read that was under way
\* when a notice announced a change of context is shown after it
\* (docs/architecture.md "Context-triggered reads remain fenced to the announced
\* context").  Excepted is a page that a read, and not a notice, took to a new
\* process: it still measures the notices by the clock of the old one.
NoticesBind ==
  [][applied' \notin {applied, Nothing} =>
       /\ applied'.epoch >= applied.epoch
       /\ Contradicts(applied') => announced.foreign]_pageVars
=============================================================================
