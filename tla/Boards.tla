------------------------------- MODULE Boards -------------------------------
(***************************************************************************)
(* One collection from a board (internal/scraper): robots.txt of its hosts *)
(* with a verdict kept for a day, then the listing, page by page, tenant   *)
(* by tenant, or in one query, while the board itself changes.  A row of a *)
(* board is an identity and what the board's parser makes of it:           *)
(*   wanted   a posting for us          other  one its classifier drops    *)
(*   blank    a row without an id       bad    a row that does not decode  *)
(* Requests are spaced by Pacer; what becomes of a listing is Scrape.      *)
(***************************************************************************)
EXTENDS Integers, Sequences, FiniteSets, FiniteSetsExt, SequencesExt, Lists

CONSTANTS
  Kinds,            \* the scrapers of the instance, out of the six
  HostsOf,          \* HostsOf[k]: the hosts whose robots.txt it asks, in order
  RobotsFiles,      \* robots.txt files: lines [key, star] or [key, len]
  RobotsTTL,        \* ticks a verdict is kept, robotsTTL
  BoardRowIds,      \* identities of rows
  TenantOf,         \* TenantOf[r]: the tenant whose board has it
  Tenants,          \* tenants are 1 .. Tenants
  PageSize,         \* pageSize
  MaxListingPages,  \* maxListingPages
  ServerRows,       \* rows Demoday's server returns at most (206 when it cuts)
  Limits,           \* limits the callers pass; 0 is none
  MaxChanges        \* bound: changes of a board during a walk

Paged == {"jumpit", "rallit", "worknet"}
Whole == {"greenhouse", "demoday"}

ASSUME BoardsAssumption ==
  /\ Kinds \subseteq Paged \cup Whole \cup {"greeting"}
  /\ {RobotsTTL, Tenants, PageSize, MaxListingPages, ServerRows} \subseteq Nat \ {0}
  /\ MaxChanges \in Nat /\ Limits \subseteq Nat /\ 0 \in Limits /\ TenantOf \in [BoardRowIds -> 1 .. Tenants]
  /\ \A k \in Kinds : HostsOf[k] \in Seq(Range(HostsOf[k]))

VARIABLES
  kind,      \* the scraper
  stage,     \* idle, access, page
  verdict,   \* the cached verdict of each host: [says, left]
  asked,     \* (history) what each host last answered: [says, ago]
  hosts,     \* hosts still to check
  limit,     \* of the call
  shape,     \* what each row is
  board,     \* the rows the board shows, in its order
  page,      \* the page, or tenant, to fetch next
  all,       \* what has been collected
  ending,    \* of the last listing: none, ok, error
  walk       \* (history) of the last listing: [ever, always, moved, skipped, full, changes]

accessVars == <<verdict, asked, hosts>>
boardVars == <<kind, stage, accessVars, limit, shape, board, page, all, ending, walk>>

AllHosts == UNION {Range(HostsOf[k]) : k \in Kinds}
ShapesOf(k) ==
  CASE k = "jumpit"  -> {"wanted", "bad"}
    [] k = "rallit"  -> {"wanted", "blank", "bad"}
    [] k = "worknet" -> {"wanted", "blank"}
    [] OTHER         -> {"wanted", "other", "bad"}
NoWalk == [ever |-> {}, always |-> {}, moved |-> FALSE, skipped |-> {}, full |-> FALSE, changes |-> 0]

BoardsInit ==
  /\ kind \in Kinds /\ stage = "idle" /\ hosts = <<>> /\ limit = 0
  /\ verdict = [h \in AllHosts |-> [says |-> "nothing", left |-> 0]]
  /\ asked = [h \in AllHosts |-> [says |-> "nothing", ago |-> RobotsTTL]]
  /\ shape \in [BoardRowIds -> ShapesOf(kind)] /\ board = <<>> /\ page = 0
  /\ all = <<>> /\ ending = "none" /\ walk = NoWalk

-----------------------------------------------------------------------------
(* robots.txt.                                                             *)

\* The lines of a file that stand under "User-agent: *".
ForAll(f, j) ==
  \E a \in 1 .. j - 1 : /\ f[a].key = "agent" /\ f[a].star
                        /\ \A b \in a + 1 .. j - 1 : f[b].key # "agent"
LongestPrefix(f, key) == Max({0} \cup {f[j].len : j \in {i \in DOMAIN f : f[i].key = key /\ ForAll(f, i)}})
RobotsAllows(f) ==
  \/ LongestPrefix(f, "disallow") = 0
  \/ LongestPrefix(f, "allow") >= LongestPrefix(f, "disallow")

\* What a host answers: a file, another status than 200, or nothing at all.
Missing == <<"missing">>
Down    == <<"down">>
Answers == RobotsFiles \cup {Missing, Down}
Denies(a) == a \notin {Missing, Down} /\ ~RobotsAllows(a)

\* What is remembered of an answer.  A failed one counts as leave to go on;
\* Jumpit does not remember it.  Worknet's host has no policy: it stops the
\* day a file appears, whatever it says.
Lenient(a)        == IF Denies(a) THEN "denied" ELSE "allowed"
JumpitVerdict(a)  == IF a = Down THEN "nothing" ELSE Lenient(a)
WorknetVerdict(a) == IF a \in {Missing, Down} THEN "allowed" ELSE "denied"

\* A bug for comparison with Cached: a verdict is never asked for again.
Cached_Forever(h) == verdict[h].says # "nothing"
Cached(h) == verdict[h].says # "nothing" /\ verdict[h].left > 0

\* The call goes on with the next host, or ends with an error.
NextHost(says) ==
  IF says = "denied"
  THEN stage' = "idle" /\ hosts' = <<>> /\ ending' = "error" /\ limit' = 0
  ELSE hosts' = Tail(hosts) /\ UNCHANGED <<stage, ending, limit>>

UseVerdict ==
  /\ stage = "access" /\ hosts # <<>> /\ Cached(Head(hosts)) /\ NextHost(verdict[Head(hosts)].says)
  /\ UNCHANGED <<kind, verdict, asked, shape, board, page, all, walk>>

\* The host answers a, and says is remembered of it.
AskRobots(a, says) ==
  /\ stage = "access" /\ hosts # <<>> /\ ~Cached(Head(hosts))
  /\ verdict' = IF says = "nothing" THEN verdict
                ELSE [verdict EXCEPT ![Head(hosts)] = [says |-> says, left |-> RobotsTTL]]
  /\ asked' = [asked EXCEPT ![Head(hosts)] = [says |-> IF Denies(a) THEN "no" ELSE "yes", ago |-> 0]]
  /\ NextHost(says)
  /\ UNCHANGED <<kind, shape, board, page, all, walk>>

JumpitCheckAccess     == kind = "jumpit"     /\ \E a \in Answers : AskRobots(a, JumpitVerdict(a))
RallitCheckAccess     == kind = "rallit"     /\ \E a \in Answers : AskRobots(a, Lenient(a))
WorknetCheckAccess    == kind = "worknet"    /\ \E a \in Answers : AskRobots(a, WorknetVerdict(a))
GreenhouseCheckAccess == kind = "greenhouse" /\ \E a \in Answers : AskRobots(a, Lenient(a))
DemodayCheckAccess    == kind = "demoday"    /\ \E a \in Answers : AskRobots(a, Lenient(a))
GreetingCheckAccess   == kind = "greeting"   /\ \E a \in Answers : AskRobots(a, Lenient(a))

\* The runner checks access, then lists (server.go collect, cmd/capture).
BeginCollect(l) ==
  /\ stage = "idle" /\ stage' = "access" /\ hosts' = HostsOf[kind] /\ limit' = l
  /\ all' = <<>> /\ board' = <<>> /\ walk' = NoWalk /\ ending' = "none" /\ page' = 0
  /\ UNCHANGED <<kind, verdict, asked, shape>>

\* A day is long against a call: time passes between them.
BoardsTick ==
  /\ stage = "idle"
  /\ verdict' = [h \in AllHosts |-> [verdict[h] EXCEPT !.left = Max({@ - 1, 0})]]
  /\ asked' = [h \in AllHosts |-> [asked[h] EXCEPT !.ago = Min({@ + 1, RobotsTTL})]]
  /\ UNCHANGED <<kind, stage, hosts, limit, shape, board, page, all, ending, walk>>

-----------------------------------------------------------------------------
(* The listing.                                                            *)

TooLong(rows) ==
  \/ kind \in Paged /\ Len(rows) > PageSize * MaxListingPages
  \/ kind = "demoday" /\ Len(rows) > ServerRows
FirstRows == SubSeq(board, 1, Min({ServerRows, Len(board)}))

BeginListing ==
  /\ stage = "access" /\ hosts = <<>> /\ stage' = "page" /\ page' = 1
  /\ \E s \in SUBSET BoardRowIds :
       /\ IsFiniteSet(s) /\ board' = SetToSeq(s)
       /\ walk' = [NoWalk EXCEPT !.ever = s, !.always = s, !.full = TooLong(SetToSeq(s))]
  /\ UNCHANGED <<kind, accessVars, limit, shape, all, ending>>

Refused == <<"refused">>
Has(rows, s) == \E r \in Range(rows) : shape[r] = s
Wanted(rows) == EntriesKept(rows, {r \in BoardRowIds : shape[r] = "wanted"})

\* What a parser makes of an answer: all of it is refused, or some rows are kept.
JumpitParse(rows)     == IF Has(rows, "bad") THEN Refused ELSE rows
RallitParse(rows)     == IF Has(rows, "bad") THEN Refused ELSE Wanted(rows)
WorknetParse(rows)    == Wanted(rows)
GreenhouseParse(rows) == IF Has(rows, "bad") THEN Refused ELSE Wanted(rows)
DemodayParse(rows)    == IF Has(rows, "bad") THEN Refused ELSE Wanted(rows)
ParseBoard(rows)      == Wanted(rows)

EndListing(rows, how) == stage' = "idle" /\ all' = rows /\ ending' = how /\ page' = 0
LimitReached(rows) == limit > 0 /\ Len(rows) >= limit
Clamp(rows) == IF limit > 0 /\ Len(rows) > limit THEN SubSeq(rows, 1, limit) ELSE rows
GoOn(rows) == all' = rows /\ page' = page + 1 /\ UNCHANGED <<stage, ending>>

PageRows == SubSeq(board, (page - 1) * PageSize + 1, Min({page * PageSize, Len(board)}))
WalkPages(kept) ==
  LET got == all \o kept
  IN  IF kept = Refused THEN EndListing(<<>>, "error")
      ELSE IF LimitReached(got) \/ Len(kept) < PageSize \/ page = MaxListingPages
      THEN EndListing(Clamp(got), "ok")
      ELSE GoOn(got)
OneAnswer(kept) == IF kept = Refused THEN EndListing(<<>>, "error") ELSE EndListing(Clamp(kept), "ok")
NextTenant(kept) ==
  IF LimitReached(all \o kept) \/ page = Tenants
  THEN EndListing(Clamp(all \o kept), "ok") ELSE GoOn(all \o kept)

TenantRows == EntriesKept(board, {r \in BoardRowIds : TenantOf[r] = page})

Answered == stage = "page" /\ UNCHANGED <<kind, accessVars, limit, shape, board, walk>>
JumpitFetchListing     == kind = "jumpit"     /\ Answered /\ WalkPages(JumpitParse(PageRows))
RallitFetchListing     == kind = "rallit"     /\ Answered /\ WalkPages(RallitParse(PageRows))
WorknetFetchListing    == kind = "worknet"    /\ Answered /\ WalkPages(WorknetParse(PageRows))
GreenhouseFetchListing == kind = "greenhouse" /\ Answered /\ OneAnswer(GreenhouseParse(board))
DemodayFetchListing    == kind = "demoday"    /\ Answered /\ OneAnswer(DemodayParse(FirstRows))
GreetingFetchListing   ==
  /\ kind = "greeting" /\ Answered
  /\ NextTenant(ParseBoard(TenantRows))

\* A bug for comparison with FetchFailed: a walk that fails half-way returns what it has.
FetchFailed_Ends ==
  /\ stage = "page" /\ kind # "greeting" /\ EndListing(all, "ok")
  /\ UNCHANGED <<kind, accessVars, limit, shape, board, walk>>
\* No answer, another status, a page that does not parse: the error is the
\* call's, what was collected is dropped.
FetchFailed ==
  /\ stage = "page" /\ kind # "greeting" /\ EndListing(<<>>, "error")
  /\ UNCHANGED <<kind, accessVars, limit, shape, board, walk>>
\* One dead tenant does not sink the source.
TenantFailed ==
  /\ stage = "page" /\ kind = "greeting" /\ NextTenant(<<>>)
  /\ walk' = [walk EXCEPT !.skipped = @ \cup {page}]
  /\ UNCHANGED <<kind, accessVars, limit, shape, board>>

\* The board changes between two requests.
Changes(rows, moved) ==
  /\ stage = "page" /\ walk.changes < MaxChanges /\ board' = rows
  /\ walk' = [ever |-> walk.ever \cup Range(rows), always |-> walk.always \cap Range(rows),
              moved |-> walk.moved \/ moved, skipped |-> walk.skipped,
              full |-> walk.full \/ TooLong(rows), changes |-> walk.changes + 1]
  /\ UNCHANGED <<kind, stage, accessVars, limit, shape, page, all, ending>>
BoardWithout(r) == EntriesKept(board, BoardRowIds \ {r})
Publish(r)  == r \notin Range(board) /\ Changes(<<r>> \o board, FALSE)
Withdraw(r) == r \in Range(board) /\ Changes(BoardWithout(r), TRUE)
Promote(r)  == r \in Range(Tail(board)) /\ Changes(<<r>> \o BoardWithout(r), TRUE)

Access  == \/ JumpitCheckAccess \/ RallitCheckAccess \/ WorknetCheckAccess
           \/ GreenhouseCheckAccess \/ DemodayCheckAccess \/ GreetingCheckAccess
Listing == \/ JumpitFetchListing \/ RallitFetchListing \/ WorknetFetchListing
           \/ GreenhouseFetchListing \/ DemodayFetchListing \/ GreetingFetchListing

BoardsNext ==
  \/ \E l \in Limits : BeginCollect(l)
  \/ UseVerdict \/ Access \/ BeginListing \/ Listing \/ FetchFailed \/ TenantFailed \/ BoardsTick
  \/ \E r \in BoardRowIds : Publish(r) \/ Withdraw(r) \/ (board # <<>> /\ Promote(r))

BoardsSpec == BoardsInit /\ [][BoardsNext]_boardVars

-----------------------------------------------------------------------------
(* Properties.                                                             *)

BoardsTypeOK ==
  /\ kind \in Kinds /\ stage \in {"idle", "access", "page"} /\ limit \in Limits
  /\ verdict \in [AllHosts -> [says : {"nothing", "allowed", "denied"}, left : 0 .. RobotsTTL]]
  /\ asked \in [AllHosts -> [says : {"nothing", "yes", "no"}, ago : 0 .. RobotsTTL]]
  /\ Range(hosts) \subseteq AllHosts /\ Range(board) \subseteq BoardRowIds /\ Range(all) \subseteq BoardRowIds
  /\ shape \in [BoardRowIds -> ShapesOf(kind)] /\ page \in 0 .. Max({MaxListingPages, Tenants})
  /\ ending \in {"none", "ok", "error"} /\ IsInjective(board)

\* The rows a whole board should give.
Due == {r \in walk.always : shape[r] = "wanted" /\ TenantOf[r] \notin walk.skipped}
BlankSeen == \E r \in walk.ever : shape[r] = "blank"

\* What a successful listing holds is what the board showed while it was read.
\* A wanted row that was there all along is absent only for a limit, a tenant
\* that was skipped, a board longer than its cap, and, on a paged board, rows
\* that moved up past the reader or a blank row (dropped before the page is
\* measured, so its page looks like the last).  The stale sweep believes it.
ListingSound ==
  BoardsTypeOK /\ (ending = "ok" =>
    /\ \A r \in Range(all) : r \in walk.ever /\ shape[r] = "wanted"
    /\ limit > 0 => Len(all) <= limit
    /\ \/ limit > 0 \/ Due \subseteq Range(all)
       \/ walk.full
       \/ kind \in Paged /\ (walk.moved \/ BlankSeen))

\* No listing starts on a host that forbade it, or was last asked a day ago
\* (robotsTTL; checkAccess of each board).
AccessHonoured ==
  stage = "page" => \A h \in Range(HostsOf[kind]) : asked[h].says = "yes" /\ asked[h].ago < RobotsTTL

\* A collection is made only where it is allowed, and what it reports as a
\* success is a listing the stale sweep may believe (FetchListing, CheckAccess).
CollectionSound == ListingSound /\ AccessHonoured
=============================================================================
