# ScheduleUp: a verification development

ScheduleUp lets people post when they are free, form teams, and see when all of
a team is free. This directory holds TLA+ models of its servers, the TLC
configurations that check them, and proofs checked by TLAPS; its web client and
its deployment are modelled too. Paths below are
relative to `src/`.

## 1. The system

| Part | Code | State | Operations | Talks to |
| --- | --- | --- | --- | --- |
| web client | `441-clients/src` | `localStorage.Authorization`, React state | sign up, in, out, profile, schedule, teams | gateway, by fetch |
| gateway, own endpoints | `servers/gateway/handlers/auth.go`, `models/users` | MySQL tables Users, LoginAttempts | POST users, GET/PATCH users/{id}, POST sessions, DELETE sessions/mine | MySQL, session store |
| session stores | `servers/gateway/sessions` | a state per session id, with a time to live | Save, Get, Delete | Redis, or a go-cache in memory |
| reverse proxy | `servers/gateway/directors` | a counter and a mutex | choose a target, set `X-User` | session store, MySQL, schedules service |
| schedules service | `servers/schedules/src` | one global variable `i`, handlers between awaits, updates in flight | POST and GET of schedules, teams, members | MongoDB |
| MongoDB | `schemas.js` | collections UserSchedules and Teams, each with a unique index | queries, single-document updates | |
| deployment | `*/scripts/*.sh`, `servers/mongodb` | containers | remove and run again | all of them |

A request for schedules or teams passes the gateway's proxy, which looks the
session up, fetches its user from MySQL and forwards the request with the user
in the header `X-User`. The schedules service trusts that header.

### Where it is hard

* **Schedules service.** A handler is a chain of awaited queries and ends with
  updates that are not awaited. Other handlers run at every await. What a
  handler read first it writes back last: the members of a team
  (`teamMembersHandler.js:141`), a team's schedule (`:132`, `scheduleHandler.js:148`),
  a user's days (`scheduleHandler.js:162`). The loop variable of three loops is
  one global. A rejected query or a thrown exception ends the process
  (`index.js:32-36`), with updates in flight.
* **Gateway.** Each request is a goroutine. Calls fail before or after they were
  executed; the handlers ignore some errors, test some too late, and answer
  nothing after others. Unique indexes decide races of sign-ups. A sign-out races
  the requests of its session. A deployment replaces MySQL and Redis.
* **Session stores.** Get renews the session, by two commands or two calls, with
  a deletion in between.
* **Web client.** Event handlers await fetches and then write React state, which
  the user has changed meanwhile. The token is kept twice, in the state of a tab
  and in the localStorage of all tabs. Fetches for two teams are answered in
  either order. Hours are converted between zones by way of one fixed date.
* **Deployment.** MySQL and Redis begin anew with the gateway, MongoDB with a
  script of its own, without the unique indexes, which are made when the schedules
  service starts; documents name accounts by id and by email, and some queries use
  one, some the other.
* **Proxy.** A mutex held across two remote calls, panics while it is held, and a
  counter of 32 bits.

### What makes each part correct

* Schedules: a team is shown only times every member posted; nothing acknowledged
  is lost; the flag of an entry agrees with its window; the creator stays first;
  members have posted; one window per user and day; every request is answered;
  the service is atomic when requests do not overlap.
* Accounts: emails and user names are unique; a session is of the account it was
  begun for; a profile changes at its owner's request only; a sign-out is final;
  an acknowledged account stands; success means a session; every request is
  answered.
* Session stores: each call takes effect at one instant; a deleted session is
  gone; a session in use is live.
* Web client: the user shown owns the token sent; a tab comes to rest signed in or
  signed out; what is on the page is of the team selected and holds what was
  acknowledged; the hours read are the hours meant, on the reader's clock.
* Deployment: a person is shown their own days and teams and no other's, as long as
  the accounts exist that documents name; what was posted stays where it was put,
  whoever has the id by then.
* Proxy: requests are forwarded as their owner or nobody; targets take turns;
  no request is stuck or dropped.

`PROJECT.json` lists every component with its status, and under `hazards` each
place where the code can go wrong in a way a test would hardly reach, with the
properties that watch it.

## 2. The modules

Schedules:

* `Availability` - the pure part: `needsUpdate`, `windowIsValid`, the bodies of
  the loops over a team's schedule. A time is a natural number in a small set; an
  entry is a record. Times come as ISO strings or as numbers: the comparison of
  a string with a stored date is false whatever the times are, and this is what
  `NeedsUpdate` does with the format `iso` (`scheduleHandler.js:3-8`).
* `ScheduleStore` - the two collections and what must hold of them.
* `AtomicSchedules` - the abstract specification: one step per request.
* `ScheduleService` - the handlers as they run. One action per stretch between
  two awaits (`MemberFindTeam`, `MemberUseAddedDay`, ...); `writes` holds the
  updates sent and not executed; `gi` is the global `i`; `Crash`, `Restart`,
  `WriteFails` and `WriteLost` are the faults. A query and the stretch after it
  are one step where the stretch touches no shared memory, two where it does.
* `Weights` - the prototype `dev/weights/weights.js`: a count per hour.
* `TimeZones` - extends `AtomicSchedules` by what the page does to hours:
  `toMongoDate` and `toClientDate`, an instant being counted in hours from
  1997-12-31T00:00Z. `meant` remembers what users chose in the form. Here the
  windows are also compared with `Weights`.
* `AtomicSchedulesProofs` - the theorems about it, after the lemmas about the
  operators of `Availability` and `ScheduleStore` that the next two cite as well;
  `ScheduleServiceProofs`, `TimeZonesProofs` - the theorems about those.

Gateway:

* `Gateway` - `auth.go` with the packages it calls. One action per call on
  MySQL or on the session store, with the code up to the next call. `users` is
  the table by ID, `nextID` its auto_increment, `sessions` the store. A request
  with a method its path does not have is of type `other`: three of the handlers
  answer 405 at once, SpecificUsersHandler after it has looked up the session.
* `SessionStore` - the promise of the interface `Store`: a call takes effect at
  one step between invocation and return. This is why a call is one step in
  `Gateway` and `Director`.
* `SessionTimes` - what the two stores share of time: a time to live per
  session, and clients' clocks as history.
* `RedisStore` - the store in use, EXPIRE and GET apart; implements
  `SessionStore` under the mapping `AbstractCall`.
* `MemStore` - the in-process store, which does not.
* `SessionStores` - the two under the same callers and clock; `kind` says which of
  them the gateway was given.
* `Director` - the reverse proxy's director. `Half` is half the number of values
  its counter can have, 2^31 in the code; the width is given so because the
  provers know nothing of powers.
* `GatewayProofs` - the theorems about `Gateway` and, in its second half, about
  the session stores below it; `DirectorProofs` - those about the proxy.

Client:

* `WebClient` - App and what is below Auth and Main, in several tabs of one
  browser. An event handler that fetches is a job: `Begin` sends, `Grant` and
  `Refuse` are the gateway's step, `StartUpDone`, `SignInDone`, `SignOutDone` and
  `UpdateDone` the code after the await (`SignInDone` has two stretches: the
  header, then the body). `Load` ends the jobs of the tab. SignIn and SignUp have
  the same code and are one action; so are their pages.
* `TeamView` - MainPageContent: what is shown, and fetches and posts in flight.
  `Answer` is the service's step, `Use` the page's. `Remount` is a new instance of
  the component.
* `WebClientProofs`, `TeamViewProofs` - the theorems.

Deployment:

* `Deployment` - the accounts of the gateway composed with the two collections: a
  handler is one step, which `AtomicSchedules` justifies for requests that do not
  overlap, and what matters is by which of id and email it looks. `SignUp` gives
  any id above those in use, since a refused sign-up uses one up. `DeployGateway`
  and `DeployMongo` begin anew; after the latter emails are not indexed as unique
  (`indexed`) until `DeploySchedules` starts the service again. `posted` remembers
  each posting with the id it was made under. In `ScheduleService` MongoDB is not
  replaced, so there the indexes are always present.
* `DeploymentProofs` - the theorems.

`MCScheduleService`, `MCGateway`, `MCDirector` hold the workloads of the runs,
`MCTimeZones` the zones, and `MCWebClient`, `MCTeamView` and `MCDeployment` the
symmetries. The session stores need no such module: their cfg gives every
constant. A workload is a set of requests, each received at most once, in any
order and overlap; the same request sent twice is two with different ids. In
`Gateway` and `ScheduleService` the constant is a set of such sets, `Mixes`: a
behaviour takes the requests of one of them.

An operator with the comment *Mutant* is a variation of the definition after it
that a plausible mistake would make; nothing uses it. It documents which
property would notice.

### From code to model

| Code | Model |
| --- | --- |
| an `await` of Mongoose | the end of an action; the continuation is the next |
| `findOneAndUpdate` with a callback | an element of `writes`, executed by `WriteLands`, the callback included |
| unique index | `Duplicate` |
| uncaught rejection | `Die`: all handlers in the process end |
| `http.Error`, `WriteHeader` | `Answer(r, status)` |
| return without a status | `Answer(r, 200)`: what net/http sends |
| panic in a handler | `Drop` |
| a handler ended by a deployment | the stage `cutOff` |
| error of a call | `Fails`, with the call executed or not |
| session id | the id of the request it was made for |
| `await fetch` in the client | a job, fetch or post in a set of those in flight |
| `setState` outside a React event | takes effect at once |
| a fetch, or the reading of its body, that is rejected | `Reject`, `Fail`, `Lost`: the handler ends, nothing is caught |
| `localStorage.setItem("Authorization", null)` | `Null`, the text "null" |
| moment's `local()` on 1998-01-01 | the constant `Winter` |
| bcrypt, HMAC, crypto/rand | passwords are compared, session ids are unforgeable model values |

## 3. The runs

Passing runs:

| Run | Question | Bounds |
| --- | --- | --- |
| `time_zones` | do the handlers' computations keep availability sound when nothing overlaps, are windows what the weights would be, and are hours true on every clock? | 3 users, two of them in Seattle and one in Tokyo, 2 days, 4 hours of the day, 1 team, 4 windows posted |
| `schedule_overlaps` | which invariants survive any overlap, one failed update or crash; do the unique indexes decide races of creation; is every request answered? | six mixes of 3 or 4 requests, 3 in flight, 1 fault |
| `schedule_serial` | without overlap, is the service `AtomicSchedules`, and is all that was acknowledged kept? | 9 requests in every order, 1 in flight |
| `gateway` | unique accounts that stand, sessions of their own account, final sign-outs, profiles changed by their owners, an answer for every request | three mixes of 4, 6 and 10 overlapping requests, 1 fault, 1 deployment, sessions expire at will |
| `session_stores` | does Redis' store implement the abstract one, do both keep sessions in use, does Redis' forget deleted ones? | 2 clients, 2 sessions, unbounded calls, a duration of 2 ticks |
| `director` | owner's name or nobody's, targets in turn, the mutex always given back | 5 requests, 3 targets, a counter of 8 values (`Half = 4`), 1 fault |
| `web_client` | is the user shown the owner of the token, and does a tab come to rest signed in or signed out? | 2 tabs, 2 jobs in flight, 2 accounts, 2 sessions, 1 fault, unbounded clicks and reloads |
| `team_view` | is what is shown the selected team's, and all that was acknowledged? | 2 teams, 1 day, 1 person to add, 1 post and 3 fetches in flight, 1 fault, unbounded selections |
| `deployment` | does everybody see their own days and teams, and does each posting stay what its id posted? | 3 people, 1 team, 2 days, ids up to 4, 2 deployments that begin anew, the schedules service started again at will |

Runs that end with a counterexample, each a disagreement of the code with a line
of its documentation, its comments or its messages (`findings` in
`PROJECT.json` quotes the lines):

| Run | What happens |
| --- | --- |
| `race_false_availability` | two overlapping additions: the schedule ignores one member |
| `race_global_index` | the global `i` runs past the array and the process ends |
| `time_zone_summer` | in summer a member reads hours that are an hour off what another said |

Other disagreements are part of the models, which show them when asked for, and
have no run of their own. The passing properties name them as exceptions:

* Two overlapping additions can undo the one acknowledged first
  (`teamMembersHandler.js:141`), two overlapping days likewise
  (`scheduleHandler.js:162`), and one day posted twice together is stored twice
  (`scheduleHandler.js:60`): `AckedMemberKept`, `AckedDayKept` for a user with a
  schedule, and `OneWindowPerDay` are checked in `schedule_serial` only.
  `OverlapAckedMemberKept`, `OverlapAckedDayKept` and `OverlapOneWindowPerDay`
  (section 4) say that no other overlap does such harm.
* A day that all members posted, with time in common, may never be shown: a team
  gets a new day only while its creator is alone (`scheduleHandler.js:141`), and
  an entry closed by a member who had not posted the day stays closed when that
  member does. README.md:18 promises all common times. `WindowsAreWeights` is
  about the entries that are shown.
* A Get of `MemStore` that overlaps a Delete puts the deleted session back
  (`memstore.go:43`): `EndedIsGone` is claimed of Redis only. The gateway's main
  uses Redis.
* Once the proxy's counter has wrapped around, its remainder by two or more
  targets is negative, and from then on every request panics (`directors.go:51`):
  an exception of `EveryRequestForwarded`.
* After the gateway was deployed anew, documents name accounts that are gone, and
  a new user with an old id posts into them: `orphaned`, an exception of the two
  properties of what is shown.
* Sign-out sends no Authorization (`SignOutButton.js:12`), so the gateway ends no
  session, and the one the user meant lives on until it expires.
* A request begun in a tab before the one before it is answered can leave the tab
  between signed in and signed out, or with another user's token; so can an update
  with a session another tab has stored, and a start-up or a sign-in whose answer
  brings no user, the latter after its token was stored (`SignIn.js:75`). A reload
  heals it: `disturbed`, an exception of the properties of `WebClient`.
* Of two fetches of a kind the page shows the answer that comes last, not the one
  it asked for last: `stale`, an exception of the properties of `TeamView`. The
  availability shown is not fetched again after an addition
  (`MainPageContent.js:298`), and the members of the last team stay when none is
  selected.
* "Forgot password" fetches from an address that is not configured
  (`ForgotPassword.js:23`).
* An addition to an unknown team ends the process (`teamMembersHandler.js:27`);
  line 23 means to answer 404.
* When a session cannot be saved, sign-up and sign-in return without a status,
  which is sent as 200 (`auth.go:67-70`, `:221-224`).
* The error of a sign-out is dropped (`auth.go:249`): `SignedOutStaysOut` says
  "unless a call failed".
* Only successful attempts to sign in are tracked (`auth.go:217`), against
  `mysqlstore.go:144`.
* An update to the names a user has already is answered with 500
  (`mysqlstore.go:116`: MySQL counts the rows it changed).
* A session id that decodes to fewer than 32 bytes panics (`sessionid.go:73`), and
  so does a failed look-up of the user in the proxy (`directors.go:70`): both
  are exceptions of the two liveness properties.
* A deployment removes all accounts (`dockerize.sh:4`): `AckedAccountStands` is
  about the time before one.

### Why the bounds are enough

* Two requests of a kind show the races of two read-modify-write sequences; a
  third in flight is there so that one of another kind can disturb both.
* Four instants let a window begin and end strictly inside another, touch it or
  miss it. Two days are needed for a member who posted only one of them.
* One fault strikes at each point of each request, before or after the call it
  strikes was executed. The faults of two requests do not meet in one handler.
* `gateway` takes one of three mixes at a time: racing sign-ups with a sign-in,
  profiles with a sign-out, and early returns. The requests of one mix touch the
  same accounts and sessions; together they run every path of every handler.
* Two zones 17 hours apart make an instant fall on another date for one of two
  readers; hour 0, hour 24 and two hours between let windows begin and end at
  midnight, touch, overlap and miss each other.
* In `web_client` two jobs are what one tab needs to be disturbed, or two tabs to
  race; two sessions let one follow the other in storage. There the properties
  hold of a tab however often the other one writes to storage.
* In `team_view` three fetches let two of a kind change order while another is in
  flight; each property names the answers it needs to have come in order.
* In `deployment` three people let an id pass to another person while a third is
  in their team; a fourth id lets one be used up by a sign-up that was refused; two
  deployments let MongoDB follow the gateway or precede it, and the service be
  started again, with its indexes, before, between and after.
* The session stores are finite without a bound on calls: ids are saved once, and
  clocks stop at SessionDuration. Two ticks let time pass before, between and
  after the two commands of Get.
* A counter of 8 values, as if of 3 bits, wraps around after four requests. `Balanced` is about the
  requests before that, as in the code it is about the first 2^31.
* The proofs of section 4 hold without any of these bounds.

`CHECK_DEADLOCK FALSE` stands where a workload can be used up: the system waits
for requests that do not come. The stores' clients and clock never stop, so
there deadlock is checked.

### Fairness

* `ScheduleService!FairSpec`: weak fairness of each handler's step and of the
  execution of its updates. The event loop of Node runs every continuation that
  is ready, and MongoDB or its driver answers every call. Nothing is assumed of
  clients, crashes or restarts.
* `Gateway!FairSpec`: weak fairness of each handler's step: the Go scheduler is
  preemptive, and the drivers return, if only an error.
* `Director!FairSpec`: the same, and strong fairness of `Lock`: `sync.Mutex`
  hands itself to a goroutine that has waited for a millisecond.

The liveness properties have the form `<>[](all requests received are answered)`.
A request is received once and its answer stays, so this says of finitely many
requests what a leads-to for each of them says.

## 4. What is proved

All of it for any number of users, teams, days, requests, tabs, clients and
targets and for any bound on faults; hypotheses beyond that are named. The
constants have the assumptions their modules state. They say what kind of value
a constant is, that a "none" is not one of the things, that requests have ids of
their own, and in two places more: the workloads of `ScheduleService` and
`Director` are finite (`WorkloadIsRequests`: a server has received finitely many
requests, and the second counts them), and there is a session id at all
(`ThereAreSessionIds`).

### Schedules

* **`AtomicSafety`**, **`AtomicNarrowing`**: types, exact flags and no false
  availability of `AtomicSchedules`, and that no step reopens or widens an entry.
  That a team is shown no time a member did not post is not inductive alone:
  `AtomicInv` adds that posted windows are proper and that an entry is flagged exactly
  when its window is proper. Otherwise a closed entry could be reopened by the
  next member, or a new team begin with one open on nothing. The lemmas before
  them say what each step of the code's loops does to an entry:
  whatever it changes, the result is exact, not wider, and inside the window
  compared with.
* **`AtomicShownIsCommon`**: an entry shown is exactly the time all members
  posted, not less either. `CommonInv` needs one window per user and day, for
  of two the code would read the first only, and that a team without members has
  no entries.
* **`ServiceInvariant`** and what follows from it, **`ServiceTypes`**,
  **`ServiceWindowExact`**, **`ServiceCreatorFirst`**, **`ServiceMembersPosted`**,
  **`ServiceAckedTeamStands`**: what the concurrent service keeps whatever
  overlaps, fails or dies. The collections at first are any legal ones
  (`InitialDBsAreLegal`). The invariant says, for every stage of every handler,
  what the handler has made sure of (`GoodLocal`), and of every update in
  flight that it may be executed at any time (`GoodWrite`). Both are needed: an
  update is computed from a reading long before and is executed after any number
  of other requests. They are stable because documents are never removed or
  emptied and a team's creator never changes (`Grows`); the lemmas `LocalGrows`
  and `WriteGrows` carry them over every step of others, so each action needs an
  argument about its own handler only.
* **`SerialInvariant`** and what follows from it, **`SerialAckedDayKept`**,
  **`SerialAckedMemberKept`**, **`SerialOneWindowPerDay`**,
  **`SerialDiesOfFaultsOnly`**: one request at a time (`MaxInFlight = 1`), and any
  faults. A request takes the place of one in flight until its updates are
  executed or lost, so no other can come between its reading and its writing.
  `SerialInv` says that at most one is busy (`OneBusy`), that it has sent nothing
  before its last stretch (`NothingSentYet`), that what it has read is still in
  the collections (`FreshLocal`, with `LoopedTo` for how far the loop over the
  team's days has come), that an update in flight was computed from what is
  there now (`FreshWrites`), and that what was acknowledged is there. Two have a
  hypothesis more: one window per user and day at first; and, for
  `DiesOfFaultsOnly`, no member posted to the team that does not exist, as that
  request ends the process by itself.
* **`OverlapAckedDayKept`**, **`OverlapAckedMemberKept`**,
  **`OverlapOneWindowPerDay`**: what was acknowledged is kept with any overlap and any faults, as long as a mix of requests has no two
  that replace the same list: no two additions to one team (`AdditionsApart`), and
  no two days of one user, or two and no more when that user has no document at
  first (`DaysApart`). Everything else may come in between: postings by the members
  of the team, creations, additions elsewhere, and loops that go astray over the
  global `i`. The hypotheses are what the code forces: an update replaces the whole
  list with one computed from an earlier reading, so two of them together lose one.
  The invariants (`DaysInv`, `AdditionsInv`) say that a list that was read, and one
  that is on its way, is still the stored one, with the new element in the latter
  case. Two first days need a fact more: the one that makes the document never
  appends to it (`DocumentMade`), so only one is left that can, and a second
  creation fails at the unique index. `StepForms` puts the steps into three forms
  (a stretch of one handler, an update that lands, everything dying or staying),
  which the two proofs share. The mixes of `schedule_overlaps` satisfy `DaysApart`.
  One window per day needs a little more (`DaysAlone`): two first days may both
  find their day missing, and the second then append to the document the first
  has made.
* **`SerialImplementsAtomic`**: without faults besides, the handlers implement
  `AtomicSchedules`. A request takes effect at the stretch that sends its
  updates: the collections of the abstract specification are those with the
  updates in flight executed (`SettledUserSchedules`, `SettledTeams`). Two facts
  make the argument. The loop of an addition, with an await in each round, has
  computed the helper's result when it ends (`LoopedTo` at the last index). And
  executing an update, in whatever order, leaves the settled collections as they
  are (the lemmas `LandsUsers` and `LandsTeams`), since the updates of one
  request are of different documents or different fields. Faults are excluded
  because the property is false with them: a request whose one update lands and
  whose other is lost is no step of `AtomicSchedules`.
* **`SerialNoFalseAvailability`**: under the same hypotheses no team is shown at
  rest a window that a member did not post, if none was at first. It is the
  invariant of `AtomicSafety` carried over by the refinement; at rest nothing is
  in flight and the settled collections are the collections.
* **`ZonedIsAtomic`**, **`ZonedHoursReal`**: with the page's conversions in front,
  the service still implements `AtomicSchedules`, and hours read are true, for
  any zones of whole hours. The assumptions are that zones lie between -12 and 14
  and that the instants of the hours offered are among the times. To the
  invariant of `AtomicSafety` this adds `Meant`: every window in the collections
  is the image of hours its user meant. The argument of `HoursAreTrue`: an entry
  shown lies inside a window of the member who reads it, so the instants read
  are of one date for that member and `% 24` takes off one day, as toMongoDate
  had added it.
* **`ZonedWindowsAreWeights`**: what the handlers narrow, window by window, is what
  the prototype counts, hour by hour. Two facts make it: `AtomicShownIsCommon`
  for the handlers, and for the prototype `AvailableIsAllFree`, that adding the
  users one after the other marks the hours at which each of them is free.
  `FoldRight` is by its definition some function from sets of users that solves
  an equation. Counting solves it (`CountedFolds`), and no two functions do: of
  the sets at which they differ there would be a least one, and they would
  differ at it without its first user already (`FoldsIsUnique`). This is the
  induction over the users, with the well-foundedness of finite sets in place of
  an induction theorem.

### Gateway

* **`GatewayInvariant`** and what follows from it, **`GatewayTypes`**,
  **`GatewayAccountsDistinct`**, **`GatewaySessionsAreOwn`**,
  **`GatewayAckedAccountStands`**, **`GatewaySignedOutStaysOut`**, and
  **`GatewayOwnProfileOnly`**, a property of steps: for any requests with ids of
  their own, any overlap, failed calls, sessions that expire and deployments. A
  handler acts on the answer of an earlier call, while others sign out, expire or
  change names; `Good(r)` says, for each stage, what of that answer is still
  true. It rests on `Grows`: but for deployments an account stays and keeps its
  email and its password, and an answer given stays given. To this come whose each session is
  (`SessionsBegun`), that what was signed out is gone (`SignedOutGone`), and that
  a request after it has been or will be refused (`LateRefused`). A deployment
  ends every handler and both stores together, which is why `SessionsBegun`
  survives ids that start at 1 again.
* **`DirectorInvariant`**, **`DirectorTypes`**, **`DirectorForwardedAsOwner`**,
  **`DirectorBalanced`**, **`DirectorDropsExplained`**: for any number of targets,
  any width of the counter and any finite set of requests. `OneHolder` makes the
  two remote calls and the increment one section; `LateIsOver` says that a
  session that ended before a request came has not come back; `RoundRobin` gives
  how many requests each target has by the value of the counter. The last theorem is
  the safety half of `EveryRequestForwarded`, with nothing assumed of fairness: a
  request is dropped only for a session id cut short, a failed call or a counter
  gone negative.
* **`StoresInvariant`**, **`StoresTypes`**, **`StoresUsedSessionsLive`**,
  **`StoresEndedIsGoneInRedis`**: for any clients, ids, states and duration. `StoresInv`
  relates the life of an id to the calls under way for it (`GoodCall`, what the
  store may still do to it in `GoodEffect`), allows one Save per id (`OneSaver`),
  and says that the time left and the time since the last use make up the
  duration (`GoodSession`).
* **`StoresRedisImplements`**, **`StoresRedisIsStore`**: the store over Redis, two
  commands to a Get and a clock, implements the interface `Store`: every step,
  and with the second theorem the initial states, so that it is a refinement of
  specifications. `Gateway` and `Director` have a call on the store as one step
  on this ground.

### Web client

* **`WebClientInvariant`** (`TypeOK` is in it), **`WebClientShownUserOwnsToken`**,
  **`WebClientAtRestInOrOut`** and **`WebClientUpdatesOwnProfile`**, a property of
  steps: for any tabs, users, jobs in flight, sessions and lost answers. `GoodJob`
  says what an answer tells whatever becomes of its tab; `GoodTab` that an
  undisturbed tab has at most one job, and that what this job knows fits what the
  tab shows (`Fits`); `InSync` that a tab which wrote or loaded what is in storage
  has it in its state. The properties are about undisturbed tabs, as in section 3:
  that `Inv` is inductive shows that nothing else than what counts as a
  disturbance there breaks them.

* **`TeamViewInvariant`**, **`TeamViewShownIsSelected`**, **`TeamViewAckedShown`**:
  for any teams, days and people, any posts and fetches in flight and any answers
  lost or late. The two properties speak of a page with nothing in flight, and
  are preserved only because of what is: `UpToDate(k, c)` says of any content `c`
  that it may be what is shown of kind `k`, and `Good(k)` that of the fetches of
  a kind the overtaken ones are the first (`OvertakenFirst`), that the last, if
  it was not overtaken, will bring what is up to date (`LatestIsGood`), and that
  once all were overtaken what is shown already is, unless stale
  (`ShownIsGood`). A fetch the service has not read for will bring what is stored
  then, which is why `AckedStored` is needed: what was acknowledged is stored.
  Each action is then one of four things to a kind: nothing but more stored
  (`KeptGood`), a fetch sent (`AskedGood`), read (`AnsweredGood`) or over
  (`OverGood`).

### Deployment

* **`DeploymentInvariant`**, **`DeploymentNothingPostedLost`**,
  **`DeploymentOwnScheduleShown`**, **`DeploymentTeamsShownToMembers`**: for any
  people, teams and days, and the three scripts run in any order. `IdsGiven` says
  that each id is one account's, and `OneEach` that no two documents have one, also
  while emails are not indexed: a handler inserts only where it found none by the
  id. `DeploymentNothingPostedLost` follows, since what a handler changes is the
  document of the poster's id, to which it adds. `NamesHold` says that until
  accounts are lost that documents name, a document or member with an id and an
  email is of the account with both, so that posting by one and reading by the
  other meet. `DocumentsStand` holds after that too: who is in a team has a
  document, so a gateway replaced while there are no documents leaves no team that
  names a lost account either.

### Only model-checked

* `EveryRequestAnswered` of two modules and `EveryRequestForwarded`: the prover has
  neither fairness nor ENABLED.
* The three runs that end with a counterexample, by their nature.

## 5. What is not modelled

* CORS headers; environment variables; rendering; build scripts; forms of the page
  that open and close. Three parts of the code that nothing reaches:
  `updatePassword` of ForgotPassword, UpdateAvatar, `dev/handlerUtils.js`.
* The client and the services are not one model. `WebClient` has the gateway's
  answers in `Grant` and `Refuse`, `TeamView` takes the service at its word.
* Names, descriptions, email addresses as text; JSON; the order of fields.
* The schedules service's queries are one step each: MongoDB evaluates a query
  for one document atomically, and a `find` for the teams of a user is taken as
  atomic too.
* A deployment is one step. Between the removal of two containers calls fail,
  which is what `Fails` stands for.

## 6. Plan

Every invariant and every property of steps the runs check is a theorem. What is
left:

1. Liveness, once the provers have fairness.
2. To compose `TeamView` with `AtomicSchedules`, in place of taking the service at
   its word.
