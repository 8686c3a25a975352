# TLA+ models of gophermart-bonus

The loyalty system of this repository accepts order numbers, asks an external
accrual system about them, keeps a balance of points per user and lets users
withdraw points. These modules model its goroutines, database transactions,
failing calls, restarts, sessions and responses. TLC checks them on small
instances, and TLAPS proves the main results for every value of the constants.

Paths below are relative to `src/internal/app/` unless they say otherwise.

## The system

| Part | State | Operations | Modelled by |
|---|---|---|---|
| Order processing (`service/order.go`) | two channels, a batch, what each worker holds | `WorkerLoop`, `Worker`, `GetOrdersForProcessing`, `UpdateOrderStatus` | `OrderProcessing` |
| Accrual transaction (`repositories/order.go:242-327`) | tables `order`, `accrual`, `user-balance` | `UpdateOrderAndPasteAccrual` | `OrderProcessing` (one step), `Ledger` (`Earn`), joined in `Server` |
| Accrual client (`repositories/accrual.go`) | `retryAfter` | `GetOrder`, `CanDoRequest`, `GetSleepDuration` | its answers in `OrderProcessing`, its pause in `AccrualClient` |
| Withdrawals (`handlers/withdrawal.go`, `service/withdrawal.go`, `repositories/withdrawal.go`) | tables `user-balance`, `withdrawal`, row locks, open transactions | `Create` | `Ledger` |
| Lists and balance (`handlers`, `ReadAllByUserID`, `GetBalances`) | none | one SELECT each | `ReadAllByUserID` of `Server` and of `Ledger`, the answers in `Requests` |
| Order upload (`handlers/order.go`, `service/order.go:35-52`, `repositories/order.go:60-132`) | table `order` | `Create`, `Read` | `OrderUpload` |
| Registration, login (`service/user.go`, `repositories/user.go`, `handlers/user.go`) | tables `user`, `user-balance` | `Register`, `Authenticate` | `Registration` |
| Sessions (`middlewares/auth.go`) | JWT cookie | `SetAuthWriter`, `AuthMiddleware`, `GetUserID`, `GenerateJWTString` | `Requests` |
| Response writers (`middlewares/gzip.go`, `compress/gzip.go`) | headers and body of a response | `WriteHeader`, `Write`, `Close` | `Requests` |
| Request validation (`middlewares/validation.go`) | none | one comparison | `Requests` |
| Configuration, start (`config/config.go`, `server/server.go`, `cmd/gophermart/main.go`) | `Settings`, `Pool` | `ParseFlags`, `env.Parse`, `Sanitize`, `Run` | `Config` |
| The process (`server/server.go`) | all of the above | goroutines, exits | `Server` |
| Schema (`src/migrations/`) | constraints | | the UNIQUE constraints, in each module |

How the parts interact:

- `GophermartBonusRouter` (`server/server.go:60-65`) starts one goroutine with
  `WorkerLoop`, which starts the workers. They share `ordersChannel` (bounded)
  and `errorsChannel` (unbuffered). Nobody starts the loop again when it returns.
- HTTP requests, each in a goroutine of net/http, and the pipeline meet only in
  the database: an upload makes the row the loop reads, an accrual adds to the
  balance that a withdrawal reads and subtracts from.
- The process is shared: `logger.Log.Fatal` in a request, or a panic in a
  worker, ends the loop, the workers and every request.

What is hard here, and what makes each part correct:

- **Pipeline.** Nothing claims an order but its status. One worker at most may
  have an order, its points must be credited once through every failure, a final
  status must stay, and every order must reach one. Hazards: a full channel while
  errors are reported, calls that fail, answers that get lost, deaths between the
  mark and the store.
- **Withdrawals.** The balance is read, compared in Go, and written by another
  statement. No balance may become negative, no points may be lost, the answer
  has to tell whether the withdrawal was made. Hazards: concurrent withdrawals
  and accruals, a number used twice, clients that leave, a rollback that fails.
- **Upload.** The INSERT and the question whose the number is are two
  transactions. The four answers have to tell the truth about the owner.
- **Registration and sessions.** A user needs its balance row; a cookie must
  name the user that logged in, until it expires. Hazards: one login registered
  twice at a time, transactions left open, commits whose answer is lost.
- **Response writers.** Three writers around each other decide from one header
  map, at different moments. The headers that are sent have to agree with the
  body, and the cookie has to be among them.
- **Configuration.** Flags, environment and defaults write the same fields one
  after the other, and an error on the way does not stop the process.
- **The process.** Its parts share their fate: a request can end it, and with it
  the orders of everybody that are in hand.

`PROJECT.json` lists every hazard at its line with the properties about it, and
a note where there is none, or where the property says less than one would wish.

## The modules

| Module | What it is |
|---|---|
| `OrderProcessing` | the pipeline: loop, workers, channels, tables, accrual system |
| `RewardOnce` | what the pipeline promises: a granted order is credited at most once |
| `OrderProcessingProofs` | its theorems |
| `Ledger` | concurrent withdrawals, statement by statement, with accruals |
| `Account` | what the ledger promises: points come in, and go out when they are covered |
| `LedgerProofs` | its theorems |
| `OrderUpload`, `OrderUploadProofs` | concurrent uploads of order numbers, and the theorems |
| `Registration`, `RegistrationProofs` | concurrent registrations and logins, and the theorems |
| `AccrualClient` | the workers' calls of `GetOrder`, the clock and the pause of a 429 |
| `Server`, `ServerProofs` | pipeline and withdrawals in one process, composed of `OrderProcessing` and `Ledger`, and the theorems |
| `Bonus` | what the process as a whole promises: an order pays its owner once, withdrawals are covered |
| `SumProofs` | the library's sum over a set, on which the theorems about balances and rows rest |
| `Config`, `ConfigProofs` | the start of the process, and the invariant of the settings |
| `Requests`, `RequestsProofs` | middlewares, response writers, handlers and sessions over `Config`, and the theorems |
| `MCOrderProcessing`, `MCLedger`, `MCOrderUpload`, `MCRegistration`, `MCServer`, `MCRequests` | definitions for TLC: sets of answers and sums, owners and points, command lines, symmetry |

### OrderProcessing

`status`, `accrual` and `credits` are the tables. `credits[o]` counts how often
the points of `o` were added to the balance, which the program itself could not
tell. `loopPc` and `batch` are where `WorkerLoop` is in its `select` and its
range loop; `channel` is `ordersChannel`; `workerPc`, `held` and `reply` are
where each worker is in `UpdateOrderStatus`, with which order and which answer.
`verdict` is what the accrual system has decided; it decides once and answers
`PENDING` orders with a status that is not final.

| Action | Code |
|---|---|
| `Upload` | `OrderRepository.Create`; the row is NEW by DEFAULT |
| `Decide` | the accrual system (external) |
| `Default` | the select finds no worker at `errorsChannel` and takes its `default`; what workers do from here on comes before the poll |
| `GetOrdersForProcessing` | `ReadByStatus`; a lost connection may cut the rows short without an error |
| `MarkProcessing`, `SendOrder`, `HandOver`, `Sleep` | the body of the range loop and the sleep; `HandOver` is a send to a worker that is waiting |
| `ReceiveError` | `case err := <-errorsChannel`, a rendezvous with a worker that reports |
| `ReceiveOrder`, `GetOrder`, `StoreReply`, `ReturnToNew` | `Worker` and `UpdateOrderStatus` |
| `Report` | `UpdateOrderStatus` has returned an error and the worker comes to `errorsChannel <- err`, some time after its last statement |
| `Crash`, `Panic`, `Restart` | the process dies, for whatever reason or for a missing Retry-After, and is started again |

Every database call has three outcomes: done, failed without effect, and failed
after it took effect (`"unknown"`), as when the connection breaks while the
answer is on its way. `FaultKinds` says which of the two failures a run has. One
statement, or one transaction of the pipeline, is one step: no other step could
see between its statements, because nothing reads uncommitted rows. A read
failing while its rows are fetched is part of `GetOrdersForProcessing`.

The context of the loop is never cancelled (`server/server.go:61`), so its
`ctx.Done()` cases have no action. The amount of an accrual is left out here; it
is in `Ledger`.

### Ledger

`balance` and `withdrawn` are the row of `user-balance`, `earned` the sum of a
user's rows in `accrual`, `withdrawal[n]` the request whose row has the number
`n`. The tables change when a transaction commits: what happens inside of it is
`pc` and `open`, and `HoldsRow` and `HoldsNumber` say which locks of PostgreSQL
it has at that label, so that others wait (`RowIsFree`, `NumberIsFree`).

Each request runs `Begin`, `SelectForUpdate`, `CheckBalance`, `UpdateBalance`,
`InsertWithdrawal`, `Commit`; `StatementFails`, `RefusalFails`, `BeginFails`,
`PrepareInsertFails` and `CommitFails` are the error paths, each with the
rollback and the answer that path has. `Commit` makes the rows visible and
`Reply` writes the answer: a client may leave and the process may die in between.
Where the code answers a failing rollback or commit with `logger.Log.Fatal`, the
step takes `Exit`, which loses every request in progress; so does `ListFails`, the
Fatal of a list of withdrawals whose client leaves before `rows.Err()` is looked
at (`repositories/withdrawal.go:163`). `Crash` is any other death of the process. `AwaitDone` is database/sql rolling back a transaction
whose context has ended: after the client left (`Disconnect`), or after the
handler returned with the transaction still open (`repositories/withdrawal.go:111-113`).
`Earn(u, a)` is the accrual transaction of a worker, seen from the balance:
its UPDATE waits for the row. `ReadAllByUserID(u)` is the set of lists that a
user may be shown: a connection lost in the loop over the rows drops the rest of
them, in whatever order they come, and no error is returned.

### Server

`Server` has the variables of both halves and takes each half as an instance
(`Pipeline`, `Withdrawals`). Most of its steps are a step of one half. Where the
halves meet a step is one of each: `Credit` is the worker's `StoreReply` and the
`Earn` of the order's owner, so that it waits for the lock of a withdrawal;
`RequestStep` is a step of a request together with the `Crash` of the pipeline
when the request exits the process (`Survives`), and `ListStep` the same of a list; `Die` and `Restart` are those of
both. An order has an `Owner` and `Points`. `ReadAllByUserID(u)` is the list of
a user's orders, newest first and possibly cut short.

`Promise` is `Bonus` with the variables of the process: an order is accepted when
it has a row, granted when the accrual system has decided so, and paid when it
has its accrual. `Bonus` has no goroutines, tables or failures: only points that
come in, once for each granted order and to its owner, and go out when covered.

### AccrualClient

`GetOrder` has a value receiver. `retryAfter` is the field of the repository
that the service holds, `copy` the field of the receiver of a call, `told` until
when the worker was last asked to wait. A second has `Second` nanoseconds, to
keep the difference between the two visible in a small model.

### Config and Requests

`Config` is the start: `Launch` chooses a command line and an environment, then
`ParseFlags`, `ParseEnv` (with `Sanitize`) and `Run` follow, each of which may
end the process. A flag or variable is unset, malformed, or has a value. env.Parse
is a library (caarlos0/env v6) and modelled from how `main.go` uses it: a variable
that does not parse, or is the empty text, leaves its field as it was.
An address is a host and a port; `NetAddress` turns `:` into `localhost:8080`, for
`-a` and inside of the URL of `-r` (`config/config.go:63-66, 97`).

`Requests` extends `Config`: its process is one that was started in this way,
and it may die and be started with other settings. A browser sends one request
at a time; `ValidationMiddleware`, `GzipMiddleware`, `AuthMiddleware` and the
handlers follow each other as in `server/server.go:39-59`. What a handler asks of a
service has any of the service's outcomes; how they come about is in the other
modules. A `response` is the header map, the part of it that was sent with the
status, and the kinds of chunks in the body; `SendHeader` and `SendBody` are
net/http, `CompressHeader`, `CompressBody` and `CompressClose` the
`CompressWriter`, `WriteHeader` the `SetAuthWriter` in front of it. A cookie is the
token itself: its user, the key that signed it and its expiry. `session` and
`grant` are history variables: what a client was told, and what the login it is
answered for is worth.

### OrderUpload

`creator[n]` is the request that made the row of the payload `n`, which gives
its owner. `CheckNumber` is the handler up to the call of the service,
`InsertOrder` is `OrderRepository.Create`, `ReadOrder` is `OrderRepository.Read`
with the comparison of the owners. Payloads fall into three sets, by what
`strconv.Atoi` and `luhn.Valid` make of them.

### Registration

`account[l]` is the row of the login `l` in the table `user`: the request that
registered it, which stands for the user's id. `balances` are the rows of
`user-balance`. `written[r]` are the rows that the transaction of `r` has
inserted and not committed; `Commit` puts just those into the tables, so that a
row the code forgot, or inserted elsewhere, would be missed. `InsertUser` waits
while another transaction has the login in the unique index (`LoginIsFree`).
`CreateFails` stands for every error path of `Create`: some roll back, and the
failing PREPAREs leave the transaction open, as does the answer 409 in
`InsertUser`; `AwaitDone` then ends it. `CommitUnknown` is a Commit that took
effect and reports an error. `ReadUser` and `ComparePassword` are the two halves
of a login, with the password hash computed between them. `cookie` is the user
named by the cookie that `SetAuthWriter` adds to the answer 200. `confirmed` is a
history variable of the model.

## The runs

| Run | Shows | Bounds |
|---|---|---|
| `pipeline_safety` | single custody of orders, rows that agree with it, one credit, final statuses, `RewardSpec` | 3 orders, 2 workers, a channel of 1; one call of the loop and one of a worker fails, or takes effect and fails; a crash |
| `pipeline_liveness` | every NEW order is picked up and every granted order credited, with the exceptions the two properties name | 3 orders, 2 workers, a channel of 1; answers PROCESSED and PROCESSING; a failed call of the loop, one of a worker, a crash |
| `ledger` | no overdraft, no points lost, answers tell the outcome, every request ends, `AccountSpec` | 2 users, 2 numbers, 2 requests, sums -1, 0 and 1, an accrual of 1 or 2, a fault, a client that leaves, a kill |
| `server` | withdrawals only delay credits, what is shown is paid, the books of the halves agree, `BonusSpec` | 2 orders of one user with 1 and 2 points, a worker without a queue, answers PROCESSED and PROCESSING; 2 withdrawals of one number, of 1 by that user and of 0 by another; a fault, a client that leaves, a kill, of which one death |
| `requests` | body and encoding, cookie and login, session and user, every setting and what was asked for | 1 browser, 2 users, the 7 routes, 2 launches with one setting given at a time, 2 hours |
| `registration` | users have balance rows, answers and cookies tell the truth, who is registered can log in, every request ends | 1 login, 2 passwords, 3 requests, a fault, a client that leaves, a death of the process |
| `upload_safety` | the answers tell whose an order is, which never changes hands | 2 users, 4 payloads, 3 requests, 2 faults of every kind |

The instances are small and hold what the properties turn on. Three orders and a
channel of one let the loop hold one order, queue one and wait with the third;
two workers can have two orders at once, and one order twice if the code allowed
it. Two withdrawals are what a race needs: for the row of one user, for one
number between two users, and for both at a time. With an accrual of 1 or 2 a
user can pay for none, one or both of them; a negative sum is less than every
balance and is paid out (`handlers/withdrawal.go:59`). One fault of a worker is enough for the
worst case of the pipeline, a commit whose answer is lost: the return to NEW and
the second attempt that follow do not fail. In `pipeline_safety` the answer OTHER
stands for PROCESSING and ERROR, which the worker handles in the same way.
`pipeline_liveness` leaves out the answers after which an order is given up:
REGISTERED and NOT_REGISTERED.

One login is enough for `registration`: different logins share no row and no
lock. Two registrations of it and a login, or one and two logins, with right and
wrong passwords, are among the initial states.

In `server` two orders of one user make a list whose points add up. The two
withdrawals meet in both places: the worker waits for the row of the first user
while that user's withdrawal waits for the number the other user is inserting,
and while a PREPARE that failed has left the transaction open and nobody but
database/sql ends it. One worker shows the waiting, because the row is the only
thing a worker waits for here; several workers are in `pipeline_safety`. What
a withdrawal asks for is fixed, so that the orders meet the one that holds their
row and needs the points; all other asks are in `ledger`. After one death
`CreditedWhileUp` claims nothing, and one is enough to break off both halves at
every point. In `requests` one browser is enough: requests
share only the settings and the users, which are there at every value. The
settings are read one by one, so that giving one at a time, by its flag, by its
variable, by both and malformed, reaches every branch, with `:` and `:0` among the
addresses, `https://:` among the URLs and a negative number of hours; the theorem
about them is for all command lines.

`CHECK_DEADLOCK FALSE` is set where the system stops: the loop of the pipeline
ends at a failed call and its workers then wait for ever, launches and time are
bounded in `requests`, and in the other modules every request is answered in the
end.

### Fairness

`FairSpec` of the pipeline assumes that the Go scheduler runs the loop and every
worker that can run (weak fairness), that the process is started again after it
died, and that an order that is asked about again and again is some time
answered with the decision on it (strong fairness of `LearnVerdict`): outages of
the accrual system end. It does not assume that clients upload, that the accrual
system decides, or that anything fails. `FairSpec` of the ledger,
and that of the registration, assume that the goroutine of a request and the one of its transaction run when they can. A
lock that becomes free over and over is taken in the end because the requests
are finitely many, so that weak fairness is enough. `FairSpec` of the server is
the conjunction of the two, for the steps of the composed process. All of them
assume that a call of the database or of the accrual system returns, though with
an error: the code sets no timeout of its own (`repositories/accrual.go:43`).

### Where the code disagrees with what it says

Each of these runs ends with a behaviour of the code that contradicts the line
quoted in `PROJECT.json`:

| Run | What it shows |
|---|---|
| `registered_forgotten` | an order answered REGISTERED stays PROCESSING for ever (`service/order.go:93`) |
| `circular_wait` | loop and workers wait for each other with a full channel and errors to report (`service/order.go:165`) |
| `client_leaves` | a client that leaves during its withdrawal ends the process (`repositories/withdrawal.go:57`), or while it asks for its list (line 164), and the order of another user that was in hand stays PROCESSING after the restart (`service/order.go:63`) |
| `retry_after_ignored` | a worker that was told to wait by a 429 asks again at once (`repositories/accrual.go:86`); 2 workers, 2 nanoseconds a second, pauses of 1 and 2 seconds |
| `not_numeric_stored` | a payload that is no number is answered 422 and stored (`handlers/order.go:46`) |

`pipeline_liveness` shows the other side of the first three: where a granted
order is not credited, its row was left PROCESSING by a fault or a death, or the
loop has ended at a failed call (`service/order.go:155-164`). In its instance
only one fault can be reported, so that the circular wait, which needs more
reports than there are free workers, does not arise. One more cause has no run of
its own: after the answer 204 an order is INVALID although the accrual system may
still grant it points (`service/order.go:74`).

Three theorems of `OrderProcessingProofs` say for every instance what two of
these runs show on one: `ForgottenForEver`, `ForgottenIsOrphaned` and
`CircularWaitIsForEver`, below.

The models show more that a reader should know. After a commit
whose answer is lost an order is NEW with its points on the balance, and every
further attempt fails (`service/order.go:107`): `FinalStatusSticks` names this
exception. A withdrawal of a negative sum is accepted and lowers the sum of
withdrawals (`handlers/withdrawal.go:59`). The owner of an order is answered 409
when the query for it fails after its PREPARE (`repositories/order.go:111`):
`AnswerTellsOwner` names this exception. A withdrawal of 0 is answered 422 and
made (`handlers/withdrawal.go:59`, a return is missing): `AnswerTellsOutcome`
names it. A setting of the environment that does not parse is 0 and the server
starts nevertheless (`cmd/gophermart/main.go:13`): no workers, or cookies that
are over when they are made; `ServesAsAsked` has these cases. The flag
`-a :0` counts as not given (`config/config.go:131`), and `-r https://:` is
`https://localhost:8080/` (`config/config.go:97`).

## What is proved

TLAPS checks each theorem for every number of orders, workers, requests, users
and faults, every channel capacity and all amounts.

*Pipeline* (`OrderProcessingProofs`). `TypeCorrect` is the type invariant with
`DownTogether`: when the process is down nothing is queued, held or in the batch.
`CustodyCorrect` proves `SingleCustody` and `StatusFollowsCustody` together
(`StatusFollowsCustodyCorrect` states the second by itself); neither is inductive
alone. A poll adds only orders that are NEW, and because every row queued or in hand is not NEW, none of them is polled again; the row
agrees with the place of the order because each order is in one place. From it
follow `MarksOnlyNewCorrect`, and with `AccrualInv` (an accrual row implies the
verdict PROCESSED) `ProcessedIsCreditedCorrect`. `FinalStatusSticksCorrect`
needs `FallbackIsProcessing`: an order that a worker failed to store is still
PROCESSING, unless an answer of the database was lost.
`RewardImplemented` is the refinement: `Upload` accepts, `Decide` grants,
`PasteAccrual` credits, and every other step stutters.

Five theorems are about orders that stop. `Forgotten(o)` is an order whose row is
PROCESSING in nobody's hands. `ForgottenForEver`: it stays so, with the credits
it has, through every later step and restart, because the loop polls NEW rows
only. `ForgottenIsOrphaned` says where such orders come from: as long as the
accrual system does not answer REGISTERED (the one hypothesis, which
`registered_forgotten` shows to be needed), one appears only after a failed call
or a death. Its invariant is that something has failed or every PROCESSING row is
in somebody's hands, and the work is in the failures that lose nothing: an error
of the accrual system, a second accrual, the return to NEW. It is the safety half
of `CreditedOrOrphaned`.
`CircularWaitIsForEver`: once the loop waits for room in a full channel and all
workers wait for the loop to take their errors, only a death moves an order.
`FullChannelTakesOrders` and `SendFindsRoom` bound when that can be: the loop
waits only while more orders are PROCESSING than the channel has places, and
never if there is a place for each. They need `SendsOldest`, that what the loop
is about to send is an order of its batch, and with `SingleCustody` not one of the
channel's: it is one PROCESSING order more.

*Withdrawals* (`LedgerProofs`). `SeenIsCurrentCorrect` needs, as its
strengthening, that at most one open transaction holds the row of a user, which
the guards of `SelectForUpdate` and `Earn` keep. `NoOverdraftCorrect` then
follows because what is subtracted was compared with the balance of that very
moment, `RefusedForLackOfPointsCorrect` likewise, and with them
`AccountImplemented`. `ConservationCorrect` holds because a withdrawal changes
both sums in one commit. `AnswerTellsOutcomeCorrect` has the strengthening that a
request in progress has neither an answer nor a row, with the sum 0 excepted.
`WithdrawnIsTheRowsCorrect` relates the sum of withdrawals that the balance shows
to the rows that the list shows: a commit adds one row and its sum, and the row
is a new one.

*Sums* (`SumProofs`). The sum over a set is `SumFunctionOnSet` of the library, a
recursive function that takes the elements in the order of a CHOOSE. An induction
theorem would need an operator as its parameter, so that each lemma is proved by
a least counterexample: the proper subsets of a finite set are well-founded, and
a least set for which the lemma fails has an element whose removal gives a lesser
one. In this way the function exists and is unique, the sum is an integer
(`SumType`), any element may be taken first (`SumRemove`), an element more is its
value more (`SumInsert`), and a part of a sum of points is not more than the sum
(`SumOfPart`).

*Upload* (`OrderUploadProofs`). `OwnerIsKeptCorrect` and
`AnswerTellsOwnerCorrect` hold for all payloads and faults. The second has the
strengthening that a request that is not answered has no row, and was told
nothing unless its payload is not a number.

*Registration* (`RegistrationProofs`). `EveryUserHasBalanceCorrect` needs
`RowsInv`: a row that is still in a transaction has a login nobody has, and one
transaction at most has inserted it, so that a Commit never overwrites a user.
`CookieNamesUserCorrect` and `RegisteredMayLogInCorrect` need `SessionInv`: the
user a login has read, or a client was told of, is the one that has the login
now, because users are never changed. `AnswerTellsRegistrationCorrect` needs in
addition that a request has no user before its Commit.

*Server* (`ServerProofs`). Each step of the process is, by the way `Server` is
composed, a step of a half or leaves it alone (the lemmas `PipelineInside` and
`LedgerInside`). So the invariants of the halves hold in the process:
`ServerProofs` has their proof modules as instances, and
`PipelineGuaranteesHold`, `LedgerGuaranteesHold` and `StepGuaranteesHold` carry
their theorems over. What the composition does not give away are the theorems
about both halves at once. `ServerTypeCorrect`: they live and die together.
`BooksBalanceCorrect` relates the tables of the two: a credit adds an order to
the accruals of its owner and its points to what the owner earned, in one step,
and the order was not among them before (`SumInsert`). `ShownIsPaidCorrect`
follows with `Conservation` and `SumOfPart`: any list is a part of the accruals.

`BonusImplemented` is the theorem about the whole: the process implements
`Bonus`. Seen from there a `Credit` is `Pay`, a commit of a withdrawal is
`Withdraw`, an upload is `Accept`, a decision `Grant`, and every other step,
failure or death changes nothing. That a step of one half leaves the other's part
of the promise alone is what the lemmas `RewardAlone` and `AccountAlone` say;
the steps themselves come from `RewardImplemented` and `AccountImplemented`.

*Requests* (`RequestsProofs`, over `ConfigProofs`). All six theorems follow
from one inductive invariant, `RequestsInv`: a response is untouched until it is
answered (so that no writer finds a status it did not expect); an answer is
`Good`, which is its type, `EncodingTellsBody` and `CookieTellsLogin` in one; and
the cookie a client keeps is the session it was told of. Each way a handler
answers (`Error`, `WriteJSON`, `LoggedIn`, a status alone, and an error followed
by one of these where a return is missing) has a lemma that it is `Good`, and
each action then has one step. `StartInv` of `ConfigProofs` says what the settings
are at each stage of the start; from it follows `ServesAsAskedCorrect`, which names
for each field the variable, the flag or the default it comes from.

`MarksOnlyNew` and `WithdrawalsAreKept` are proved and have no run: where they
fail, `StatusFollowsCustody` or `WithdrawnIsTheRows` fails in one. The theorems about forgotten orders and the
circular wait are about states the runs `registered_forgotten`, `client_leaves`
and `circular_wait` end in.

The only assumptions are those of the constants (`ConstantsAssumption`,
`LedgerAssumption`, `UploadAssumption`, `RegistrationAssumption`,
`ServerAssumption`, `ConfigAssumption`, `RequestsAssumption`), which TLC evaluates
in every run of the modules that have them.

Every invariant and every action property that a passing run checks is proved.
Only model-checked is liveness (`NewIsPickedUp`, `CreditedOrOrphaned`,
`CreditedWhileUp`, `RequestsEnd`): it rests on fairness, and so on ENABLED, which
the provers do not handle. Of `CreditedOrOrphaned` the safety half is proved.
What the runs of the disagreements check is false, and `AccrualClient`, which has
only such a run, has no theorem.

## What is abstracted

- Amounts are integers. The code reads them as float64 or float32 and stores
  NUMERIC; rounding is listed as a hazard.
- `created_at` grows with the id of an order.
- Time: the sleep of the loop is a step. `AccrualClient` counts nanoseconds and
  `Requests` hours.
- PostgreSQL is modelled by what the code relies on: unique indexes, row locks
  to the end of a transaction, READ COMMITTED, rollback on a failed statement.
- In `Ledger`, `OrderUpload` and `Server` a user is logged in; `Requests` has the
  middlewares in front, and any outcome of the services behind.
- Cryptography is external: a password matches a hash or not, and a token that
  the process did not sign is not accepted.
- `http.Error` deletes Content-Length, which no handler sets, and keeps
  Content-Encoding, as in Go 1.23.
- The hours of a session are an integer; that their number of nanoseconds may
  overflow (`middlewares/auth.go:32`) and hosts in brackets are left out.
- Users are only added: nothing in the code clears `active` or changes a password.

## Not modelled, and why

- **Rounding.** The balance is read into a float32 to be shown and into a float64
  to be compared, and stored as a NUMERIC. TLC has no floating point, and a model
  of it would be about IEEE 754 and not about this code.
- **The order of the list of withdrawals.** Its SELECT has no ORDER BY
  (`repositories/withdrawal.go:153`), although `SPECIFICATION.md:274` asks for the
  newest first. The order is up to PostgreSQL.
- **LOG_LEVEL and ORDER_STATUS_CHECK_PERIOD.** The first has no effect: the logger
  reads the setting in an `init()` that runs before `main` (`logger/logger.go:27`).
  The second is the length of a sleep, and sleeps are steps.
- **The migration.** goose applies one file before the server listens; a failure
  of it is one of the ways `Run` of `Config` ends.
- **luhn, argon2, chi, resty, zap.** Third-party code, used by its result.
- **Prepared statements that are never closed** (`repositories/order.go:61` and
  everywhere else) have no effect on the state the models have.
- **models.** Plain records.
