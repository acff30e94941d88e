# OrderEase in TLA+

A verification of OrderEase: what the backend promises its customers about
orders, money and carts, what its small services keep true of accounts and
foods, and what the browser does with sessions, carts and lists, modelled from
the TypeScript and JavaScript sources, checked with TLC on small instances and, for the
properties that matter most, proved with TLAPS for all instances.

- [The system](#the-system)
- [Modules](#modules)
- [How the models correspond to the code](#how-the-models-correspond-to-the-code)
- [Runs](#runs)
- [Fairness](#fairness)
- [Proofs](#proofs)
- [What the code does and its documents do not say](#what-the-code-does-and-its-documents-do-not-say)
- [What is not modelled](#what-is-not-modelled)
- [Plan](#plan)

Run a model with `tlc -config MCOrderPayment.cfg MCOrderPayment.tla` and check
proofs with `tlapm OrderPaymentProofs.tla`.

## The system

Paths are relative to `apps/backend/src` unless they start with `packages` or
`apps`.

| Component | State it keeps | Operations | Interacts with | What is hard | What makes it correct |
|---|---|---|---|---|---|
| Order domain `modules/order/domain` | none; an order's state is computed from its events | `deriveOrderState`, `assertValidTransition` | checkout, cancellation, refunds | the last event decides, whatever the order of the events before it | the closed form used in the proofs computes what the loop does |
| Checkout `modules/order/order.service.ts`, `infra/prisma-order.repository.ts` | orders, order_items, order_events, idempotency_keys; empties cart_items | `checkout`, `getTimeline` | HTTP clients that retry, the cart worker, food edits | overlapping requests with one key, lost answers, a failure between two writes, prices that change meanwhile | one order per key; order, items, events and key together or not at all; the amount is the snapshot |
| Payments `modules/payment` | payments, order_events | `initiatePayment`, `verifyPayment`, `getPayment` | Razorpay, HTTP clients | two verifications of one payment; a status read before a lock and written after it | log and status agree; a success names a payment the gateway took |
| Cancellation `application/order-cancellation.service.ts` | order_events | `cancelOrder` | payments, refunds | an event appended to a log that has changed since it was validated | refunds have a cause |
| Refunds `application/refund-orchestrator.service.ts`, `application/recovery`, `main.ts` | payments, order_events; claimed ids in memory | `run` every 30 s per replica, `initiateRefund` | every other writer of payments | overlapping runs and replicas, SKIP LOCKED, LIMIT without an order, a crash between claim and refund | claims disjoint; refund once; refund in the end |
| Cart `modules/cart`, `infrastructure/redis` | the Redis cart of a user | `getCart`, `addToCart`, `updateCartItem`, `removeFromCart`, `clearCart` | Kafka, checkout (through the database cart) | read-modify-write of one key; a write that Redis may silently leave out, then a send that may fail | the database cart follows |
| Cart worker `workers`, `infrastructure/kafka`, `shared/idempotency` | cart_items, processed event ids | `handleCartEvent` | Redis cart, Kafka | redelivery of whole batches, overlap of consumers, lost events | database cart equals Redis cart when nothing is pending |
| Cart sync `cart-sync` | dirty set and versions in Redis, cart_items | `syncDirtyCarts` (nothing schedules it) | Redis cart | version read after the cart; a step that fails; a change during a sync | a dirty mark is not lost |
| Cart contracts `packages/shared-contracts/src/cart`, `infrastructure/redis/scripts` | none; the scripts rewrite the Redis cart | mutations, Lua scripts, transformers, validators (no service calls the scripts) | cart service, cart worker, cart sync | three implementations of one thing; a quantity of 0; what JSON makes of an empty Lua table | service and scripts give the same cart, the functions do too or throw, and the validator takes it |
| Foods `modules/food`; admin page `apps/frontend/src/hooks/useMenuManagement.js` | foods | `create`, `update`, `remove`, lists; a form with a modal | orders refer to foods, checkout and menu read them | read, then write; a form filled from an old list; decimal prices | no availability lost, prices are those typed |
| Users, admin `modules/user`, `admin`; authentication `modules/auth` | users; tokens are stateless | `signUp`, `login`, `refreshToken`, `updateProfile`, `updatePassword`, `updateUser`, `updateUserRole`, `deleteUser`, guards | frontend client | look-up, then write; a row read before the guard and the handler run | no update undone |
| Gateway `gateway`, `apps/api-gateway` | times of requests in memory | rate limit (applied nowhere), exception filter, proxy, throttler | every request | window edges with cleanup; an error that crosses three programs | the limit holds in every window; an error is not a success |
| API client, session `apps/frontend/src/services/api/httpClient.js`, `redux/slices/authSlice.js` | tokens in localStorage, auth slice, queue of calls | sign in and out, calls, one refresh at a time, reload | every page, authentication | calls that fail while a refresh is under way; answers after a sign-out; other tabs that sign in and out of the same storage | each waiting call is settled once |
| Orders board `hooks/useOrdersManagement.js` | the list, page and filter of one page | poll, filter, page, refresh, update a status | orders API | several requests under way, the last to arrive wins | it comes to show the list again |
| Storefront `redux/slices/cartSlice.js`, `hooks/useCart.js`, `useCheckout.js`, `useOrderConfirmation.js` | a cart per tab, one stored cart, form, order requests, confirmation | add, change, remove, clear, order, go elsewhere, reload | orders API, the other tabs | tabs that overwrite each other; a page that is left while its order runs | one order per visit |
| Menu page `redux/slices/menuSlice.js`, `hooks/useMenu.js` | menu slice, category | fetch, retry, filter | public menu | a thunk outlives its page | the spinner ends |
| Currency `packages/shared-utils` | none | cents to amount and back | foods | binary fractions | prices do not drift |
| Health, logging, configuration | none the others depend on | | | | |

PostgreSQL transactions connect the order side: every operation is one
`prisma.$transaction` at the default isolation, READ COMMITTED. Redis and Kafka
connect the cart side; the cart worker brings the cart into the database, where
checkout reads it.

## Modules

| Module | What it is |
|---|---|
| `OrderDomain` | order states, event types, `deriveOrderState` as a loop and in closed form, the transition table |
| `OrderPayment` | payments, cancellations and refunds of placed orders, with several requests and worker runs in flight |
| `PaymentLedger` | abstract: a payment is settled once and refunded at most once |
| `Checkout` | the database cart becomes an order, once per key |
| `ExactlyOnce` | abstract: the promise of an idempotency key |
| `OrderSystem` | `Checkout` and `OrderPayment` on one database: the commit of a checkout is where the order enters the payment side |
| `CartPipeline` | one user's cart from Redis over Kafka and the cart worker into the database |
| `CartSync` | the dirty marks and their synchronisation |
| `CartContracts` | `CartService`'s own changes beside the Lua scripts and the functions on mutations, the validator and the way through the rows |
| `Accounts` | users, tokens, guards and the requests that change users |
| `FoodCatalogue` | the foods' table, the admin's form, other clients, the menu and the orders' references |
| `Filtering` | `Array.prototype.filter` by the positions it keeps, used by the cart and the limiter |
| `RateLimiter` | the middleware's map of times |
| `ApiGateway` | one call from a page through gateway, backend and back |
| `TokenSession` | one tab's session: auth slice, interceptors, refresh and queue, the storage it shares with other tabs, and the server's side of the tokens |
| `OrdersBoard` | the admin's orders page |
| `Storefront` | cart, checkout and confirmation in several tabs |
| `CustomerMenu` | the menu page and its slice |
| `MCFrontend`, `MCServices` | the machines of the browser, and the services, side by side |
| `MCOrderPayment`, `MCOrderSystem`, `MCCartPipeline` | symmetry, fairness and model-checked properties for TLC |
| `OrderPaymentProofs` | theorems about payments, cancellations and refunds, and about `OrderDomain` |
| `OrderSystemProofs` | theorems about checkouts and about their composition with payments |
| `CartPipelineProofs`, `AccountsProofs`, `FoodCatalogueProofs` | theorems about these components |
| `FrontendProofs` | theorems about the four machines of the browser, and about them side by side |
| `ServicesProofs` | theorems about `CartSync`, `ApiGateway`, `RateLimiter`, `CartContracts`, and about the services side by side |
| `FilteringProofs` | lemmas about ranks and about what a filter leaves |

`OrderSystem` EXTENDS `Checkout` and takes `OrderPayment` with INSTANCE. Its
`PlaceOrder` is the conjunction of `Checkout`'s `Commit` and `OrderPayment`'s
`PlaceOrder`; every other step is a step of one side that leaves the other
alone. In `OrderPayment` on its own `PlaceOrder` is free: any order, any total.

`MCFrontend` and `MCServices` put modules side by side that share no state. Their
product would only multiply states, so a variable `focus`, chosen at the start,
says which of them a behaviour follows; the others stay in their initial states,
in which their properties hold and none of their fair actions is enabled. A run
thus explores the sum of the modules.

## How the models correspond to the code

### Transactions

A transaction is broken where another one can come between: at each read (a
statement sees what is committed when it runs), at the row lock an UPDATE takes,
and at the commit, where all its writes appear. Requests live in slots
(`Calls`, `Requests`), worker runs in slots `Runs`; the slots bound how many
overlap, never how many there are. A transaction that fails, times out or dies
with its replica leaves nothing (`Rollback`, `Abort`, `RefundFails`, `Crash`).

| Code | Model |
|---|---|
| `checkout`: service look-up, look-up in the transaction, cart and foods, commit | `Submit`, `ReadKey`, `ReadCart`, `Commit` |
| `initiatePayment` | `InitiatePayment`: what it reads never changes, so one step |
| `verifyPayment`: read, lock at `payment.update`, commit | `BeginVerify`, `LockPayment`, `CommitVerify` |
| `verifySignature` | `VerifySignature` |
| `cancelOrder`: read and validate, commit | `BeginCancel`, `CommitCancel` |
| the claim query with `FOR UPDATE SKIP LOCKED LIMIT 10`, its end | `Claim`, `EndClaim` |
| `initiateRefund`: events, latest payment, lock, commit | `LoadState`, `LoadPayment`, `LockRefund`, `CommitRefund` |
| the customer pays at the gateway | `Capture` |
| food edits, cart worker | `EditFood`, `SyncCart` |
| `addToCart`, `updateCartItem`, `removeFromCart`: Redis get; set; Kafka send | `ReadCart`; `AddToCart`, `UpdateCartItem`, `RemoveFromCart` or `NotFound`; `EmitEvent` or `RequestFails` |
| `clearCart`: set; send | `ClearCart`; `EmitEvent` or `RequestFails` |
| `eachMessage`, `processEvent`: check, handler, mark, next message | `Deliver`, the steps below, `MarkEventProcessed`, `ResolveOffset` or `HandlerFails` |
| kafkajs' `autoCommit` at the end of a fetched batch | `CommitOffsets` |
| `syncCartToDatabase`: Redis get; transaction | `ReadRedisCart`; `WriteCart` |
| `clearCartInDatabase` | `ClearCartInDatabase` |
| the TTL of the cart; step 8 of checkout | `Expire`; `Checkout` |

### Handlers without a transaction, and the browser

`Accounts` and `FoodCatalogue` break a handler at each `await` of a repository:
`SignUpFinds` and `SignUpCreates`, `HandlerFinds` and `UpdateOwnRow`,
`UpdateUser`, `UpdateUserRole` or `DeleteUser`, `FindFood` and `UpdateFood` or
`DeleteFood`. The guards in front are `Identify`, which awaits the row of the
token's user, and `Guard`, which looks at the role in the row that was read. A row that is gone by then is
`RowGone` or `SaveRefused`. `CartSync` breaks its loop at each call of Redis and
at the commit.

In the browser a step is what runs between two awaits of one page or thunk, with
all it dispatches; requests live in slots and their answers arrive in any order,
or never. The reducers and effects that such a step sets off are part of it.

| Code | Model |
|---|---|
| request interceptor; response interceptor; `processQueue` | `CallApi`; `HandleSuccess`, `HandleFailure`, `JoinQueue`, `StartRefresh`, `NothingToRefresh`; `FinishRefresh` (`Resend`), `AbandonRefresh` (`Settled`) |
| `loginUser`, `logout`, `ProfileLoader`, `AuthListener` | `SubmitLogin`, `SubmitLogout`, `ClickLogout`, `LoadProfile` (in the step of its event), `AuthLogout` |
| sign-outs, sign-ins and refreshes of other tabs, in the shared `localStorage` | `OtherTabSignsOut`, `OtherTabStores` |
| JWT expiry, the backend's answers | `AccessExpires`, `RefreshExpires`, `ServerAccepts`, `ServerRefuses`, `ServerRefreshes`, `RefreshFails` |
| `fetchOrders`, its effect and its interval | `Asking`, `ListRead`, `ListShown` or `ListFails`; `ShowView`; `Poll` |
| `handleStatusUpdate` | `UpdateStatus`, `ServiceUpdates`, `ShowUpdate` or `UpdateFails` |
| `cartSlice` with `localStorage` | `Added`, `Removed`, `Requantified` in `ChangeCart`, which stores what it makes; `LoadTab` |
| `handleChange`, `placeOrder` | `FillForm`; `PlaceOrder`, then `OrderAccepted` or `OrderFails` |
| `useOrderConfirmation` | `FirstConfirmation`, `Aged`, `OrderShown`, `OrderNotFound` |
| `fetchMenuItems`, `useMenu` | `FetchItems` in `OpenMenu` and `Retry`, `MenuLoaded` or `MenuNotLoaded`, `ChooseCategory` |
| `ProxyController`, `ProxyService`, `GlobalExceptionFilter` | `SendCall`, `Throttle`, `RouteMissing`, `BackendServes`, `BackendThrows`, `BackendGone`, `Relay`, `ShowReply` |
| `RateLimitMiddleware.use`, `cleanup` | `Request`, `CleanedUp` |
| the cart's routes behind their DTOs | `AddDish` (`ServiceAdd`, `LuaAdd`), `UpdateDish` (`ServiceUpdate`, `LuaUpdate`), `RemoveDish`, `ClearDishes` |

`order_events` of an order is the sequence `log[o]`; `payments` is the table in
order of creation, a payment's id its position, so "latest" is the greatest
position.

### What is abstracted

- Event payloads, reasons, providers, ids of the gateway. A payment of the
  gateway is known by the payment its provider order was made for. A signature
  is the one the gateway made for some payment it took, or not genuine. The client
  may send any of them with any payment id: `verifyPayment` never compares the
  provider order it is given with the payment's own.
- The log is kept in commit order. The code sorts by `createdAt`, set by the
  INSERT while the transaction holds the payment's lock. The two events of a
  checkout come from one statement with one `createdAt`; they stay in the order
  of the statement.
- In `Checkout` a cart is a set of foods; quantities only scale the total. In
  `CartPipeline` it is a quantity per food, and prices do not matter.
- A change of the Redis cart is known by its number: `updatedAt` and the random
  event id both stand for it. The worker does not look at an event's payload, so
  events have none. The producer is created with `idempotent: true`, so a send
  appends once; redelivery comes from the uncommitted offset.
- A Redis read that fails answers null, as the code does, and so does every read
  between a connection error and the next connect; a lost mark and a mark that
  ran out of its 24 hours are such a read. In that time `set` returns without
  writing (redis.service.ts:115): the change is then in no cart, and its event
  goes out all the same. `written` in an event of the model says which it was;
  it is not in the message, and no step of the worker but the bookkeeping of
  `owed` looks at it.
- How many messages a fetch brings is not modelled: `CommitOffsets` may come
  after any message, and a crash delivers everything after the last commit again.
- Gateway orders whose transaction rolled back: no row names them and no code
  reads them.
- A key belongs to the user whose client made it.
- `crypto.timingSafeEqual` is outside the repository: the constant
  `StringsCompare` says whether it compares two strings. Node's does not (it
  throws), and the run `signature` shows what that means; the other runs set it
  TRUE, the behaviour the rest of the code is written for.

- In `ApiGateway` the error P1017 stands for all Prisma errors after which nobody
  knows whether the transaction was committed.
- In `CartContracts` the quantities are those the DTOs let through: at least 1 to
  add (cart.dto.ts:12), at least 0 to update (cart.dto.ts:21); the functions of
  `mutations.ts`, which nothing calls, are tried on all of them.
- Of a user the e-mail and the role are kept, of a food the price and the
  availability. Whether a password matches is a free choice. A token is its
  payload; in `TokenSession` it is a number that has expired or has not.
- An amount of money is named by its cents; multiplying it may be a tenth of a
  cent off (`Product`), which stands for the error of a double.
- A cart of `CartSync` is known by the change that made it; one user is followed,
  and whoever changes a cart is taken to mark it, since nothing in the repository
  does.
- In `Storefront` every line has the key `undefined`, as in the code (see below).
  The form is complete or not. In `CustomerMenu` a list is the set of categories
  it has foods in.
- The order and menu APIs the browser modules call are external to them: they
  answer with what they have when they are read, or fail.
- The browser is a production build. In a development build `React.StrictMode`
  (index.js:11) runs effects twice; the clean-up of `useOrdersManagement` and
  `useOrderConfirmation` then leaves `isMounted` false for good, and both pages
  ignore every answer.

`RefundOrchestratorService` and `RefundRecoveryWorker` are providers and run;
`OrderCancellationService` is written but no module provides it and no route
leads to it. It is modelled as what it does when it is called.

## Runs

| Run | Shows | Bounds and why they suffice |
|---|---|---|
| `payments_concurrent` | `TypeOK`, `StatusMatchesLog`, `RefundJustified`, `SuccessIsCaptured`, `ConfirmedIsPaid`, `ClaimsAreDisjoint` | one order, two payments (an older one next to the latest), two requests and two worker runs: every pair of operations overlaps, also two of a kind |
| `refund_worker` | `ImplementsLedger`, `RefundableIsRefunded` | one request and one run at a time (the ledger does not hold when they overlap: see `double_refund`); three orders that are cancelled with a succeeded payment, before or after the cancellation, a claim of two rows so that its LIMIT binds, one more payment, which makes a row stuck. It starts late in the day, in states the payment actions reach |
| `order_system` | `CheckoutTypeOK`, `OneOrderPerKey`, `NoZombieOrder`, `AmountIsSnapshot`, `LateRetryIsHarmless`, `ImplementsExactlyOnce` | one user with two keys, two checkouts at a time, one food with two prices, two orders, one payment. The worker's actions are covered by the payment runs, so `Runs` is empty here |
| `double_refund` | `NoDoubleRefund` is violated | one payment, two runs |
| `terminal_states` | `TerminalStatesAreFinal` is violated | |
| `stuck_refund` | `CancelledPaymentIsRefunded` is violated under fairness | two payments: the second hides the first |
| `signature` | `GenuineSignatureSucceeds` is violated | |
| `cart_pipeline` | `CartTypeOK`, `SyncedWhenDrained`, `SyncIsFresh`, `EventsAreHandled` | one food, two requests at a time, one consumer, two changes, every fault. Two changes are enough for one to overtake, lose or undo the other, and to be delivered again in one batch; the safety properties are proved for any number |
| `cart_out_of_order` | `OutOfOrderStaysCorrect` is violated | two requests, two changes, no fault at all |
| `cart_not_retried` | `FailedSyncIsRetried` is violated under fairness | one request at a time, failures of the database only |
| `frontend` | `FrontendTypeOK`, `RefreshIsSingleFlight`, `NoCallIsStranded`, `OneRefreshPerCall`, `SpinnersHaveRequests`, `OneOrderPerVisit`, `BoardCatchesUp`, `CallsSettle` | session: two calls, one of which refreshes while the other queues, two grants of tokens, so that a late one meets a newer one, and another tab that signs out or stores tokens at any time. Board: two requests, two pages, a filter, three statuses, one failure or departure. Storefront: two tabs, two foods, two orders, quantities up to 2. Menu: two requests, two categories |
| `services` | `ServicesTypeOK`, `NoLostUpdate`, `PricesAreTyped`, `NoLostAvailability`, `AtMostMaxInAnyWindow`, `ErrorsStayErrors`, `CartOpsAgree`, `MarkOutlivesFailure` | accounts: two ids, two e-mails, two requests. Foods: one food with one price and two saves under way. Limiter: two addresses, two requests per window of two ticks, five ticks, so that a window slides past its first request. Gateway: a routed and an unrouted resource. Contracts: two dishes, quantities up to 2. Sync: three changes with a clock that may stand still |

`MaxPayments`, `ClaimLimit` (10 in the code), `MaxWrites`, `MaxQuantity`,
`MaxCount`, `MaxGrants`, `MaxUpsets`, `LastPage`, `LastStatus`, `MaxNow`,
`MaxChanges` and `MaxClock` are the only caps on counters. In `services` requests, saves and addresses are given the same two
model values, so that one symmetry set covers all three; only one of them is in
use in any behaviour. The payment models may stop, when
every order is placed and its payments are used up, so their configurations do
not check for deadlock, and neither do those of the cart, whose changes are
limited, and those of browser and services, where users may stop;
`order_system` has no terminal state and does.

The properties, in words:

- `StatusMatchesLog`: the status column of a payment is the one set by the last
  event about it ("source of truth" in `schema.prisma`), although two writers
  may each have read a status that is gone.
- `RefundJustified`: before a `PAYMENT_REFUNDED` event stand the order's
  `ORDER_CANCELLED` and the same payment's `PAYMENT_SUCCEEDED`.
- `SuccessIsCaptured`: a success in the log is of a payment of that order, and
  through failures and refunds since, the payment's row names a payment the
  gateway took. It need not have taken it for this order.
- `ConfirmedIsPaid`: an order that reads CONFIRMED has a payment that is
  SUCCEEDED or was refunded.
- `ClaimsAreDisjoint`: no two claims, and no claim and a pending update, share a
  payment.
- `OneOrderPerKey`, `NoZombieOrder`, `ImplementsExactlyOnce`: the idempotency
  key. `LateRetryIsHarmless`: a retry of a key that has an order empties no
  cart.
- `AmountIsSnapshot`: the gateway is asked for the sum the checkout read.
- `RefundableIsRefunded`: a cancelled order whose latest payment has succeeded,
  no other payment of it refunded, does not stay so, as long as the rows the claim
  query selects in vain are fewer than its LIMIT (`ClaimHasRoom`). Without that
  condition the property is false of the same run.
- `SyncedWhenDrained`: when every event is handled, nothing is owed and no
  clear was sent behind a later change, the rows are the cart in Redis, although
  the worker read Redis at some other time than the events were sent, and
  events were repeated, failed or overtook each other. `owed` is the last change
  nobody will bring to the database (its event was not sent, its sync failed or
  found no cart, or the rows were emptied by a checkout, by a clear that Redis
  never wrote, or by one that was delivered again); a later sync makes it good.
- `SyncIsFresh`: a sync writes a cart that has the change it was sent for, if that
  change was written to Redis.
- `EventsAreHandled`: the committed offset passes every event, through crashes and
  failures.
- `RefreshIsSingleFlight`, `OneRefreshPerCall`, `NoCallIsStranded`,
  `CallsSettle`: at most one refresh runs, a call is sent again once, calls wait
  only behind a refresh that runs, and every call ends.
- `SpinnersHaveRequests`: what loads has a request under way.
- `BoardCatchesUp`: when nothing more is changed and polls come through, the
  board shows the page of the list it stands on.
- `OneOrderPerVisit`: one visit of the checkout page orders once.
- `NoLostUpdate`: handlers that found the same row do not undo each other.
- `PricesAreTyped`, `NoLostAvailability`: prices through the form and back, edits
  that overlap.
- `AtMostMaxInAnyWindow`: the limit, in every window and not only from the
  middleware's own point of view.
- `ErrorsStayErrors`: a page that is told of a success can rely on it, one that is
  told that it was forbidden, not found or in conflict on nothing having been
  done. A 400 leaves it open, because the filter makes one of every Prisma error,
  also of those that say nothing of the commit.
- `CartOpsAgree`: after any changes the DTOs let through, `CartService` and the
  scripts hold the same lines, one for each food, and the validator takes them.
  From there the functions return what the service does, for every quantity, or
  throw (they refuse the 0 with which the other two remove a line).
- `MarkOutlivesFailure`: a cart whose mark is gone is in the database, unless a
  change or an error of Redis met the run that removed it.

## Fairness

`EventsAreHandled` and `FailedSyncIsRetried` are checked under
`ConsumerFairness`, strong fairness of each step of the consumer (weak fairness of
the delivery, which stays due until it happens): Kafka delivers again after a crash for as long as a consumer of the group lives, and
it does not die at the same step for ever. A sync may fail each time
(`WriteCart(w) \/ HandlerFails(w)` is one choice). Nothing is assumed of the
user's requests.

`CallsSettle` is checked under `SessionFairness`: weak fairness of every step of
a call that has been sent, and of a refresh. axios settles each request, with an
answer, a time-out (30 s; the refresh call has none of its own and relies on the
browser's) or a network error, and a promise that has settled is
delivered. Which of them it is stays free. Nothing is assumed of the user.

`BoardCatchesUp` is checked under `BoardFairness`: requests are answered, and
the interval of the page fires for as long as it is mounted. Strong fairness of
the poll, because the slots bound the requests under way and one may be taken
whenever the interval fires; failures, departures and presses of Refresh are
bounded by `MaxUpsets`, so that in the end polls come through.

`RefundableIsRefunded` and `CancelledPaymentIsRefunded` are checked under `WorkerFairness`. The timer in `main.ts` starts a run every 30
seconds on every replica for as long as it lives, and a claim skips a row while
another transaction holds it, so being claimable comes and goes: strong fairness
of `Claim`. A run that has begun comes to its end, if only by a failure or a crash
(weak fairness of its steps together). Which rows a claim takes stays free: the
query has no ORDER BY. A run that claims an order again and again gets through
with it some time (`Serves`): a replica does not die at the same step of every
run, and not every refund of one order fails. Weak fairness of a request's end
(commit or rollback): Prisma times interactive transactions out. Nothing is
assumed of customers: that they pay, verify, cancel or try again.

## Proofs

`OrderPaymentProofs` holds for any sets of orders, requests and runs, any bound
on payments and any claim limit (`ConstantsAssumption`, which asks only that
`NoOrder` is no order and that the numbers are natural).

The safety invariants are not inductive by themselves. `RefundJustified` needs
to know that what a run read of the log is still there when it commits;
`SuccessIsCaptured` that the gateway's payment whose signature a request holds is
one it took;
`StatusMatchesLog` that events about a payment go to its own order's log. So

    IInv == TypeOK /\ CallOK /\ RunOK /\ EventsOK
            /\ StatusMatchesLog /\ RefundJustified /\ SuccessIsCaptured

`CallOK` and `RunOK` say what a request or run in flight may rely on, `EventsOK`
that an event names a payment of its order. The argument has two halves. First,
`StepKinds`: every step of the system writes nothing, or is one of four kinds of
write (an order placed, a payment initiated, a payment settled, an order
cancelled), each with what justifies it; the row locks are not needed for this.
Second, one lemma per conjunct over the four kinds. `Grows` (events and payments
stay where they are) carries most of them. `ConfirmedIsPaid` follows from the
invariant: the event that made the order CONFIRMED was a success, and only a
refund can have come after it that touches that payment. `ClaimsAreDisjoint` is
inductive on its own and is the one place where the locks matter.

Two things of `OrderPaymentProofs` go beyond this invariant. `DeriveIsLoop`
says that for every log the closed form of `deriveOrderState`, which the model
and all its properties use, is what the loop in the source computes. The proof
cannot use induction over the log. It takes the least length of a prefix for
which the loop's value would not be the one its last setter leaves, and the prefix
one shorter contradicts it.

The other is what overlap costs. A payment is `Shared` in a state in which two
requests, or two runs, have read it and not yet written to it. `OnlySharingMovesBack`
says of every behaviour, with any number of requests, runs, captures and crashes:
either a payment is shared at some time, or it is settled once and refunded only
after its success. `OnlySharingRefundsTwice` says the same of two refunds. Nothing
in the code excludes sharing (`double_refund` shows two runs that share a
payment), so this is not a promise but the one way to break README.md:151. The
refinement of `PaymentLedger` itself is only model-checked, for one request and one
run at a time.

`OrderSystemProofs` proves for the checkouts that types and `NoZombieOrder` are
inductive (`KeyInvariant`), that `OneOrderPerKey` follows, that late retries are
harmless, and that `Checkout` refines `ExactlyOnce`. The composed system is a
behaviour of either side: `Spec => CheckoutSpec` (`SystemRunsCheckouts`) and
`Spec => PaymentProofs!Spec` (`SystemRunsPayments`), where `PaymentProofs` is
`OrderPaymentProofs` instantiated with the composed system's tables. So every
theorem of both sides holds of it (`SystemKeepsPromise`, `SystemKeepsPayments`).
The second needs `SystemAssumption`: what a checkout can come to is one of the
`Totals` the payments may ask for, which only relates the constants of the two
modules. `AmountIsSnapshot` is about both sides at once, and its proof joins an
invariant of the payments (`AmountsOK`: an amount is the total its order entered
with) to one of the composition (`SnapshotOK`: an order has a log from its commit
on, and its total is the sum of the lines the commit wrote).

`CartPipelineProofs` proves `CartTypeOK`, `SyncedWhenDrained` and `SyncIsFresh`
for any foods, requests, faults and bounds, with one consumer of the partition
(`OneConsumer`, what a Kafka consumer group provides). The inductive invariant
`CartInv` has ten parts, the three that carry the argument being:
`LastIsAccounted` (the last change is about to be sent, was sent, or is owed),
`HoldsFresh` (the cart a sync holds is at least as new as the change of every event
up to its own that Redis wrote, because a request writes Redis before it sends) and `LastIsSynced` (once
the worker is through with an event of the last change, the rows are the cart
in Redis, unless something is owed or a clear is out of order); `ClearsStay` keeps
the clears that may be delivered again behind a crash. There is one lemma per
action.

`AccountsProofs` proves `NoLostUpdate` for any users, e-mails and requests. It assumes that the table starts with a user
and that the two names that stand for "no value" are no values
(`AdminAssumption`, `NamesAssumption`). As for payments, `StepKinds` reduces
every step to a write (none, a new row, a patch of a row, a deletion), and one
lemma shows that each write keeps `AccountInv`: a patch sets the same columns of the
table and of the history.

`FoodCatalogueProofs` proves `PricesAreTyped` and `NoLostAvailability`, for any foods, clients and natural prices. A price waits in
many places before it is written (the list, the form, the requests), so the
invariant says of each of them that what is there was typed once. The step that
matters is `RoundingIsExact`, for any natural number of cents: the form multiplies
what was typed by 100, a product that may miss the cents by a little either way,
and rounding finds them.

`FrontendProofs` proves the safety properties of the browser for any calls,
tabs, foods, orders, requests and bounds. Each machine has an invariant of its
own, and its theorem one lemma per action:

- `SessionInv`: `isRefreshing` is set exactly while a refresh is under way, and
  then one call is behind it; the queue holds the calls that wait, and only
  while it is set; a call that is not marked as retried has refreshed nothing.
  None of it speaks of the storage, so other tabs cannot break it.
- `MenuInv`: the slice loads only while a request is under way, also after the
  page was left and opened again.
- `BoardInv`: the page has one interval, that of the view it shows, and none when
  it is left; then nothing is under way but an update nobody waits for. It is
  what the types of `FrontendTypes` need.
- `StoreInv`: a checkout page loads exactly while it waits for an order, and it
  waits for one only (`OneOrderPerVisit`). The lines of a cart stay a sequence of lines through
  `filter`, which is where `FilteringProofs` is used. It assumes that there is a
  tab (`StoreAssumption`).

`FrontendTypes` and `SpinnersAreServed` are of all four side by side.

`ServicesProofs` proves, again for any values of the constants:

- `MarkOutlivesFailure`, from a statement about the run of the sync: as long as
  nobody has disturbed it, the cart it holds is the one in Redis, and once its
  transaction is through, the one in the database.
- `ErrorsStayErrors`, from what each station may rely on: an answer on its way
  says what the backend did, a call that has not got there has done nothing.
  It assumes that there is something to call for (`RoutedAssumption`).
- `AtMostMaxInAnyWindow`. The property speaks of the log of all accepted
  requests, the middleware only of the times it remembers. The invariant says
  that these are a tail of the address's log and that everything before the tail
  is older than the window; so whatever cleanup and filter have dropped, the
  middleware still counts all requests of the window that ends now, and a window
  that ends now is the fullest a new request can come into.
- `CartOpsAgree`: the service's cart and the scripts' cart have the same lines in
  the same order, one for each dish, each of a quantity the validator takes. In
  such a cart cutting out the first line of a dish (`splice`) and keeping the
  lines of the others (`filter`) is the same (`SplicedIsWithout`).
- `ServicesTypeOK`, of all six side by side, with the invariants of `Accounts`
  and `FoodCatalogue`.

`FilteringProofs` is about `Filtering`, which says what `filter` does by the set of
positions it keeps. The library's `SelectSeq` is recursive and out of the prover's
reach; an `ASSUME` in `MCServices` has TLC compare the two on all short sequences.
Where one would use induction, the lemmas take the least element of a nonempty
set of naturals (`Least`).

Every invariant and action property a run checks is thus also a theorem, and so is
the refinement of `ExactlyOnce`. Only model-checked are `ImplementsLedger`, whose
run has one request and one worker run at a time, and the four liveness properties
`RefundableIsRefunded`, `EventsAreHandled`, `CallsSettle` and `BoardCatchesUp`:
fairness, and the ENABLED it is made of, is out of the prover's reach.

## What the code does and its documents do not say

- Two overlapping runs refund a payment twice. The row locks of the claim end
  with the claim, and `initiateRefund` updates a status it read before it waited
  for the lock. README.md:151 says "No double refunds".
- `initiatePayment` looks at no order state. A CANCELLED or CONFIRMED order goes
  back to PAYMENT_IN_PROGRESS, although `order-transitions.ts` calls both
  terminal.
- A succeeded payment of a cancelled order may never be refunded: the claim
  query sees it on every run, and `initiateRefund`, which looks at the latest
  event and the latest payment only, returns null on every run. README.md:152
  says "Eventually consistent".
- `timingSafeEqual` is given strings and throws; every verification fails.
- A CART_CLEARED event behind the event of a later change empties the database
  cart: `clearCartInDatabase` does not read Redis. README.md:244 says "Even if
  events are out of order -> data stays correct".
- A sync that fails is logged and its offset committed. README.md:297 says
  "Worker retries in next batch cycle"; the code has neither batches nor retries.

Behaviours of the code that no run above is about, each possible in the models:

- The run of `CartSync` removes the mark after every success, whatever
  `safeRemoveDirtyFlag` found (cart-sync.service.ts:36): a change made during the
  sync loses its mark, contrary to cart-sync.service.ts:52 ("Race-condition safe
  using version checking"). `MarkOutlivesFailure` therefore speaks of failures.
- Payments that stay SUCCEEDED for ever also fill the claim: it takes ten rows in
  no order, and once ten of them are stuck (`StuckRows`), a payment that could be
  refunded may never be claimed, "Eventually consistent" (README.md:152) or not.
- `verifyPayment` does not compare the provider order it is given with the
  payment's own: the signature of one captured payment settles another payment,
  of whatever order and amount.
- Between a connection error and the next connect a change of the cart is
  acknowledged and its event sent although Redis never wrote it.
- A tab does not hear of a sign-out in another one: it stays signed in without a
  token until its next call is refused. A tab with an older cart writes it over
  the stored one.
- The row of a token's user is read before the guard and the handler run: a
  change of role, or a deletion, in between does not stop the request.
- The public menu's foods have an `id` and no `_id`; the cart slice compares
  `_id`, so every food added becomes one more of the first line.
- A refresh or a sign-in that is answered after a sign-out stores its tokens.
- useLogin.js:65 looks for the role 'admin'; the backend's is 'ADMIN'.
- On the orders board the press of Refresh passes its click event as the page,
  and an older answer sets the page back, which starts another request.
- An accepted order empties the cart, and the empty cart sends the checkout page
  to the cart page while the order sends it to the confirmation.
- A confirmation page whose address changes may show the order of the old one.
- A menu request that fails before another succeeds leaves its error above the
  newer list.
- `formatFoodOutput` spreads the entity's private fields: the admin's page gets
  `_name` and not `name`, and an edit sends an empty description and image.
- The gateway answers every success with 200, a 304 of the backend with 500, and
  has no route for `/menu`. Errors of the domain that are no HttpExceptions
  become 500.
- The scripts accept a quantity of 0 in `cart-add`, which the DTO keeps from the
  service and at which `addItemToCart` throws; `updateItemInCart` throws at the 0
  with which service and script remove a line. The scripts write without the key's TTL,
  and leave `{}` where the validator expects a list once a cart is emptied.
- `RateLimitMiddleware`, `CartSyncService` and the Lua scripts are called by
  nothing.

## What is not modelled

Reads that change nothing (`getTimeline`, `getPayment`, the lists, the sums of
the admin dashboard), formatting, logging, configuration, health checks,
connection handling of Redis and Kafka, and the layout of pages. The order entity
and rules of the domain, `ordersSlice`, most thunks of `menuSlice` and
`useUserProfile` are used by nothing. Deleting a user takes the user's carts and
orders with it; the models of orders do not have that step. The throttler's
counters belong to its library.

## Plan

Written first are the parts where money and orders can go wrong. In order:

1. `OrderDomain`, `OrderPayment`, `Checkout`, `OrderSystem`, their abstract
   specifications and proofs (done).
2. `CartPipeline` and its proofs (done). Left: two consumers of one partition after
   a stall, and the composition with `Checkout` through `SyncCart`.
3. `TokenSession`, `OrdersBoard`, `Storefront`, `CustomerMenu` (done).
4. `Accounts`, `FoodCatalogue`, `RateLimiter`, `ApiGateway`, `CartSync`,
   `CartContracts` (done).
5. `AccountsProofs`, `FoodCatalogueProofs`, `ServicesProofs`, `FrontendProofs`
   (done).
6. `deriveOrderState` as a loop, `AmountIsSnapshot`, what it takes to refund a
   payment twice, the composed system as a behaviour of the payments (done).
7. Left: the composition of `CartPipeline` with `Checkout`, whose `SyncCart` is a
   free write there, and the two consumers after a stall.
