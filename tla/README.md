# Luce Bianca: verification project

Luce Bianca is a web shop: a PHP API over MySQL (`api/`), its schema and
migrations (`database/`), and a Next.js storefront and back office
(`frontend/`). This directory holds TLA+ models of the parts whose correctness
depends on the order in which things happen, the TLC runs that check them on
small instances and the proofs TLAPS checks for all instances.

    tlc -config OneOrder.cfg MCOrderLifecycle      # any run of PROJECT.json
    tlapm OrderLifecycle_proofs.tla                # the proofs of a module

## 1. Inventory

Paths are relative to the repository. "Hard" names what makes a part hard to
test.

| Part | State | Operations | Hard | Correct when | Status |
|---|---|---|---|---|---|
| Orders and stock: `OrderService`, `OrderRepository`, `OrderController`, `Admin/OrdersController` | `orders`, `order_items`, `product_variants.stock_quantity` | place, cancel, staff update | reads before a transaction, several actors on one order, all-or-nothing over lines, deadlocks between row locks | stock is neither lost nor restored twice; cancelled, paid and released agree | modelled |
| Card payment: `PaymentController`, `PaymentService`, CMI gateway | `payment_status`, `inventory_released_at`, open hosted pages | initiate, retry, callbacks | repeated, reordered, lost and late callbacks; retry racing cancel | paid orders hold their stock; nothing undoes a payment | modelled |
| Expiry: `scripts/expire-card-pending.php` | candidate ids | select, expire, skip | overlap, crash, one id failing | stale orders are expired, each once | modelled |
| Totals: `quoteCart`, coupons, shipping | settings, `coupons` | quote, price at checkout | rounding, a coupon edited during checkout | order total = quoted parts; discount bounded | planned |
| Catalogue (API): `Admin/ProductsController`, variants, images, categories, sizes, colours | product tables | CRUD, upload | check-then-write, absolute stock edits, two main images | no order is overwritten; one main image | planned |
| Catalogue cache: `Core/Cache` | files with TTL | get, put, clear | repopulation after an invalidation | stale data lives at most a TTL | planned |
| Customer accounts: `AuthService`, `RefreshTokenRepository`, `UserRepository` | `users` with its one-time links, `refresh_tokens` | register, login, Google, refresh, logout, verify, reset | each request is several statements without a transaction | sessions end when they should; one account per address; a flag is set only for a proven address | modelled (access token and clocks left out) |
| Staff accounts: `AdminAuthService`, `Admin/AccountsController` | admins, sessions | login, CRUD, revoke | two deletions at once, sign-in against deletion | never without an admin; one address each; a deleted admin is signed out | modelled (passwords left out) |
| Rate limits: `RateLimiter`, `RateLimitMiddleware` | bucket files | hit, reset | an empty bucket after a failed write, window edges | at most N hits per window | planned |
| CSRF, `Router`, `Request`, `Response`, `Validator`, `Env`, `Database` | per request | dispatch, parse | little state | — | not modelled |
| Newsletter, reviews, wishlist, contact, settings, dashboard | a table each | CRUD, unsubscribe links | few interactions | — | newsletter planned |
| E-mail, notifications, Cloudinary, Google | external | send, upload, verify | best effort, no state of the shop | — | not modelled |
| `MigrationRunner`, `migrate.php` | `schema_migrations` | apply | crash in the middle of DDL | applied = recorded | planned |
| `ErrorLogger`, `backup-db.php` | files | write, rotate, dump | I/O | — | not modelled |
| Storefront cart: `lib/cart-context.tsx`, `variant-selector.tsx`, `cart-view.tsx` | `localStorage`, a copy per tab | add, change, remove, clear | two tabs, stale product pages, preselected chips | quantities within stock; the last writer's cart is stored; what is added is sold | modelled |
| Checkout: `checkout-form.tsx`, order confirmation | the form's React state, running presses of its button | load, edit, coupon, submit | handlers that go on after the form, the cart or the page changed; answers in any order | an order carries what was validated, an accepted coupon, an offered method; the button comes back | modelled |
| Payment page: `payment-view.tsx` | phase, interval, requests under way | load, pay, poll, come back | overlapping polls that nothing cancels, requests that fail | it confirms paid orders only; polling ends | modelled |
| Back office session: `lib/admin.ts`, `proxy.ts`, `admin-shell.tsx`, sign-in page | token in `localStorage`, gate cookie | sign in, verify, sign out, expire | other tabs, a browser restart, late refusals | the cookie never outlives the session | modelled |
| Back office pages: orders, products, product form, coupons, reviews, messages | list, query, dialogs, busy flags, chosen images | load, turn, filter, change, upload | loads and changes answered late, pages left meanwhile | a list answers the query shown and is no older than its reload; nothing stays disabled; the main image is the chosen one | modelled |
| Dashboard, categories, customers, settings of the back office | lists, forms | load, save | as above | — | not modelled |
| Customer pages, header search, wishlist | session, heart | — | late answers | — | not modelled, except the cart drawer |

How they interact: the storefront and the back office call the API over HTTP,
each request is one PHP process with one MySQL connection; requests meet only in
the database, in the cache and rate-limit files and through the gateway's
server-to-server callbacks. Transactions that touch an order start with
`SELECT ... FOR UPDATE` on its row. The cron is one more process on the same
database. In a browser, tabs meet in `localStorage` and cookies only, and within
a tab handlers interleave at every `await`; React effects cancel what they
started before, event handlers do not.

The hazards, each with its line, are in `PROJECT.json`.

## 2. Modules

| Module | Models | Used by |
|---|---|---|
| `StockParameters` | the constants `Reservation` and `CheckoutLocks` share, and what is assumed of them | both |
| `Reservation` | what the shop promises about stock: the abstract specification | `OrderLifecycle`, `CheckoutLocks` (refinement) |
| `CardPayment` | what the payment of one order promises: it is settled once | `OrderLifecycle` (refinement), `PaymentPage` (its server) |
| `OrderLifecycle` | orders, payment, stock, cron, staff and gateway, all at once | `MCOrderLifecycle` |
| `CheckoutLocks` | the stock transactions of `OrderLifecycle` statement by statement, with InnoDB's row locks | `MCCheckoutLocks` |
| `AdminAccounts` | staff accounts and their sessions | `MCAdminAccounts` |
| `CustomerAccounts` | customer accounts, their sessions, verification and reset links | `MCCustomerAccounts` |
| `ShoppingCart` | the cart in the tabs of one browser | `MCShoppingCart` |
| `CheckoutPage` | the checkout form in one tab, until the confirmation or the gateway | `MCCheckoutPage` |
| `PaymentPage` | the payment page of one order, with the gateway behind it | `PaymentPage.cfg` |
| `AdminSession` | the staff session of one browser, and what a request of a page is | the next five |
| `OrdersPage`, `ProductsPage`, `ProductForm`, `CouponsPage`, `InboxPage` | a page (or two that behave alike) of the back office each | `BackOffice` |
| `BackOffice` | proxy, shell and router over those pages: one is mounted at a time | `MCBackOffice` |
| `*_proofs` | the theorems about the module they are named after; `Storefront_proofs` those of `ShoppingCart` and `PaymentPage` | |
| `MC*` | instances for TLC | the `.cfg` files |

### Reservation

`stock[v]` is the shelf, `held[o]` the units order `o` holds, `supply[v]` what
the shop owns (a history variable: what was delivered and counted). An order
takes a whole cart if every line is in stock, gives all of it back once, and a
recount changes shelf and supply together. `StockConserved` says shelf plus
held units equal the supply. It has no run of its own: it is checked and proved
through the two modules that implement it.

### CardPayment

`status` is `payment_status`: pending until `Settle` makes it paid or failed,
once. It stands between the server and the page: `OrderLifecycle` implements it
for every order until staff change its payment (`PaymentsSettleOnce`), and
`PaymentPage` has it as its server, so that what is shown of the page holds over
the orders of `OrderLifecycle`. A retried payment stays `failed` for both.

### OrderLifecycle

| State | In the code |
|---|---|
| `stock[v]` | `product_variants.stock_quantity` |
| `orders[o]` | the row of `orders` with its `order_items`: `status`, `payment` = `payment_status`, `method` = `payment_method`, `released` = `inventory_released_at IS NOT NULL`, `aged` = older than the expiry window |
| `req[w]` | what a PHP request has read and which step comes next |
| `todo[c]` | the ids a cron run selected and has not handled |
| `sessions`, `callbacks` | open hosted payment pages; results the gateway settled |
| `supply[v]` | history variable, see `Reservation` |
| `byStaff` | history: the orders whose payment a form of staff has changed |

| Action | Code |
|---|---|
| `PlaceOrder`, `PlaceOrderCommit` | `OrderService::placeOrder`: checks on plain reads; the transaction |
| `CancelOrder`, `CancelOrderCommit` | `cancelOrder`: read before the lock; the transaction |
| `AdminCancel`, `AdminFail`, `AdminWrite` | the three writing branches of `adminUpdate` |
| `UpdateVariant` | `ProductsController::updateVariant` with a fresh count |
| `Initiate`, `Reacquire`, `StartSession` | `PaymentController::initiate`, `reacquireInventoryForRetry`, `initiatePayment` |
| `GatewaySettles` | the gateway (external) |
| `CallbackPaid` | `markCardPaymentPaid` |
| `CallbackFailed`, `CallbackReread`, `CallbackRewrite` | `markCardPaymentFailed`: transaction, reread, unlocked rewrite |
| `CronSelect`, `ExpireStaleCardOrder`, `ExpireError` | `expire-card-pending.php`, `expireStaleCardOrder` |
| `Age`, `RequestDies`, `CronDies` | time passing, processes dying |

One transaction under the row lock is one step: every other writer of the row
waits for its commit. What happens before or after the transaction is a step of
its own. `CallbackPaid` starts from the callback itself because its earlier
reads (existence, method, amount) cannot change. A delivered callback stays in
`callbacks`: it may be repeated, delivered late or never.

Requests that change nothing are not steps. A settled hosted page leaves
`sessions`; two open pages of one order behave like one page opened again
later, because the shop looks only at the order id in a callback.

Staff may set any payment on any order that is not cancelled, so what the
gateway's payments promise (`PaidHoldsStock`, `PaidIsFinal`,
`PaymentsSettleOnce`, `FailureStands`) is said of the orders outside `byStaff`:
of every order until staff change its payment, whatever other forms they send.

### CheckoutLocks

`OrderLifecycle` takes a transaction as one step. That is right only if the
statements inside it cannot mix with those of another order's transaction, which
the row lock on the order says nothing about: two orders meet in
`product_variants`. `CheckoutLocks` splits the transactions into statements.

| State | In the code |
|---|---|
| `stock[v]` | the committed `stock_quantity` |
| `tx[o]` | the transaction of order `o`: `phase` (placing, releasing, retaking, or what its last one left), the `line` it works on or waits for, whether that line's item is `inserted`, the lines whose stock it `updated` |

| Action | Code |
|---|---|
| `BeginPlace`, `BeginRelease`, `BeginRetake` | `placeOrder`, the release loops (`cancelOrder`, `markCardPaymentFailed`, `adminUpdate`, `expireStaleCardOrder` share one shape), `reacquireInventoryForRetry` |
| `InsertItem` | `insertItem`; the foreign key of `order_items` takes a shared lock on the variant |
| `DecrementStock`, `OutOfStock`, `IncrementStock` | the UPDATEs and `rowCount() = 0` |
| `Commit`, `RollBack`, `TransactionFails`, `Deadlock` | commit; the catch blocks; what InnoDB does to a cycle of waits |
| `UpdateVariant` | staff's UPDATE, which waits for the lock like any other |

A lock is not a variable of its own: who updated a row holds it exclusively,
whose INSERT named it shares it, until the transaction ends. Lines are taken in
any order, since carts list them in any order. Placing a line shares the row
first and then wants it alone: two checkouts of one variant can each hold the
shared lock and wait for the other. InnoDB rolls one back and the customer gets
an error; the model has that deadlock, and `TransactionsEnd` says it is broken.
`NoLostWait` is its safety half: whoever waits has behind it a transaction whose
next statement gets its lock, or one of a cycle that InnoDB detects, so no lock
outlives its transaction. `TransactionsAdvance` says that each step of an open
transaction locks one more row or ends it, and that no other order's step
touches it.
The coupon's row lock comes before every variant lock and closes no cycle; it
is left out.

### AdminAccounts

| State | In the code |
|---|---|
| `admins[a]` | the row of `admins`: its address, not yet handed out, or deleted |
| `sessions[s]` | the row of `admin_refresh_tokens`: owner, live, ended (revoked or expired), deleted |
| `req[w]` | what a request has read and which write comes next |

| Action | Code |
|---|---|
| `Login`, `IssueTokenPair` | `AdminAuthService::login`: password check; the INSERT of the session, refused by the foreign key if the admin is gone |
| `Store`, `CreateAdminScript`, `Create` | the duplicate check and the INSERT under `uq_admins_email` |
| `RequestUpdate`, `Update` | the same for edits; a new password ends the sessions in one transaction |
| `Destroy`, `DeleteGuarded` | the session check; the transaction that locks all admins, checks and deletes, with the cascade |
| `SessionExpires`, `RequestDies` | time, a dying process |

### CustomerAccounts

`AuthService` runs no transaction: what a request read may be gone when it
writes, and a request can die between any two of its statements.

| State | In the code |
|---|---|
| `users[u]` | the row of `users`: address, linked to Google, verified flag, the verification and the reset link on it, and the password as the number of resets before it |
| `sessions[s]` | the row of `refresh_tokens`: live, or ended (revoked or expired). History: `password`, the one it was opened under; `from`, the session it was exchanged for; `late`, it was written after that password had been replaced |
| `req[w]` | what a request has read and which statement comes next |
| `mailed`, `proven`, `confirmed` | history: where each link went, which addresses their owner or Google proved, which resets were answered with success |

| Action | Code |
|---|---|
| `Register`, `Create` | the duplicate check; the INSERT under `uq_users_email`, also for Google accounts |
| `Login`, `LoginWithGoogle`, `LinkGoogle`, `IssueTokenPair`, `IssueFails` | the checks; linking; the INSERT of the session, or its failure |
| `Refresh`, `Rotate`, `Restore` | `findActive`; `revoke`; the catch block |
| `Logout` | `logout`, and a session that expires |
| `ResendVerification`, `SetEmailVerification`, `LinkFails`, `VerifyEmail`, `MarkEmailVerified` | resend's check, the link and its mail, a failing link at registration, a click, the flag |
| `RequestPasswordReset`, `SetPasswordReset` | `requestPasswordReset` |
| `ResetPassword`, `UpdatePasswordHash`, `ClearPasswordReset`, `RevokeAllForUser` | the four statements of `resetPassword` |
| `RequestDies` | a dying process |

A link is stored and mailed in one step: in between nobody can use it. A sign-in
with the password of a Google account is the same step as one with Google.
`late` marks what the code lets through: a sign-in or a refresh that checked the
old password or token and inserts its row after the reset's revocation.
`confirmed` keeps resets apart by link and by password, which shows two requests
that both passed the check with one link (`LinkResetsOnce`).

### ShoppingCart

`stored` is the cart in `localStorage`, `cached[t]` the copy of tab `t`, read
once and never again; `page[t]` is a product page with the stock it was rendered
with. `AddItem`, `RemoveItem`, `UpdateQuantity`, `ClearCart` are the functions of
the context (each a `Commit`), `HandleAdd`, `Decrease`, `Increase`, `Remove` the
buttons that call them, `ChooseSize` and `ChooseColor` the chips, `OpenProduct`
and `Reload` new documents. A line keeps the stock it captured when it was added.

### CheckoutPage

| State | In the code |
|---|---|
| `route`, `items` | the page of the tab, the cart below it |
| `filled`, `loadingCustomer`, `settings`, `gateway`, `method`, `submitting` | state of the form |
| `checks`, `verdict` | validations of the load effect that can still answer; the lines `serverError` calls unavailable, of whichever cart it speaks |
| `code`, `preview`, `asked` | the coupon box and its requests |
| `press[c]` | one run of `handleSubmit`: where it stands, the cart, method and coupon it captured, and what was approved and sent |
| `accepted` | history: codes the server accepted |

`handleSubmit` is a chain of steps, one per `await`: `Press`, `SubmitChecked` or
`SubmitUnavailable`, `OrderCreated` or `OrderFailed`, then `OrderAnswered`, or
`StartCardPayment` and `GoToGateway` or `InitiationFailed`. A press whose page
has gone (`live`) sets no state any more but still navigates. The effect's
validations are cancelled when the cart changes (`OldChecksAreDropped`); that of a
press is not, and `SubmitUnavailable` may speak of a cart the drawer has changed
since. The order itself is `OrderLifecycle`'s; here the server accepts or refuses.

### PaymentPage

`order` is the payment status in the database, which the gateway settles at any
moment. Each request is two steps: the server reads the status (`HandleTick`,
`HandleLoad`, `HandleInitiation`), the page acts on it later (`TickAnswered`,
`LoadAnswered`, `InitiationAnswered`), or the request is lost. `timer` is the
interval that runs, `tries` the count of every poll: ticks of an interval that was
stopped are still answered, and read the count of their own poll when they are.

`initiations` has every call of `initiateCardPayment` apart. "Pay" and "Retry"
are shown whenever the page is ready or failed, and a failed answer of an earlier
poll brings them back while a payment is being started: two can be under way.
`place` is where the tab is. `InitiationAnswered` sets the interval and submits the
form (`leaving`); until the gateway's page is there (`GoToGateway`) the interval
fires and answers arrive. Behind the gateway the page is frozen, and `ReturnByBack`
is the browser's back-forward cache; `Open` is a new document with or without
`?pay=...`.

### BackOffice

`AdminSession` has the token in `localStorage` (`stored`), the gate cookie, the
tokens the API accepts (`live`), the page `shown`, the one the router is `going`
to, the shell's verification (`check`) and the requests of handlers (`calls`).
A request keeps its `token`, its subject (`arg`), what its closure captured
(`context`), whether the page that made it is still there (`here`) and whether the
API has acted (`done`). `Send` is the head of every handler (no session: sign
out), `Deliver` the common tail (401: sign out).

Each page has a list request that its effect replaces (`orderLoad`,
`productLoad`, `couponLoad`, `inboxLoad`): the cleanup sets `cancelled`.
Orders and coupons test it when they have the body, so the answer to a replaced
load does nothing. Products, reviews and messages test it before
`await response.json()` and not after: a load replaced while its body is being
read goes on as one of `lateProducts` or `lateInbox`, and its rows replace the newer
ones (`LateProductsAnswered`, `LateInboxAnswered`). `...Writes` counts the changes
the API made since the page was opened, `...Acked` those it had made when the page
was last told to reload, and a list carries the count it was read at. `InboxPage` is
both `reviews-client.tsx` and `messages-client.tsx`: they differ in their buttons
only.
`ProductForm` is the form of a new product and of an existing one; images are a
sequence of files and an index into it.

`BackOffice` adds `Proxy`, the mount of a page (`Mount`), links, addresses typed,
and `Restart`, which keeps `localStorage` and loses the cookie. `OtherTab` signs
in or out behind the page's back. `SaveAdminSession` and `ClearAdminSession` write
`localStorage` and the cookie in one step: the code does so in two statements of one
task, and a browser that dies or another tab that writes between them is left out.
What the records say (fields, amounts, texts)
is left out.

## 3. Runs

| Run | Question | Bounds |
|---|---|---|
| `one_order` | every actor on one order: invariants, refinement, no release of a paid order | 1 order, 2 variants, carts of 1 or 2 lines, 2 requests, 2 cron runs, all staff forms |
| `card_payments` | payments decided by the gateway and settled once, stale orders expired | 2 orders, 1 variant, 1 request, 1 cron run, staff cancel, reopen and confirm payments |
| `checkout_locks` | do statements under row locks make whole steps, does everyone who waits wait for something, does every transaction end | 3 orders, 2 variants, carts of one or both lines |
| `admin_accounts` | staff accounts against each other: an admin is left; addresses, sessions and types (`IInv`) | 3 admins, 3 sessions, 2 addresses, 2 requests |
| `customer_accounts` | registration, sign-in, refresh, verification and reset against each other: what requests rely on, what a reset ends, whom a link verifies | 2 ids, 2 sessions, 2 links, 2 addresses, 2 requests, 1 reset |
| `shopping_cart` | the copies of one cart in several tabs | 2 tabs, 2 sizes and 2 colours of which two pairs are sold, stock 0 or 2 |
| `checkout` | `handleSubmit` and coupon previews against everything the customer does meanwhile | 1 variant, quantity 1, 2 coupon codes, 2 presses, 2 presses or previews under way at once (`MaxRequests`), staff left only the card on |
| `payment_page` | overlapping polls, a second payment, the way back | 3 tries (40 in the code), 3 polls, 2 status requests and 2 payments being started under way |
| `orders_desk` | session, orders page and messages | 1 token, 2 requests, 2 orders, 2 pages, 2 filters; 1 message, 2 filters, 1 change, 1 load replaced while its body is read |
| `catalogue_desk` | products, form, coupons and reviews | 1 token, 1 request beside the loads, 1 product and 1 variant, 2 coupons, 2 files, 1 review, 2 pages of products and of reviews, 1 change of each kind since its page was opened, 1 load replaced while its body is read |

Two requests are enough for every race of the code: each race is between one
request's read and another actor's commit, and staff, callbacks and cron act
without a request slot. Two cron runs overlap in `one_order`. Two orders are
the fewest that compete for stock (`card_payments`), two variants the fewest
where one line is in stock and another not (`one_order`, `checkout_locks`) and
where the order of lines matters. With stock up to the quantity of a cart sold
out, last unit and exact fit all happen. In `card_payments` staff cancel,
reopen and confirm payments, of an order the gateway decides and of one beside it;
every form they can send is in `one_order`. Three orders give
cycles of waits longer than two, and a transaction that waits for a cycle
without being part of it. Three admins are the fewest of whom two delete each
other and a third remains, two addresses the fewest where one is free and one
taken. In `customer_accounts` two ids compete for one address, or have one each and
meet through a link that ends up on the wrong row: with two links, the account of
each can have its own, or one a link that replaces the other. Two sessions are a
session and the one it is exchanged for, or a sign-in beside a session that a reset
ends. Links, sessions and ids are never handed out twice, so their number bounds how
much happens; one reset has a password before it and one after it. `Orders` bounds how
many orders are placed, `MaxStock` what staff enter.

Two tabs are the fewest that write over each other; with two sold pairs on the
diagonal the preselected chips may name a pair that is not sold, and with stock 2
a quantity can be below, at and above it. Two presses overlap in every way that
more would, since each reads and writes the same few flags; with only the card on,
the selection has to move and when it can depends on which answer comes first. A
limit of three tries has a first, a middle and a last one, and three polls let two
replace each other with requests of both under way. Two coupon codes let
two previews under way differ, and either be answered last, while another code is typed; two
presses, or a press and a preview, overlap as well. What the properties say of coupons
depends on their codes only, so one line is enough; two payments being started are the fewest of which one fails while
the interval of the other runs. A list load, the one that
replaces it and a change in between need two pages (or filters) and one change; one
replaced load with its body under way is enough to come back over a newer list.
`InboxPage` has its two filters in `orders_desk` and its two pages in `catalogue_desk`.
In `orders_desk` two requests let the status of one order be answered while that
of another is under way. Tokens are issued again once nothing refers to them, so one is
enough for a session that ends and begins again; a refusal of an older token that
arrives beside a newer one needs two, which the proofs cover.

Two runs check a sentence of the documentation or of a comment that the code
does not keep, and find the trace. Eight more configurations like them are here to
be run by hand; TLC finds their property violated.

| Configuration | Sentence | What happens | Property |
|---|---|---|---|
| `RetryPaid.cfg` (run `retry_paid`) | the card flow ends in a recorded payment, also after a retry | `markCardPaymentPaid` rejects a success when the stored payment is `failed`, which it is after every retry | `ApprovedPaymentIsRecorded` |
| `RetryAbandoned.cfg` (by hand) | "a card order created but never paid within the window is moved to cancelled", its stock restored | a retry takes the stock and leaves `payment_status` `failed`; the cron selects `pending` only | `UnpaidOrdersGiveStockBack` |
| `FailedCancel.cfg` (by hand) | "failed/pending card orders cancel normally" | the failure already claimed the release; the cancellation rolls back and answers 200 | `UnpaidOrdersCancel` |
| `FailedOverPaid.cfg` (by hand) | "only a still-pending card payment may move to failed" | the failure is recorded and committed, staff confirm the payment, and the unlocked rewrite puts `failed` over it | `OnlyPendingFails` |
| `ResetTwice.cfg` (by hand) | "a one-time token", "single-use" | two resets read the link before either clears it, and both are confirmed | `LinkResetsOnce` |
| `RefreshTwice.cfg` (by hand) | "only the newly issued pair can be used from now on, so a stolen token works at most once" | two refreshes read the token as active before either revokes it; `revoke` does not ask | `ExchangedOnce` |
| `FailedRefresh.cfg` (by hand) | "restore the old token so the client can retry instead of being locked out" | the revoked row is still there and the unique key on the hash refuses the second one | `FailedRefreshRestores` |
| `OrdersStuck.cfg` (run `orders_stuck`) | page and filter changes flip `loading` on "before the effect re-runs" | Next after a failed load asks for the same page: the effect does not re-run, nothing switches `loading` off | `LoadingIsUnderWay` |
| `PaidReleased.cfg` (by hand) | "paid can never resurrect a released order", said of callbacks | staff confirm the payment of a failed, released order | `PaidOrdersHoldStock` |
| `StaleLists.cfg` (by hand) | none: no document speaks of it | a list of products, reviews or messages replaced while its body was read comes back over the newer one | `NoListFromThePast` |

One more sentence the code does not keep has no run: "Cancelled is terminal"
(`docs/decisions/2026-10-04-payment-shipping-inventory.md:86`). `AdminWrite`
puts any other status over `cancelled`, one step away.

### Fairness

`CronSpec`: the crontab starts a run every 15 minutes (weak fairness of
`CronSelect`) and the loop reaches every id; a run may die and a database error
may skip an id, but an id that is tried again and again is handled once (strong
fairness of `ExpireStaleCardOrder` per order). `GatewaySpec`: the gateway
repeats a settled success until the shop has processed it (strong fairness of
`CallbackPaid`); it makes the counterexample of `retry_paid` meaningful, since
without it the callback might just never arrive. `RetryAbandoned.cfg` is checked
under `CronSpec`. No other action is fair:
customers, staff and the gateway owe nothing.

`FairSpec` of `CheckoutLocks`: InnoDB grants a row's locks in the order they
were asked for, so a statement whose lock comes free again and again gets it
and PHP goes on to the commit (strong fairness of `Proceed` per order); it
detects deadlocks (weak fairness of `Deadlock`). Without
`Deadlock` two checkouts of one variant would wait until the lock wait timeout.

`Spec` of `CheckoutPage`: a request is answered or fails, so each press goes on
(weak fairness of `PressProgress` per press), the account request ends, and the
guard of an empty cart redirects. `Spec` of `PaymentPage`: the interval fires
while it runs, each request is answered or lost (weak fairness), and the requests
of an exhausted poll do not all fail for ever (strong fairness of handling and
answering one at the last try): a failed request never looks at the limit, so
without it polling would go on, as the code does while the network is down.
Whatever the customer, staff, other tabs and the gateway do is not fair.

## 4. Proofs

`Reservation_proofs`: `Typing` and `Conserved`, for all finite sets of orders
and all variants. `ConservedStep` is the heart: the sum over orders of what
they hold changes in one order only.

`OrderLifecycle_proofs`, from the assumptions of the module (`Orders` finite,
bounds natural numbers, methods and forms of the right kind):

1. `Invariance`: `IInv` is inductive. Types alone are not: the release of an
   order needs that the order exists (`RequestsPlaced`, order rows are never
   deleted), `CancelledIsReleased` is what keeps `CallbackPaid` and `Reacquire`
   away from cancelled orders, and `NeverCancelledAndPaid` is needed for staff's
   plain write. One lemma per action, `RowWritten` for what they share.
2. `CancelledNeverPaid`, `CancelledReleased`: parts of the invariant.
3. `Refinement`: every step is a `Reserve`, `Release` or `Recount` of
   `Reservation`, or leaves stock and holdings alone.
4. `Conservation`: `StockConserved` of the detailed model, from `Refinement`
   and `Conserved`.
5. `PaidStockStays`: `RowSteps` lists what a step can do to one row; none
   releases a paid one.
6. `PaidHolds`, `PaidStays`: of the orders outside `byStaff`, for every set of
   forms. The invariant adds `FailureStands` (what the unlocked rewrite relies on)
   and that a paid order has an approved callback. Of the others both are false:
   `PaidReleased.cfg` and `FailedOverPaid.cfg` show it.
7. `FailureKept`: what `markCardPaymentFailed` found is still so when its unlocked
   rewrite runs, unless staff changed the payment meanwhile (`ByStaffGrows`: once an
   order is in `byStaff` it stays there, so what is assumed of an order after a step
   held before it).
8. `SettledOnce`: the payment of every order outside `byStaff` implements
   `CardPayment`. `PaymentStep` reads it off `RowSteps`; the rewrite is a stutter or
   settles a pending payment because of `FailureStands`.

`CheckoutLocks_proofs`: `Invariance` and `Refinement`, for every finite set of
orders, every set of variants and every set of carts. What a transaction took is
not yet in `stock` when it commits, so the refinement needs that it is still
there: `TakenInStock`, which holds because nobody else commits a change of a row
under an exclusive lock (`LocksExclude`) and whose second half says that the
loop ends only when every line is updated. `Conservation` follows as it does for
`OrderLifecycle`.

`NobodyForgotten` (`NoLostWait`) needs no induction over chains of waits: if
nobody in a set closed under waiting can go on, everyone in it waits for someone
in it (`BlockersAreOpen`: only open transactions hold locks). Strict inclusion
is well-founded on the subsets of a finite set, so among the sets of which that
is so there is a smallest, and it is a cycle (`StuckHasCycle`). With `Advance`,
each transaction has finitely many statements. These are the two safety facts that
`TransactionsEnd` rests on beside the fairness of InnoDB; the temporal argument
itself is checked by TLC only.

`AdminAccounts_proofs`: the invariant is inductive as it stands. `AdminRemains`
rests on the lock over all rows: the guard counts the admins that exist when
the DELETE runs. `SessionsOwned` rests on the foreign key and its cascade.

`CustomerAccounts_proofs`, for any sets of ids, sessions, links, addresses and
requests. The properties are not inductive, since a request writes on what it
read earlier: `RequestsSound` says what of it still holds, one conjunct per
point a request can stand at. `LinksSound` gives it its ground: a link on a row
went to the address of that row, addresses never change and no link goes out
twice, so a click proves the address it verifies (`VerifiedIsProved`), and a
link taken off a row comes back on none (`ConfirmedSound`, `ConfirmedLinkDead`).
`ConfirmedLinkDead` does not say that a link works once; it does not, as
`ResetTwice.cfg` shows. `ResetSignsOut` needs that passwords only grow: what is written
after the revocation is `late` or under the new password.

`CheckoutPage_proofs`, for any variants, codes and number of presses.
`OrdersWhatWasValidated`, `MethodIsOffered` and `CouponsAreAccepted` become
inductive with `PageSound`: a press is `live` only on the page it was made on, and
a validation that can still answer is about the cart shown. `FallbackOffers` is the
lemma about the selection; `ChecksDropped` follows from `PageSound` step by step and
excepts what a press says of the cart it captured.
`BusyHasPress` is the safety half of `SubmitComesBack`: whoever set `submitting`
is still ordering, since the end of any press of the page clears the flag.

`Storefront_proofs`, first for the cart, with any number of tabs, variants, sizes,
colours and quantities: the three properties of `ShoppingCart` are inductive with
`ShownHasRead`, since what "Add to Cart" adds to is a cart the header has read.
The lemmas about `AddItem`, `UpdateQuantity` and `RemoveItem` say that each keeps
a cart within its stock; a preselected pair that is not sold is why
`ChoiceIsSold` speaks of clicked chips only.

Then for the payment page, with any number of tries, polls and requests. What a request
saw as paid is still paid (`SeenIsSo`), and nothing else is under way before the first
answer (`LoadComesFirst`), which is why it cannot set an outcome over an interval.
Nothing is assumed of payments being started: any number of them may overlap, and
`OutcomesEndPolling` holds because every step to an outcome or to a button
stops whatever interval runs. Behind an error one may run on.

`BackOffice_proofs`, for any pages, tokens, requests, records and files.
`CallsSound` types the requests. The four list properties rest on one conjunct
per page: the load that is not cancelled asks for what the page shows, and
if it has read the list, it read every change acknowledged (`OrderLoadSound`,
`ProductLoadSound`, `CouponLoadSound`, `InboxLoadSound`). Nothing is said of loads
replaced while their body is read: `ProductListsCurrent` and `InboxListsCurrent` except
exactly the step that answers one. The proof goes page by
page, once for what a page's steps keep of the session, once for the flags that
wait for answers (`OthersWait` for the pages that are not concerned), and once for
the mount, which replaces all pages together.

Only model-checked, since TLAPS does not reach liveness: `StaleOrdersExpire`,
`TransactionsEnd`, `SubmitComesBack`, `PollingEnds`. Every other property of the
passing runs is a theorem. `TransactionsAdvance`, `BusyIsUnderWay`, `FailureStands`
and `UsedLinkIsDead` are theorems without a run of their own.

## 5. Plan

Done: the modules above and their proofs. Next, in this order: the customer's
session in the storefront (`customer-auth.ts`) against `CustomerAccounts`; the
stock count a product form loaded, and the main image in the database; `Pricing`
(integer cents, coupon and shipping against a reference definition);
`CatalogCache`; `RateLimiter`; `Migrations`; the pages of categories and
settings.

## 6. Not modelled

Who may see an order (lookup tokens, owners), customer fields, prices and
e-mails of an order: no property above depends on them. The expiry window is
one Boolean per order; the code measures it by two clocks. `CheckoutLocks`
leaves out payment and the deletion of variants. Passwords of staff are left
out: a sign-in that checked the old password may open its session after a
password change ended the others, and nothing in the code says otherwise. Of
customer accounts the signed access token, the clocks of links (an expired link
is refused like an unknown one), mail delivery and Google's checks are left out;
a Google account is taken to keep its address.

In the browser: prices, names, texts and what is typed into fields; the header's
search and menu; the wishlist heart, whose first load may overwrite a click; the
categories, customers, settings and dashboard pages. Some behaviours are in the
models although no property speaks of them, because no document promises
anything: a lost reply to an order followed by a second one, a late detail of one
order under the header of another, two variant answers that undo each other on
screen, a coupon saved while another is being edited.

On the server also without a module: rounding of cents through floats
(`OrderService.php:744`), the two clocks of the expiry window, low-stock alerts
from an earlier read, prices read before the transaction, rate-limit files that a
dying process leaves empty, migrations that stop half-way, two uploads that both
insert a main image.

Routing, parsing, presentation and best-effort notifications keep no state that
a property could be about.
