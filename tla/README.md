# TLA+ models of the register

The repository is a point-of-sale register for a ramen shop: a Next.js screen with
a camera scanner (`src/frontend`), a BFF in the same Next.js process that keeps the
login tokens in cookies, a FastAPI backend (`src/backend`) and a MySQL (InnoDB)
database. This directory holds TLA+ models of its parts, the TLC runs that check
them, and proofs for TLAPS. Line numbers are those of the modelled commit.

## 1. The system

| Component | State it keeps | Operations | Talks to |
|---|---|---|---|
| Register screen (`RegisterScreen.tsx`, `cartReducer.ts`, `classifyCode.ts`) | `cartRef` and the drawn cart, the member displayed, the product entry, settings, `purchasing`, the popup | scan, member and product lookup, add, select, quantity, remove, purchase, close, logout | BFF, by `fetch`; scanner, by callback |
| Checkout (`onPurchase`, `idempotencyKey.ts`, `api.ts`) | the pending idempotency key and its fingerprint | purchase, retry, popup, reset | `POST /api/transactions` |
| Scan gate (`scanGate.ts`) | per code: last seen, misses, released, ever accepted, stable frames | one frame in, perhaps one code out | called by the camera component, calls `onScan` |
| Camera (`BarcodeScanner.tsx`) | a stream, a reader (native or ZXing), a loop | start, frame, stop | scan gate |
| BFF (`bff.ts`, `cookies.ts`, `app/api/*`) | none; the cookies are the browser's | proxy, renew the tokens, set and clear cookies, give up after 15 s | backend, by HTTP |
| Page guard and login form (`proxy.ts`, `LoginForm.tsx`) | none; the page on the screen | redirect by the presence of cookies, login | BFF |
| Authentication (`services/auth.py`) | refresh tokens, failure counters, locks in the database | login, refresh, logout, access token check | database |
| Purchase service (`services/transaction.py`, `repositories/transaction.py`) | the table `transaction` | confirm: key, products, member, prices, comparison, insert | database |
| Price rules (`services/pricing.py`, `lib/pricing.ts`) | none | discounts, tax, totals, twice: in Python and in TypeScript | the screen and the purchase service |
| Masters (`product`, `member`, `tax_rate`, `discount_campaign`) | prices, rates, campaigns | read by the API; changed by direct maintenance | database |
| Driver timeouts (`db/session.py`) | one connection per request, pooled | connect 3 s, read and write 10 s | database |

What is hard here:

* **Requests that overlap.** FastAPI runs each request in a worker thread; two with the
  same idempotency key may meet in the database, wait there for each other's rows, and, after
  a rollback, for each other's locks in a circle. Calls of one browser overlap as well:
  the scanner sends lookups while others are under way.
* **Answers that are late, reordered or lost.** Every `await` of the screen resumes on a
  screen that may have moved on, to the next customer even. A purchase whose answer is
  lost may or may not have been made.
* **Failures in the middle.** A COMMIT without an answer is in doubt; a renewal of tokens
  is two commits, and so are a lock and the revocation that belongs to it; a body may break
  off after its headers.
* **Rows that are read, changed in Python and written back.** Overlapping logins count
  their failures on copies of the same row.
* **Resources that outlive their owner.** The camera starts by four asynchronous steps, and
  the screen may be left in any of them.
* **Two clocks.** The BFF gives up after 15 s per call, the driver after 10 s per statement.
* **The same computation twice.** Screen and backend must agree to the yen, over masters
  that change at night while a screen stays open.
* **Memory that is thrown away.** The gate forgets codes and must not accept twice for it.

What makes each part correct: prices agree on a fresh screen, and nothing unsound is
saved on a stale one (Pricing); a key buys at most once and every answer is true
(purchase service); the popup appears only for this customer's sale, and retries never
buy twice (checkout); the backend gives up before the BFF (timeouts); an item per visit
of a card, none missed (gate); what is on the screen was asked for by this customer,
and no other member is charged than the one shown or about to be (screen); nothing is done twice, and nobody is signed out
without a cause (session); failures count, locks last and end sessions (lockout); the screen
tells the truth about the camera and gives it back (camera).

## 2. The modules

| Module | Models | Builds on |
|---|---|---|
| `Pricing` | both price calculations, as operators over carts and campaigns | |
| `PriceAgreement` | one register and the masters over several days: settings read once, prices kept in lines, purchase | `Pricing` |
| `Ledger` | abstract: what the purchase API promises | |
| `TransactionService` | `confirm` and `add` on InnoDB, statement by statement, with failures and maintenance | implements `Ledger` (`INSTANCE`, `ImplementsLedger`) |
| `Checkout` | purchase button, idempotency key, retries, popup, lost screens | uses `Ledger` as its service |
| `RequestDeadline` | driver and BFF timeouts over a database that stalls | |
| `ScanGate` | `nextScanState` frame by frame | |
| `RegisterScreen` | handlers and reducer over lookups that are answered in any order | |
| `Session` | `proxyToBackend`, cookies, token rotation, login and logout, the page they lead to | |
| `Lockout` | `AuthService` commit by commit: failure counter, lock, tokens of one member of staff | |
| `Camera` | start, reading loops and release of both engines over several visits | |
| `...Proofs` | theorems of `PriceAgreement`, `TransactionService`, `Checkout`, `ScanGate`, `RegisterScreen`, `Session`, `Lockout` and `Camera`; those of `RequestDeadline` are in `TransactionServiceProofs` | their modules and `TLAPS` |
| `MC*` | constants of the runs | their modules |

The purchase is cut at the API. `Ledger` says: a key buys at most once, a sale is for
what was claimed, an answer is true when it is given, and `INTERNAL_ERROR` promises
nothing. `TransactionService` implements it, under a mapping that drops the snapshots,
the program points and the uncommitted rows; `Checkout` knows nothing else of the
service. So what is checked of the screen holds over the service's races and in-doubt
commits without enumerating them.

### Correspondence with the code

* **Pricing.** `ServerLineDiscount` is `apply_discount`: period filter, validation,
  best discount, capped at the line's amount. `ClientLineDiscount` is
  `calcLineDiscount`, which has no filter and no validation because the settings it gets
  are those of the day. `PriceAgreement` puts each in its place: `OpenScreen` reads the
  settings, `AddProduct` copies the master's price into the line, `Purchase` recalculates
  from the master and compares all four values. `NextDay` changes the masters under an
  open screen. The comparison is of the four sums; what is saved are the master's
  lines.
* **TransactionService.** One action per database round of `confirm`. A snapshot
  begins with the first read (REPEATABLE READ) and ends with commit, rollback or the end
  of the session; `Insert` meets the unique index and the foreign keys as they are, and
  waits (`Wait`) for another request's uncommitted row with the same key. When that row is
  rolled back (`RollBack`), each of those who waited is left with a shared lock on its place
  (`shared`), and inserts only when nobody else has one; two with such locks wait for each
  other until the database makes one the victim (`DeadlockVictim`), whose error `add` does
  not catch, because it is no `IntegrityError`. `Fail` is any raised
  statement or the end of the process; `Abandon` is the `read_timeout` of an INSERT that
  waits: the caller is answered, the statement goes on, and may even insert ("orphan"), until
  `RollBackAbandoned`; `CommitFails` leaves the row in doubt until `Settle`. The field `by` of a row, and its `prices` and `rules`, are bookkeeping for the
  properties.
* **Checkout.** `Press` is `onPurchase` up to its `await`, `ReceiveCompletion` and
  `ReceiveFailure` the code behind it, `BodyBreaksOff` the rejection of `response.json()`
  that nothing catches. `contents` stands for member and lines: what the fingerprint
  compares. That nobody presses while the popup is open is due to its overlay, in `Checkout`,
  `RegisterScreen` and `PriceAgreement` alike: `canPurchase` does not ask for it.
* **RequestDeadline.** The statements of a purchase in order, `tcp` with 3 s and the rest
  with 10 s; time passes only while the database is stalled. Its names (`DeadlineSpec`,
  `deadlineVars`) are its own, so that `TransactionServiceProofs` extends both modules: the
  rounds of `TransactionService` are the statements that this clock measures.
* **ScanGate.** `NextScanState` is the function of the same name; the boxes are abstracted
  to any choice of the picked code among those in view. `seenAt`, `missed`, `centred`,
  `away` and `owed` record what really was in view; no action reads them. The scanner
  starts anew with the memory it had (`sharedRef`), which is a longer interval between two
  frames.
* **RegisterScreen.** Each lookup is sent by `Ask` and answered by `Answered`, in any order
  or never. `cart` is `cartRef.current`; `shown` is the cart that React has drawn, at once
  after a click (`DispatchNow`) and in a step of its own after an answer (`DispatchLater`,
  `Render`). The member displayed is a state beside the cart, and is kept twice as well:
  `member` as last set, `shownMember` as drawn, in the same rendering as the cart. `askedFor` records for which customer the contents were asked.
* **Session.** Access and refresh token are set and cleared together, so a pair is a
  number. `at` is where the backend is with a call, `bff` whether the BFF still waits; a
  BFF that gave up leaves the backend at work. `FindToken`, `RevokeToken` and
  `IssueTokens` are the read and the two commits of `AuthService.refresh`. `page` is what
  the browser shows: `PageAfter` is what the handlers do with an answer (`handleFailure`,
  `onLogout`, `onSubmit`), whichever page they meet; `Open` is a reload, which `proxy.ts`
  lets pass with cookies only; `CookiesLapse` is their `Max-Age`. `failed` records calls
  that failed or were not answered in time.
* **Lockout.** `Begin` reads the row and checks the lock, `Succeed`, `Fail` and `Lock` write
  both columns back from that copy, `RevokeAll` is the second commit of a lock. `FindToken`,
  `Rotate` and `IssueTokens` are a renewal, which does not ask about the lock. `since`
  records what others have committed since a call began, `inARow` the failures in a row,
  `skew` what overlapped with them. No action reads these three.
* **Camera.** `at` is how far `start()` got in a visit: the formats, `getUserMedia` and
  `play()` for the native reader, the imports and `decodeFromConstraints` for ZXing. Every
  `await` may be outlived by the visit. `Unmount` is the effect's cleanup, which calls
  `stop` only if the start was over, and takes the video off the page, so that a `play()`
  under way is rejected. `loop` is the reading loop, with its timer or inside `detect()`;
  that of ZXing may end by itself (`ZxingEnds`): the library goes on after a frame without a
  code and closes the camera after any other exception, of which the component shows nothing.
  What becomes of a frame is `ScanGate`'s part.

## 3. The runs

| Run | Configuration | Question | States |
|---|---|---|---|
| `prices` | `MCPriceAgreement.cfg` | Do the two calculations agree, what can differ between the saved lines and the screen, and is what is saved payable and storable? | 149,700 |
| `purchase` | `MCTransactionService.cfg` | Three overlapping requests with one key: does the service implement `Ledger`, is each sale for its claim and from one state of the masters, is a resend recognised, is every request answered? | 49,620 |
| `checkout` | `MCCheckout.cfg` | Does the popup mean a sale to this customer; do retries never buy twice? | 166,819 |
| `checkout_double_sale` | `MCCheckoutDoubleSale.cfg` | Is the same purchase never confirmed twice? **No** | |
| `checkout_button` | `MCCheckoutButton.cfg` | Does the button come back? **No** | |
| `deadline` | `MCRequestDeadline.cfg` | Does the backend give up first after one stall; what does each stall cost the customer at most; how can a sale appear after a failure was reported? | 2,916 |
| `scan_gate` | `MCScanGate.cfg` | One item per visit, none missed, no neighbour taken? | 48,828 |
| `register_screen` | `MCRegisterScreen.cfg` | Is nothing lost, when is another member charged than the one drawn, is everything drawn bought, and when does an earlier customer's data appear? | 1,674,662 |
| `register_next_customer` | `MCRegisterScreenNextCustomer.cfg` | Does each customer begin with an empty screen? **No** | |
| `session` | `MCSession.cfg` | Is nothing done twice, when is a call refused, do the cookies stay usable, is the register never seen without them? | 1,805,885 |
| `lockout` | `MCLockout.cfg` | Do failures count, does a lock last, does it end the sessions, when logins and renewals overlap or break off? | 446,004 |
| `camera` | `MCCamera.cfg` | Is the screen right about the camera, who can still hold the camera after a visit, is it given back? | 3,193 |

The runs answered **No** state what a document, comment or test of the repository says;
section 5 describes them.

Bounds, and why they are enough:

* `prices`: three days cover a screen opened before, on and after a change; the masters
  contain every kind of campaign, one that ends, a percentage above 100, an unknown type,
  a new rate, a price change that a discount compensates, and no rate at all. Two lines
  and a quantity of two reach both limits. `ColumnMax` 600 is reached by two lines.
* `purchase`: a race on a key needs two requests, and one more to be told of the winner with
  other totals; the same three are two that wait for one which is rolled back, and so a circle.
  A fourth would add only that one who waits behind the locks of such a circle comes to wait
  for a row; the proofs hold for any number. Three ids are one for each. Requests with different keys do not wait for
  each other; that they do not disturb each other either is proved for any number.
* `checkout`: three presses are a sale, a retry and an edit in between; two customers show
  that nothing of the first reaches the second.
* `deadline`: the real timeouts, 3, 10 and 15 s, and at most two stalls: the second is
  the one that breaks the order of the timeouts, and so makes a sale after the BFF's own 500.
* `scan_gate`: the constants keep the order of the code's (release frames come sooner than
  the release time, forgetting later), and 14 ms of model time hold two absences and a
  forgetting. The proofs do without these bounds.
* `register_screen`: two products give two lines, two members answers in the wrong order, two
  lookups under way overtake each other; their number in total is not bounded. Products,
  members and lookups are symmetric. `LinesMax` of 2 refuses no line with two products; that
  the limit holds is `ScreenTypes`, for any number of them.
* `session`: three calls, each of which may renew; four pairs are one for each and the
  first. Calls are symmetric.
* `lockout`: five calls are two failures for a lock, one that overlaps with it, and two that
  hold tokens; two failures and one tick of lock are the least in which a count may be lost
  and a lock may end. Calls are symmetric; the theorems do without these bounds.
* `camera`: three visits, so that one may be left behind in a start, one may be over, and one
  may run.

Deadlock is checked wherever the system goes on; `CHECK_DEADLOCK FALSE` is in the
configurations where presses, time or calls are bounded and so run out.

### Fairness

* `TransactionService!FairSpec`: weak fairness of `Progress(r)`: a worker thread goes on,
  and InnoDB ends a circle of waiters and a transaction whose client is gone. A timeout or a
  failure is never assumed. `EveryRequestAnswered` shows that waiting for each other's rows
  and locks ends.
* `Checkout!FairSpec`: weak fairness of `ReceiveFailure` alone: the BFF's timer or the
  browser ends every call whose response has not begun. Nothing is assumed about the
  cashier or the service.

* `Camera!FairSpec`: weak fairness of `Play(v)` and `Opened(v)`: the browser resolves or
  rejects a `play()`, and a `decodeFromConstraints` that opened the camera is resolved.
  Nothing is assumed about permissions, imports or the cashier.

All other specifications are used for safety only.

## 4. Theorems

| Theorem | States | Rests on |
|---|---|---|
| `PriceAgreementProofs!TypeCorrect` | `TypeOK` | |
| `PriceAgreementProofs!ScreenAndBackendAgree` | `FreshScreenAgrees`, for all products, masters, limits, days | settings are those of the date they were read on |
| `PriceAgreementProofs!SalesAreSound` | `SoundSale`, for carts of any length | lemmas on sums; `ColumnMaxAssumption` |
| `PriceAgreementProofs!DifferencesComeInPairs` | `HiddenDifferencesCancel`, likewise | the same lemmas |
| `TransactionServiceProofs!TypeCorrect` | `TypeOK` | |
| `TransactionServiceProofs!SalesAreAsClaimed` | `SoldAsClaimed` | a snapshot is one state of the masters |
| `TransactionServiceProofs!ServiceImplementsLedger` | `ImplementsLedger`, for any number of requests and keys | keys and ids of saved and pending rows are unique |
| `TransactionServiceProofs!PromisesHold` | `L!KeyBuysOnce` and `L!AnswersStayTrue` | the refinement, and a proof about `Ledger` alone |
| `TransactionServiceProofs!ResendsAreRecognised` | `RetryRecognised` | a key that was sold stays sold |
| `TransactionServiceProofs!RequestsOnlyAdvance` | no request goes back to a stage it has left | |
| `TransactionServiceProofs!WhoeverWaitsWaitsForAMover` | an INSERT is held up only by requests that can move, and a circle is one of shared locks only | who has a shared lock and waits has no row in front of it (`SharedAlone`) |
| `TransactionServiceProofs!EachStallCostsOneTimeout` | `WaitPerStall`, for all timeouts and stalls | `ClockInv` |
| `TransactionServiceProofs!BackendGivesUpFirst` | `GivesUpFirst`, while `stalls * LongestTimeout < BffTimeout` | `ClockInv` |
| `TransactionServiceProofs!OneStallIsSafe` | `OneStallGivesUpFirst` | driver timeouts below the BFF's |
| `TransactionServiceProofs!LateSalesHaveTwoCauses` | `LateSalesAreExplained` | `ClockInv` |
| `ScanGateProofs!TypeCorrect` | `TypeOK` | |
| `ScanGateProofs!NoItemIsMissed` | `BroughtBackIsAccepted` | |
| `ScanGateProofs!OnlySteadyCodes` | `OnlyCentredAccepted` | |
| `ScanGateProofs!OneItemPerVisit` | `AcceptedOncePerVisit` | `ForgetAssumption` |
| `CheckoutProofs!CheckoutTypes` | `TypeOK` | |
| `CheckoutProofs!PopupMeansSale` | `CompletedIsSold` | the promises of `Ledger`, by its actions |
| `CheckoutProofs!NothingUnsoldIsCleared` | `ClearedIsSold` | |
| `CheckoutProofs!RetriesSellOnce` | `UndisturbedSoldOnce` | an undisturbed customer has one key |
| `RegisterScreenProofs!ScreenTypes` | `TypeOK` | |
| `RegisterScreenProofs!ShownMemberFitsCart` | `MemberFitsCart` | |
| `RegisterScreenProofs!UnseenMemberWasAnswered` | `OnlyAnswersChargeUnseen` | the state set last and `cartRef` have one member |
| `RegisterScreenProofs!WhatIsDrawnIsBought` | `DrawnIsBought` | answers only add |
| `RegisterScreenProofs!NothingIsLost` | `GoodsLeaveByHand` | |
| `RegisterScreenProofs!OnlyLateAnswers` | `OnlyLateAnswersCarryOver` | |
| `RegisterScreenProofs!FoundFollowsTyped` | `OnlyLateAnswersMislead` | |
| `SessionProofs!SessionTypes` | `TypeOK` | |
| `SessionProofs!NothingDoneTwice` | `ExecutedOnce` | |
| `SessionProofs!RefusedWhenUsedUp` | `RefusedOnlyWhenUsedUp` | |
| `SessionProofs!CookiesStayGood` | `CookiesCanBeRenewed` | a pending pair is known to nobody |
| `SessionProofs!RegisterIsGuarded` | `RegisterNeedsCookies` | |
| `LockoutProofs!LockoutTypes` | `TypeOK` | |
| `LockoutProofs!FailuresCount` | `FailuresAreCounted` | |
| `LockoutProofs!SessionsEnd` | `LockEndsSessions` | |
| `LockoutProofs!LocksStay` | `LockLasts` | who passed `_check_lock` met no lock |
| `CameraProofs!CameraTypes` | `TypeOK` | |
| `CameraProofs!ScreenTellsTheTruth` | `ScansWhenItSaysSo` | |
| `CameraProofs!FewHoldTheCamera` | `OnlyStartsHoldCamera` | |

**Prices.** The two calculations differ in that one filters campaigns by their period.
The inductive invariant adds to `TypeOK` that the screen's campaigns and rate are those of
the date they were read on (`SettingsOfTheirDay`) and that a cart is finite. On a fresh
screen the client's set of campaigns of a line is then the server's set after its filter,
so each line has the same discount, and the sums are sums of equal functions.

`SoundSale` needs more of the sums: they are natural, and a sum of discounts that each stay
within their line stays within the sum of the lines (`SumsCompare`). The sums are folds over
a cart of any length, and induction is out of the prover's reach. So a sum is described
without recursion first: a table over all subsets of the cart in which every set has the value
of the set without some element, plus that element (`AddUp`). That a fold has such a table
(`SumExists`), and that two of them compare (`SumsCompare`), is shown by a least counterexample: if the
claim failed for some set, the sizes of those for which it fails would have a least
one (`LeastNatural`, from the well-foundedness of the naturals), which is not 0, and the set
without an element is smaller. `ColumnMaxAssumption` says that what an INT column holds is a
natural number. `HiddenDifferencesCancel` rests on the same description: of two sums that are equal, and
whose terms compare everywhere in the same direction, the terms are equal (`EqualSumsCancel`).
So an accepted purchase may differ from the screen line by line, but a line that got dearer
always comes with one that got cheaper.

**Purchases.** `SoldAsClaimed` is not inductive: between the reads and the commit the
claim lives in the program point and the snapshot. `IInv` adds what each program point
has established about the request's snapshot (`ReadsHold`), that rows not committed yet
satisfy already what committed rows must (`RowsSound`), that no two rows, saved or
pending, share a key or an id (`KeysUnique`), which requests have an answer
(`AnswersHold`) and which a committed row (`RowsCommitted`). Each step then is a `Sell`, a
`Reply` or a stutter of `Ledger`. What a customer may rely on follows from `Ledger` alone
(`LedgerKeepsPromises`) and so holds of the service: no key or id is sold twice, and an
answer, once true, stays true; who was rejected never buys.

A resend is recognised because its key is in the table (`Recognised`) from the moment it is
sent: `FindKey` reads a snapshot taken later, and rows are never deleted. This is a property
of behaviours, proved as an invariance that begins in the middle.

Liveness itself (`EveryRequestAnswered`) is left to TLC. What it rests on is proved: a
request only advances through its stages (`RequestsOnlyAdvance`), so it takes finitely many
steps, and whatever holds up an INSERT can move (`WhoeverWaitsWaitsForAMover`),
however many there are; TLC's run has three. Who has an uncommitted row waits for nobody. Who
waits with a shared lock has no row in front of it, because nobody can insert past that lock
(`SharedAlone`); it waits only for others of its kind, which wait for it as well. So every
circle is one of shared locks that a rollback left behind, from which the detector takes
victims until the last one inserts.

**Timeouts.** `ClockInv` says what each stall has cost so far (`StallCosts`): all but the last
at most one timeout each, the last no more than the statement under way has waited. The hypothesis of
`OneStallIsSafe`, both driver timeouts below the BFF's, is that of the code (3 and 10 s
against 15 s) and is needed: TLC finds the contrary with a `ReadTimeout` of 15. The other
theorems hold for any timeouts. For a sale after the BFF's own 500 the invariant gives the
exact time: the BFF gives up at its timeout, and no more time has passed than the stalls cost.

**Gate.** The gate's state of a code is tied to what really happened: last seen, misses and
stable frames are those of the camera, and the gate owes a code exactly when it never let
it through or holds it released. A code that was forgotten is owed, because
`ForgetMisses` frames take at least `ReleaseMs` (`ForgetAssumption`: 30 frames of 200 ms
are no less than 3 s). The assumption is one about the code: frames are read by a timer of
200 ms after the last one ended. A camera that is stopped and started again adds time and
no frame.

**Checkout.** The proof knows the service by `Ledger!Sell` and `Ledger!Reply` only. Its
invariant says which requests may carry the pending key (those of this customer with these
contents, `KeyOK`), and that an undisturbed customer has no other key (`QuietOK`). A
DUPLICATE then names a sale of this customer, although by another request.

**Screen.** The cart that is bought may be ahead of the one that is drawn, by additions only
(`DrawnIsBought`): whatever takes goods away is a click, and a click is drawn at once.
The member on the screen may lag behind the one who is charged as well, and does so by
answers only (`OnlyAnswersChargeUnseen`): name and cart are drawn together, so that the name is
never at odds with the discounts beside it (`MemberFitsCart`).
The answers that wait to be drawn are tied to the cart that will be drawn, and
each lookup to the customer it was sent for; so what an answer changes is known, however
late it comes.

**Session.** None of the properties of the cookies is inductive. `PendingOK` follows a pair
from its issue: as long as the answer that carries it is pending, it is in no cookies and no
other call has sent it, so nobody has used it up when it arrives. `RevokerOK` says what a
call that used up a pair still owes the browser: other cookies, unless it has failed.
`AnswerOK` ties cleared cookies to answers that lead to `/login`.

**Lockout.** What a call has read is compared with what was committed since (`CountsRead`,
`LocksRead`): a count that was read is at least the failures so far, and no lock is in force,
unless the call itself recorded an overlap. `TokensLeft` adds to the tokens that work those
that calls are about to issue.

**Camera.** Each point of a start says what the stream and the loop must be (`VisitOK`), and
that only the mounted visit can be running. A visit that runs reads, or has been ended by ZXing.

Every safety property of the passing runs is a theorem. Only model-checked is liveness, which
these provers do not reach: `EveryRequestAnswered`, `CameraIsReleased` (its safety half is
`FewHoldTheCamera`: only a start that is still under way, or a rejected `play()`, keeps the
camera of a visit that is over), and the refutation of `ButtonComesBack`.

## 5. What the models found

1. **A purchase may be saved twice** (`checkout_double_sale`). One pending key is kept; an
   edit and a press replace it, and an edit back makes a third key for contents that may
   already be saved. Without an edit in between it cannot happen (`UndisturbedSoldOnce`).
2. **The button may stay disabled** (`checkout_button`). `response.json()` of a successful
   answer is outside the `try` of `lib/api.ts`.
3. **"The backend gives up before the BFF"** holds for one stall of the database
   (`OneStallGivesUpFirst`); two stalls, of 5 and 10 s, outlast the 15 s of the BFF: each may
   cost the customer 10 s, and none costs more (`WaitPerStall`). So **a sale may appear after
   the screen showed a failure**, which the design, a test and a comment exclude (design.md:855,
   test_spec.md:614 (IT-34), `db/session.py:23`), in two ways: its COMMIT was sent and timed
   out, and is carried out when the database is back; or the BFF gave up by itself, and the
   backend commits afterwards. In no other way: a statement before the COMMIT that timed out
   ends the purchase (`LateSalesAreExplained`). The pending key is kept after a failure, so
   a retry of the same contents is told of that sale (`UndisturbedSoldOnce`).
4. **An earlier customer's card or goods** may appear on the screen
   (`register_next_customer`), by late answers and in no other way
   (`OnlyLateAnswersCarryOver`); likewise the product of a code that was retyped
   (`OnlyLateAnswersMislead`).
5. **The renewal of tokens** goes unnoticed (test_spec.md, IT-05) for one call at a time that
   succeeds. A call may be refused because another one has used up its refresh token: one that
   overlaps with it, or an earlier one whose resend failed or timed out, so that the cookies
   still name the used-up token (`lib/server/bff.ts:117`); or because its own renewal broke off
   between its two commits (`services/auth.py:117`). `RefusedOnlyWhenUsedUp` and
   `CookiesCanBeRenewed` except the calls that failed and say that there is no other way; that
   a failed renewal ends the session is not prevented by the code. A renewal that is answered
   after a logout sets cookies again (`app/api/auth/logout/route.ts:18`).
6. **The count of failures and the lock** are exact for attempts one after the other. An
   attempt that overlaps may go uncounted, bring back a count that a success has reset, or
   lift a lock it did not see; `FailuresAreCounted`, `LockLasts` and `LockEndsSessions` say
   that nothing else does.
7. **The camera** is stopped whenever the screen is left, also in the middle of a start
   (`BarcodeScanner.tsx:228`), except when `play()` is rejected, as it is when the video
   leaves the page in the meantime: `startNativeScanner` then returns no `stop`, and nothing
   stops the stream (`CameraIsReleased`). While it says スキャン中 the camera is read, but for a
   ZXing loop that ended on an exception of its own: the screen goes on saying so
   (`BarcodeScanner.tsx:109`, the exception of `ScansWhenItSaysSo`).
8. **What is saved may differ from the screen line by line**, when a screen that is out of date
   has differences that cancel in the sums: the service compares sums
   (`services/transaction.py:232`) and saves the master's lines. `HiddenDifferencesCancel`
   and `SoundSale` say that the customer still pays what was shown.
9. **Another member may be charged than the one on the screen**, between the answer of a lookup
   and the rendering that shows it (`RegisterScreen.tsx:129-131`, `cartRef`); in no other way
   (`OnlyAnswersChargeUnseen`). Goods that are scanned while a purchase is under way are lost with its
   popup (`RegisterScreen.tsx:253`): the case that `ClearedIsSold` excepts.

## 6. Not modelled

Configuration (`core/config.py`, read once), security headers (`proxy.ts`, constant), wording and formatting, presentational components and styles, syntax of requests
beyond the bounds on quantities and lines, the connection pool's size and recycling, the
debug panel of the scanner, containers and CI. Member names, addresses and staff records
are data no property tells apart. `GET /members` and `GET /products` are lookups of
`RegisterScreen` and have no state.

Left out of the modules: keys that are neighbours in the unique index, whose INSERTs would wait
for each other's gaps as well (random UUIDs of purchases under way at once are taken not to be);
`POST /api/auth/refresh`, which no screen calls; several tabs with
the same cookies; the time a body takes after its headers; members of staff who are made
inactive, and the 12 hours after which a refresh token ends by itself; a camera that is taken
away while it runs (no handler listens for it); React's double effects in development.

## 7. Plan

Done in this order, the most important first: prices, purchase service and ledger,
checkout, timeouts, gate, screen, session, lockout, camera, and the proofs of all of them.

Left:

1. `Lockout` with members who are made inactive: `authenticate` and `refresh` look at
   `is_active` before anything else, and a call that has looked goes on.
2. A composition of `RegisterScreen` and `Checkout`, where `contents` is the screen's cart:
   what was scanned while a purchase was under way, line by line.
3. A composition of `Session` and `Checkout`: a purchase that is refused while it is renewed,
   and repeated after the next login.
