# AccuPrivate in TLA+

AccuPrivate sells prepaid electricity tokens, airtime and data bundles to partners (banks, agents) and buys
them from three vendors: BUYPOWERNG, BAXI and IRECHARGE. A partner's HTTP request becomes a row of the
`Transaction` table and a Kafka message; consumers buy from a vendor, requery it while the outcome is unknown,
move to another vendor when it failed, and announce the token. Around that stand accounts, API keys, sessions and
the catalogue vendors are chosen from. This directory specifies that machinery, checks it with TLC and proves its
main properties with TLAPS.

Paths below are relative to `src/` of the application (`src/src/` of the tree).

## 1. The system

| component | state | operations | interacts by |
|---|---|---|---|
| Vendor API controller (`controllers/Public/VendorApi.controller`) | the `Transaction` row, one Kafka subscriber per open request | `validateMeter` creates the row and the customer, `requestToken` starts the purchase and answers when the token or a 60 s timer comes; `Airtime.controller`, `Data.controller` likewise, without a subscriber; `confirmPayment` completes an airtime transaction | HTTP, Kafka, database |
| Token consumer (`kafka/modules/consumers/Token.ts`) | the row: status, superagent, references, access token, retry record, previous vendors; a `PowerUnit` row | `handleTokenRequest`, `requeryTransactionForToken`, and the timers and updates of `TokenHandlerUtil` | Kafka, database, vendors |
| Airtime and Data consumers (`Airtime.ts`, `Data.ts`) | the row | purchase, requery, switch, received | as above |
| Vendor clients (`services/VendorApi.service`) | none | one HTTP call per operation; what they return or throw decides everything above | vendors |
| Transaction event log (`services/TransactionEvent.service.ts`) | `Event` rows | append | database |
| Notification consumer | `Notification` rows, pushes, e-mail | a message per announcement | Kafka, `Event` rows |
| Kafka utilities (`kafka/modules/util`) | offsets of the group | batches, swallowed errors | Kafka |
| Accounts, API keys (`Auth`, `Partner`, `TeamMember` controllers) | `Entity`, `PartnerProfile`, `ApiKey` rows; keys and codes in Redis | sign-up, invitation, verification, (de)activation, key rotation | HTTP, Redis, database |
| Sessions (`Auth.controller`, `utils/Auth`) | tokens and codes in Redis, passwords | log in (with or without a code), out, reset, change, require a code | HTTP, Redis |
| Catalogue administration | `Vendor`, `Product`, `Bundle`, `VendorProduct` rows | create, rename, update, two seedings | HTTP, database |
| Webhook and six other consumers | | registries empty or commented out | none |
| Disco cron, complaints, roles, profile, power units, product codes | their rows | single-row updates and listings; a profile's update ends its sessions | HTTP |

What is hard here:

* **interleaving** - two token requests of one transaction, a request and the consumer, a request and the
  subscriber of another, all writing one row with blind `UPDATE`s;
* **atomicity** - every handler reads rows, awaits vendors, timers or lookups, then writes; only sign-ups use a
  database transaction, and Redis is outside of it;
* **crashes** - offsets are committed at the end of a batch, so handled messages come back; timers that are not
  awaited do not;
* **unknown outcomes** - a purchase that timed out may be pending, delivered or never have happened, and each vendor
  says so in its own words;
* **retries and switches** - a repurchase after a wrong "failed" vends twice for one payment;
* **swallowed errors** - handlers and publishes that fail leave the transaction in nobody's hands.

Correctness, by component: a customer is vended at most once; nothing is announced or COMPLETE that a vendor did
not deliver; a purchase that started ends; a vendor is left only after its retries and in order of commission; the log
says what happened (consumers). A request is answered and its subscriber shut down (controller). A token is mailed once
and never forgotten (notifications). A validated transaction is one a vend can start with, and its customer has an
account (validation). A partner always has a key, the same everywhere (API keys). An account's status and sessions are
what was last asked for (accounts, sessions). An offer is there once (catalogue).

## 2. Modules

| module | models | source |
|---|---|---|
| `VendorSelection` | how the vendor of a repurchase is chosen | `getNextBestVendorForVendRePurchase`, `getSortedVendorsAccordingToCommissionRate` |
| `VendorClients` | what the vendors' clients return or throw for each reply, and what the consumers read in it | `services/VendorApi.service`, the tests of replies in the three consumers |
| `EventLog` | the events of a transaction | `TransactionEvent.service.ts` |
| `TokenVend` | one electricity transaction from `requestToken` to the announced token | `VendorApi.controller.ts`, `Token.ts`, `MessageProcessor.ts`, `Producer.ts` |
| `VendPromise` | what the vending of a transaction promises: the abstract specification | - |
| `AirtimeVend` | one airtime transaction from `requestAirtime` to COMPLETE or FLAGGED, and `confirmPayment` | `Airtime.controller.ts`, `Airtime.ts` |
| `DataVend` | one data bundle from `requestData` to COMPLETE or FLAGGED | `Data.controller.ts`, `Data.ts` |
| `Announcements` | the topics on which tokens and airtime are announced, the `Event` rows | `Producer.ts`, `Event.service.ts` |
| `TokenAnswer` | the request that waits for its token, with its subscriber and timer | `VendorApi.controller.ts`, `Consumer.ts` |
| `Notification` | the Notification consumer | `Notification.ts`, `Notification.service.ts` |
| `TokenDelivery` | `TokenAnswer` and `Notification` composed: one process, one log, one Event table | - |
| `Validation` | concurrent `validateMeter`, `validateAirtimeRequest`, `validateDataRequest` and the customers they add | the three controllers, `User`, `Entity`, `Password` services |
| `Accounts` | creating, verifying and (de)activating accounts, rotating keys | `Auth`, `Partner`, `TeamMember` controllers, `Partner.service`, `ApiKey.service` |
| `Sessions` | logging in and out, codes, passwords | `Auth.controller.ts`, `utils/Auth`, `middlewares/Auth` |
| `Catalogue` | vendors, products, bundles and offers, the tables they are seeded from | the administration controllers, `Airtime.controller.ts`, `Constants.ts` |
| `TokenVendProofs`, `AirtimeVendProofs`, `DataVendProofs`, `TokenDeliveryProofs`, `ValidationProofs`, `AccountsProofs`, `SessionsProofs`, `CatalogueProofs` | the theorems | - |
| `MC...` | the rates, callers, networks and symmetry TLC uses | - |

The three vend modules extend `VendorSelection`, `VendorClients` and `EventLog`: the consumers hold copies of the same
selection code and share the clients and the log. `Validation` extends them too, and `HandsOver` checks that the rows it
ends with are the rows `TokenVend`, `AirtimeVend` and `DataVend` begin with (`NewTransaction`, `NewAirtimeRow`
and `NewDataRow` of `VendorSelection`).

A handler is split at the awaits between which another actor can change what it reads or what it wrote. What a handler
reads and writes without an await in between is one step, and so is a write nobody else can observe with the step that
follows it.

### `TokenVend`

| variable | code |
|---|---|
| `status`, `txn` | columns of the `Transaction` row. `txn.record` is the last entry of `retryRecord`, the only one the code reads; `txn.previous` answers the two questions asked of `previousVendors`: what it includes and how long it is. `txn.accessRef` is the reference IRECHARGE issued the access token for |
| `unit`, `rows` | the `PowerUnit` rows of the transaction and the vend whose token they hold |
| `log` | its `Event` rows |
| `queue` | messages per topic that no worker has fetched: `POWER_PURCHASE_INITIATED_BY_CUSTOMER` ("purchase"), `GET_TRANSACTION_TOKEN_FROM_VENDOR_RETRY` ("requery") |
| `worker` | each `TokenConsumer`: its batch and the point its handler has reached, with the row it read (`snap`) and the row it will write (`next`) |
| `request` | each `requestToken` call |
| `pending`, `delivered`, `failed` | what the vendors know; a vend is a vendor and a reference |
| `announced`, `flagged`, `dropped` | history: `TOKEN_RECIEVED_FROM_VENDOR` published, status set to FLAGGED, work lost by an error |
| `expired` | the transaction is more than two hours old |

```
requestToken                  new -> validate -> update -> publish -> inprogress -> done
handleTokenRequest            vend -> announce -> lookup -> save -> complete
                              vend -> retry                    (publish a requery)
requeryTransactionForToken    ask -> lookup -> save -> complete -> announce
                              ask -> retry | flag
                              ask -> failed -> switch -> republish
```

The two handlers announce and save in opposite orders, as the code does, and both start from the row as it is when the
message is handled; neither looks at its status. The batch loop (`processEachBatch`) handles a batch's messages one after
the other; its offsets are committed after the last, so `Crash` gives the whole batch back. `LoseSession` gives it back
too, while the worker goes on: handlers sleep for minutes without a heartbeat. A vendor that has decided a vend may do so
between its reply and what the reply is about.

### `AirtimeVend`

`status`, `bankRef` and `row` are the columns of the transaction, `queue` the messages of the consumer's four topics,
`timers` the requeries waiting in a `setTimeout`, `request` the `requestAirtime` calls and `confirm` the
`confirmPayment` calls, each with the `bankRefId` it names (`BankRef`). The histories: `prompt` says that every purchase
so far was answered with its final outcome, `unread` that a reply of BAXI was announced without being a success,
`overlapped` that two requests were between the look-up of their reference and its write, `repeated` that a handler which
had bought, or may have sent a message or started a timer, was handed its message again. There is one `handler`, with the
row it read:

```
requestAirtime                       new -> reference -> update -> publish -> done
confirmPayment                       new -> update -> done
handleAirtimeRequest                 vend -> save -> announce
                                     vend -> timer                   (IRECHARGE's 15, 43)
                                     vend -> choose -> handover      (everything else)
requeryTransaction                   ask  -> announce | timer | choose
handleAirtimeRecievd                 check -> [timer ->] complete
retryPowerPurchaseWithNewVendor      move -> republish
```

It is a module of its own because the consumer is not the Token consumer with another payload: an error of a purchase or
requery is not caught, a repurchase keeps the reference, BAXI gets a random one every time and can never be asked about
it, timers are not awaited (so a crash loses them, and the batch does not wait for them), a switch goes through a
message, and there is no token to save. `confirmPayment` (`POST /confirm-payment`) writes COMPLETE and a reference between
any two of these steps, after an event that says a vendor delivered; it asks no vendor and does not look at the status.

### `DataVend`

```
requestData                          new -> reference -> update -> publish -> done
handleDataRequest                    vend -> probe -> save -> announce
                                     probe -> timer | timedout | choose -> write -> handover
requeryTransaction                   ask -> announce | timer | choose
handleDataRecievd                    complete
retryDataPurchaseWithNewVendor       move -> republish
```

The third consumer differs again: a purchase is requeried at once (`probe`), and what is done depends on both replies;
errors of both are caught; a requery that ended in an error falls through to the announcement; a vendor is retried under
new references, counted by a record, before it is left; the switch is written by one handler and repeated by the message
of another; timers are awaited. `unread` remembers an announcement made on an error or an unread reply, `prompt` that no
vend was given up alive, `overlapped` and `repeated` what they do in `AirtimeVend`. `Redeliver` hands the message out twice, with or without the death of its first handler.

### `TokenDelivery` = `TokenAnswer` + `Notification`

Both extend `Announcements`: `log` keeps each topic as Kafka does, a sequence every consumer group reads at its own pace,
and `events` is the `Event` table in which they meet.

```
requestToken     new -> publish -> inprogress -> timer -> reply -> log -> ended      (catch: an error after the publish)
its subscriber   joining -> up -> down,  or none when start() failed
Notification     idle -> next -> check -> push -> logPush -> mail -> sms -> logMail -> next ... -> commit
```

Announcements come any number of times up to `MaxAnnounced`, as `TokenVend` allows them to: a token may be announced by
a purchase and a requery, and again after a redelivery. The process dies by itself (`Crash`) or because a response is
written twice inside a timer (`ReplyTwice`), which is an unhandled rejection.

### `Validation`

Each call goes through `create`, the event of the request, the validation with the vendor of the best commission, then
with the others and finally with the backup of `validateMeterWithVendor`, `addUserIfNotExists` (`findUser`, `saveUser`,
`findEntity`, `addEntity`, `addPassword`), `link`, `record`, `meter` and `answer`; airtime and data skip what is about
meters. Any await may throw, and a dead process is a throw of every call. The tables of users, entities and passwords are
shared; a row has the id of the call that added it.

### `Accounts`, `Sessions`, `Catalogue`

In `Accounts` a call is a record with the handler, its point, the account or partner it works on and what it read. Rows
of the database and keys of Redis are apart, because `Commit` reaches the first only. `crossedKeys` and `crossedStatus`
remember whose handlers overlapped or were cut off, `ordered` the status each account's handlers asked for.

In `Sessions` and `Catalogue` a handler is a script: a sequence of single reads, checks and writes, taken one at a time
by the actions of `Step`, so that every await is a point where others come in and where it may throw. The seedings are
loops: `viewed`, `next` and `nth` count the vendors, products and bundles their turns have come to, `NextOf` says what
the loops do once the script of the last turn is done, and a turn puts its offers into the script. Redis keeps, per
key and account, the call that set it; an offer keeps the call that added it. `session`, `asked` and `crossed`, and
`crossedPairs` and `crossedOffers`, are histories like those of `Accounts`.

### Assumptions about what is outside `src/`

* Vendors carry out a reference at most once. A purchase has reached the vendor when the call returns, or never does.
* What vendors say of a vend (`PurchaseReplies`, `RequeryReplies` of `VendorClients`) is read off the types of the
  replies and off what the consumers look for. A requery says "failed" only of a vend the vendor turned down or never
  had. BUYPOWERNG reports a failed vend by an HTTP error with 202, 203 or 20, which is what `Token.ts` reads (its type
  `FailedResponse` says a 202 body instead, whose missing `result` would be a TypeError), and a pending one by a body
  without `result`, so that the client throws. IRECHARGE answers 00 only for a vend that was successful. BAXI answers
  the requery of a pending vend with a code of `BaxiCodesToRequery`. Any vendor other than IRECHARGE and BUYPOWERNG is
  BAXI.
* IRECHARGE vends a reference only with an access token issued for it. A validation reply may lack the token; then
  `Transaction.update` leaves the column as it was, because Sequelize omits undefined values.
* `POST /confirm-payment` is sent the `bankRefId` and the `transactionId` of one airtime transaction. Nothing compares the
  two: the first decides that `Airtime.controller` is called, the second which row becomes COMPLETE. `AirtimeVend` lets
  any of its calls confirm its transaction; `TokenVend` and `DataVend` have no such call.
* Random references are distinct. Vendor rates do not change while one transaction is vended. The first vendor is the
  best one for 1000 naira (`Opening`), later ones for the real amount (`Rate`), so the two are independent constants.
* `MAX_REQUERY_PER_VENDOR` is set to a positive number (unset, `parseInt` makes it NaN and no limit is ever reached).
* Messages are the JSON the producer wrote. Wait times are positive.
* Kafka delivers what was sent, to one consumer of the group at a time. The kafkajs defaults the code leaves alone
  hold: no automatic commit inside a batch, one partition at a time.
* One application process runs: `docker-compose.yml` comments the other three out. Most results of `TokenVend` need that
  (`SingleWorker`); those that do not are checked with two workers and proved for any number.
* Redis keeps what it was given until it expires; the database's unique columns hold (`Entity.email`, the names
  of vendors, the codes of products and bundles), and there are none where none is declared.

## 3. Runs

`CHECK_DEADLOCK FALSE` everywhere: a vended transaction, and a bounded number of calls, is over, and the system stops.
States are distinct states.

| run | module and bounds | shows |
|---|---|---|
| `token_vend` | `TokenVend`: 3 vendors, 2 tries per vendor, prepaid, 1 worker, 2 requests, 2 faults; 5.1 M states | `AtMostOneDelivery`, `OneVendInHand`, `RequerySeesVend`, `CompleteIsDelivered`, `OnePowerUnit`, `RetryRecordFollows`, `LogAgrees`, `SwitchWhenExhausted` |
| `token_switch` | 3 vendors, 1 try, postpaid, 1 request, 3 faults; 1.4 M | `SwitchAfterFailure`, `AllTriedBeforeRepeat`, the refinement of `VendPromise` (`KeepsPromise`), `Resolution` |
| `token_two_workers` | 1 vendor, 1 try, 2 workers, 1 request, 2 faults; 0.5 M | `AnnouncedIsDelivered`, `NoOrphan` without the single-worker assumption, and a repurchase that finds no vendor left |
| `complete_is_final` | 2 requests, no fault | violated: finding 1 |
| `airtime_vend` | `AirtimeVend`: 3 vendors, the best or the worst of them first, requery limit 2, 2 requests and 1 confirmation of one payment, 2 faults, 1 crash; 1.3 M | `CompleteUnlessConfirmed`, `AtMostOneDelivery`, `LoggedFirst`, `Resolution` |
| `data_vend` | `DataVend`: 3 vendors, any of them first, 2 tries, requery limit 2, 2 requests of one payment, 2 faults, 1 redelivery; 0.6 M | `CompleteUnlessUnread`, `AtMostOneDelivery`, `LoggedFirst`, `Resolution` |
| `announcements` | `TokenDelivery`: one electricity and one airtime transaction, 2 announcements per topic, 1 fault | `MailedOnce`, `CommittedIsMailed`, `PartnerEventBacked`, `NoSubscriberLeft`, `AnsweredInTheEnd`, `MailedInTheEnd` |
| `partner_informed` | two electricity transactions, no fault | violated: finding 2 |
| `validation` | `Validation`: 2 calls of any kind, 3 customers of whom two share an address, 3 vendors; 2.8 M | `HandsOver`, `LogTells`, `AccountUnlessTroubled` |
| `accounts` | `Accounts`: 4 calls, 2 addresses | `AlwaysAKey`, `KeysAgree`, `StatusAsOrdered` |
| `sessions` | `Sessions`: 3 calls, a partner and one member | `AsAsked`, `DeactivatedIsOut`, `ChangesOnce` |
| `catalogue` | `Catalogue`: 3 calls, one product, the bundles of GLO and AIRTEL; 3.4 M | `SeededOnce`, `OffersDistinct`, `SchemaKept` |

**What the properties say.** `AtMostOneDelivery`: one payment is vended once. In `TokenVend` it holds outright with one
worker. The airtime and data consumers take every purchase that is not a success (nor IRECHARGE's 15 or 43) for failed
and buy elsewhere, so there it is claimed as long as no vend was given up alive (`prompt`). However often the partner
asks and confirms (`OnePayment`: with one reference), a second request buys again only when it overlapped the first
(`overlapped`): after a write the look-up finds the reference, and nothing ever takes it back, `confirmPayment` included.
A crash or a redelivery buys again only when it repeats what was done (`repeated`); a handler that dies before that
starts over. The switch, written by one handler and carried by the message of another, adds no purchase of its own.
`CompleteUnlessUnread`: a data transaction is COMPLETE only when a vendor delivered, unless an announcement was made on a
reply that was not read: BAXI's requery is announced unseen, a data requery that ended in an error falls through to the
announcement, and a BAXI purchase with code 200 may still be pending. `CompleteUnlessConfirmed` says it of airtime, where
`confirmPayment` is the other way to COMPLETE without a delivery. `LoggedFirst` and `LogAgrees`: the log can be trusted after a crash, in
two ways: it is written ahead of the row, and (for electricity) it names no vendor as the token's that did not deliver. `NoOrphan`,
`CommittedIsMailed`: nothing is lost by a crash or a lost session. `HandsOver`: a validated row is one of the rows a vend
starts with, and its user is a row with the caller's address and number. `KeysAgree`, `StatusAsOrdered`, `AsAsked`,
`ChangesOnce`, `OffersDistinct`, `SchemaKept` each say what holds where calls did not overlap, since the code has no
lock: they fail when a single call leaves its rows apart, or when the history of a sequence of calls leaves a state
nobody asked for. `AlwaysAKey` and `SeededOnce` hold through overlaps and cut-off calls.

**Bounds.** `MaxFaults` counts lost messages, handler errors, unreached vendors, replies later than the outcome,
validations without a token and failed vends together (and in `TokenVend` crashes and lost sessions). Two faults give
every pair: a failed vend and a crash in the repurchase, a crash before and after a purchase. Three failures with one try
per vendor go round all three vendors and start over. Two requests give two purchases in flight: the second one must not
vend. Two requests of one payment are the partner that repeats itself; that they overlap is counted as a fault, and the
confirmation comes anywhere. `RetryLimit` is 4 in the code (`retryCountBeforeSwitchingVendor`); 2 has the retries that stay and the one that
leaves. The rates make the vendors differ in every pair; in `token_switch`, `airtime_vend` and `data_vend` the vendor of
the first purchase is not always the best one. Nothing else of a vend is bounded: references and message counts are
finite because faults are.

Two announcements of a topic are two transactions in either order, or one of them twice. Two validations race for one
address, with the same number and with another, and for different addresses. Four calls on accounts are a sign-up, its
key's two overlapping rotations and a deactivation, or an account with its verification and two changes of status; a
second address makes two partners. Three calls on sessions have a login, a deactivation and a completion of the login by
code; a second member only repeats the first one's part in `updateRequirement` and takes the run beyond its time. Three
calls on the catalogue are two seedings at once and a renaming, or a creation and two updates. `Networks` has one whose
bundles are seeded to the end and the one that is not (below); every list of vendors that occurs in the table is in the
model. `TypedBundles`, the codes an administrator types, are the first bundle of each network: those that clash with a
seeding.

**Fairness.** Weak, for `WorkerStep`, `ProcessStep`, `NotifierStep` and the timers (Kafka hands a waiting message over;
awaits and timers end), for the vendors' decisions and for the clock; in `TokenDelivery` also for the requests, whose
timer ends them. Requests and faults of the vend modules have none: a request may stop at any point. Faults being finite,
`Resolution` says what happens once they stop. It excuses a transaction only when a handler threw, a message was lost or,
for airtime, a crash really took a running timer with it (`dropped`), and speaks of times when no second request for airtime
or data stopped between its write, which is PENDING again, and its message. `Accounts`, `Sessions`, `Catalogue` and
`Validation` are checked for safety: every call may stop at every await.

## 4. Findings

1. `complete_is_final`: `requestToken` checks that the transaction is not COMPLETE and writes PENDING and
   INPROGRESS some awaits later. Two requests pass the check, the first is vended and completes the transaction, and
   the second takes it back to INPROGRESS. No second vend follows (`AtMostOneDelivery`): its purchase goes by the same
   reference.
2. `partner_informed`: the subscriber of a token request takes the first announcement it sees for its own; it never
   compares transaction ids. The request is answered with another transaction's token, its timer logs
   `TOKEN_SENT_TO_PARTNER`, and the notification consumer, which finds that event, never pushes the right token.

Met while modelling, documented by the histories that properties excuse and not by runs of their own:

* The bundles of AIRTEL name a vendor `BUYPOWER` three times (`utils/Constants.ts:3861`, `:3914`, `:3928`). There is
  none, and `vendorDoc[vendor].id` throws (`Airtime.controller.ts:478`): the seeding of bundles always stops in AIRTEL,
  and it can never be completed, since the next one throws on the product that is there. `AddBundle` does the same.
* `confirmPayment` of airtime (`Airtime.controller.ts:591`) makes a transaction COMPLETE without asking whether anything was
  delivered, and logs `AIRTIME_RECEIVED_FROM_VENDOR` before it, which then need not be true. `LoggedFirst` holds for it;
  `CompleteUnlessConfirmed` excuses it. The two ids it is sent are not compared.
* Two requests for airtime or data that overlap both buy (`overlapped`): look-up and write of the reference are two awaits
  apart.
* The airtime and data consumers buy from the next vendor while a pending vend may still be delivered (`prompt`), and
  announce BAXI's requery unread (`unread`).
* The airtime handler of the Notification consumer looks up the events of electricity, and so mails again on every
  redelivery (`MailedOnce` is about electricity).
* `verifyEmail` writes the status before it compares the code. `signup` updates the entity outside of its
  transaction, where there is no row yet. Crossed rotations may leave the database and Redis with different keys for
  good. `completeLogin` and `basicAuth` never look at an account's status.
* A status is written as a whole column from what was read: overlapping changes undo each other (`crossedStatus`).
* With two worker processes one fault breaks `OnePowerUnit`, and two break `AtMostOneDelivery`: a limit of the design to
  keep in mind before the other processes of `docker-compose.yml` are enabled.

## 5. Proofs

`TokenVendProofs` proves, for every set of vendors, rate, retry limit and number of requests and faults:

* with **any number of workers**: `TypeCorrect`, `CompleteDelivered`, `AnnouncedDelivered`, `NeverForgotten`, `LogIsTrue`;
* with **one worker** (`SingleWorker`): `OneVend`, `OneDelivery`, `RequeryFindsVend`, `PromiseKept`, `RetryRecords`,
  `SwitchesAfterFailure`, `SwitchesInOrder`, `SinglePowerUnit`.

They assume what `TokenVend` assumes of its constants. The clients come in through two lemmas: `PurchaseReplyTells` and
`RequeryReplyTells` say that what the consumer reads in a reply - settled, failed, open - is true of the vend the reply
is about, vendor by vendor and code by code; everything above rests on them and on nothing else about replies. The
invariants the runs check are not all inductive:

* `TypeInv` adds to `TypeOK` that a running handler has read a row and one about to switch has computed one.
* `DeliveryInv` adds that a handler about to save or announce does so for a delivered vend, and that one that found a
  power unit is right. `CompleteIsDelivered` and `AnnouncedIsDelivered` follow.
* `VendInv` is `OneVendInHand` and `RequerySeesVend`: vendors hold at most the vend the row names, which is the one a
  requery asks about; the row a handler works on is the row it read; a repurchase is decided only when vendors hold
  nothing. `Requery` reaches "failed" only for a vend that is not alive, and it is the only one that could be;
  `SwitchVendor` then renames the vend while vendors still hold nothing. At most one delivery, the refinement of
  `VendPromise` and `SwitchAfterFailure` follow.
* `RetryInv` carries the retry record of the row and of the row about to be written through the two updates.
* `UnitInv` says that what a handler found when it looked for the power unit is still so when it saves one.
* `HandInv` says the transaction is in safe hands: a message is queued, or a worker holds one that a crash gives
  back; `NoOrphan` follows.
* `LogInv` adds to `LogAgrees` that a handler about to write a row has logged the vendor in it, however many workers write
  in between; that a token's event follows a delivery is what the two lemmas on replies say.

`AirtimeVendProofs` proves `AirtimeTypes`, `AirtimeRequeries`, `AirtimeCompleteDelivered`, `AirtimeLoggedFirst` and
`AirtimeBoughtOnce`, for any number of requests, confirmations, crashes and faults and for every vendor:

* `TypeInv` adds to `TypeOK` that a running handler has a message and the row it read, and runs on its own topic.
* `LimitInv` follows the requery count through timers, messages and the handler, whose message a crash gives back; no
  requery at or above `MAX_REQUERY_PER_VENDOR` is ever timed or queued.
* `DeliveryInv` says that before anything is delivered, and while no reply went unread, nobody is about to announce or
  complete but a confirmation: no announcement is queued, none is being handled, and no handler has found success.
  `RequeryReplyTells` gives it what a requery's reading is worth. `CompleteUnlessConfirmed` follows.
* `LogInv` says what the log holds before a message is sent and while it is handled (`Backed`): an announcement follows
  an event that some vendor delivered, a switch one that names the vendor moved to. Neither handler reads the log, and a
  message may come back after a crash, so the fact has to travel with the message. `LoggedFirst` follows, step by step.
* `RefInv` says that one payment gets one request through the checks (`Sole`): once a request is written, the row holds
  its reference, which confirmations of the same payment write again, and whoever is still to be written has another.
* `OnceInv` gives `AtMostOneDelivery` while `Sole` holds and no handler was repeated. `OneThread`: there is one thing to
  wait for - the request, a message, a timer or a running handler - and it is there once; a crash before a handler
  has done anything final gives the message back and takes nothing else. `SnapInv`: a handler that asks a vendor knows the row as
  it is. `Settled`: once a purchase is alive nothing that is waited for ends in another one, and IRECHARGE is asked
  about that purchase. The last is what makes a requery safe: `RequeryOfLive` says that a vendor asked about a live vend
  never answers what `AfterRequery` reads as failed. The theorem assumes nothing of the
  requests; what the property excludes is what the code does get wrong: requests that overlap, handlers that are
  repeated, vends given up alive.

`DataVendProofs` proves `DataTypes`, `DataCompleteDelivered`, `DataLoggedFirst` and `DataBoughtOnce` along the same lines,
for any number of requests. They differ where the consumer does: a purchase is followed by a requery at once (`Probe`), whose success counts as unread when the vend was
not delivered; a requery's error is announced too (`NoAnswerThrows`); a message is handed out again while its handler goes
on (`Redeliver`); and the vendor is written twice, by the handler that chose it and by the one the switch reaches, so
`LogInv` also covers the row a handler is about to write. In `OnceInv` the handler that bought is the one that asks, with
the vend it made in its hands (`handler.vend`), so `Settled` speaks of that vend too.

`TokenDeliveryProofs` proves `DeliveryTypes`, `SubscriberShutDown`, `CommittedMailed`, `MailedAtMostOnce` and
`PartnerEventsBacked`, for any transactions, announcements, crashes, lost sessions and errors:

* `CursorInv` keeps what is committed, what is being handled and the end of the batch in order, within the log.
* `RequestInv` says, point by point of a request, timer and reply included, whether its subscriber can still be up.
* `MailInv` says that everything before the cursor is done: mailed, or troubled. What a handler found in the Event table
  is still so when it mails (`SeenInv`), because no other writer adds the customer's event.
* `CountInv` is the upper bound: a mail is paid for by its event, by the handler about to write it, or by an
  interruption. `MailedOnce` alone is not inductive, since it does not say that the last interruption was spent.
* `PushInv` carries the push to the event it is logged with.

`ValidationProofs` proves `ValidationTypes`, `RowsHandedOver`, `EventsTellTheRow` and `UsersHaveAccounts`, for any number
of calls, any customers, vendors and openings. `Frame` says that a step changes its own call's row and log only and takes
nothing from the shared tables; `RowInv` and `LogInv` then follow one call through its points, and `AccountInv` the
tables: an entity or a password is never without the call that promised the rest. The row handed over is compared with
the rows of `VendorSelection` field by field.

`AccountsProofs` proves `AccountsTypeCorrect`, `AccountsAlwaysAKey`, `AccountsKeysAgree` and `AccountsStatusAsOrdered`,
for any number of calls and any addresses:

* `TypeInv` adds to `TypeOK` what a call knows at each of its points.
* `PartnerInv` and `KeyInv` say that from the moment a partner is committed its current key in Redis is one filed under
  its secret, and that calls about to set it have filed theirs: nothing is ever taken back, which is why
  no rotation can shut a partner out.
* `WritingInv` says that a status about to be written by a handler nobody overlapped is the row's, changed as asked.
* `RotationInv` follows a rotation through its six writes: what profile, rows and Redis hold at each point where only
  one call is at work on the partner's keys (`RotatesAlone`, `Halfway`).

`SessionsProofs` proves `SessionTypes`, `SessionsAsAsked`, `DeactivatedAreOut` and `ChangedOnce`, for any team and any
number of calls:

* `ScriptInv` says that what is left of a handler's script is one of the ends of that script, with what the handler has
  read or has still to visit at that point. The lemmas `SetAt` to `RequireAt` turn it round: who is at a write or a
  check of some key, what comes next. No induction over scripts is needed, as each has a handful of ends.
* `AloneInv`: two calls of one topic at work on one account have crossed there. All that follows is said of accounts
  where nothing has crossed, and so of one handler at a time.
* `SessionInv` follows the two tokens through `login`, `completeLogin`, `logout` and the status handlers (`Begun`, `In`,
  `Cut`, `Out`), while either may expire; `DeactivatedInv` says who may be logging in, and that no code is out, once an
  account is, or is being, deactivated. It needs `SessionInv`: a deactivation that ends has deleted the access token.
* `PasswordInv` says which tokens and passwords are used up: a password in use was written by a handler past its write,
  so that none is the one a later handler has compared. `RequirementInv` says which of a team's rows are still ahead of
  the handler (`Ahead`).

`CatalogueProofs` proves `CatalogueTypes`, `OffersSeededOnce`, `OffersAreDistinct` and `UpdatesKept`, for any number of
calls and any lists of products and of networks that name none twice:

* `ScriptInv` says what each handler's script may hold and, for a seeding (`Looped`), how script, product and bundle
  follow from its counters. The lemmas `AtVendor` to `AtAnswer` turn it round: who is at a step, and what comes next. The
  bundles of a network are in the tables of `Constants.ts`; that each names a vendor once is a lemma (`Sold`).
* `VendorInv`: a vendor that was not renamed is known by the name it was added with, and so are those a seeding looked
  up. Without it one vendor could stand for two names and be offered twice.
* `ProductInv`, `OfferInv` and `FreshInv`: the products and offers a call added are those of its turns so far, and what
  its script is still to offer it has not offered. That makes the ids unique, and `SeededOnce` follows: a seeding's
  product is its own, so that two offers alike are one call's, of one name.
* `PairInv`: whoever may still add an offer of a vendor's product that nobody crossed on is the only one, and the offers
  there are are its own, or it has still to look for them. `OffersDistinct` follows.
* `UpdateInv`: the last update of an offer holds what it read with its own key until it writes it, and what an answered
  one wrote is there, or a later one's (`KeptInv`, `AnsweredInv`). Calls begin in order (`NewInv`), which is what makes
  "later" mean something. `SchemaKept` follows.

Each invariant has a lemma for `Init` and one for `Next` with a step per action; the `Moves` and `GoesOn` lemmas say what
an action does to its worker or call.

Model-checked only: `Resolution`, `AnsweredInTheEnd` and `MailedInTheEnd`, since liveness under fairness is out of the
prover's reach. Every safety property of the passing runs is proved. `SwitchWhenExhausted` is proved together with
`AllTriedBeforeRepeat` in `SwitchesInOrder`. The type invariants of all modules are proved and not run.

## 6. Not modelled

* **The operator's requery** (`Transaction.controller.ts`): it reads the row, asks BUYPOWERNG and writes FAILED or
  PENDING over whatever the status is by then, or announces the token without saving it. With it as an action the
  properties of `TokenVend` would no longer speak of the consumers; `complete_is_final` shows the same stale write.
* **Dead code**: the Webhook consumer (its registry is commented out) and the six consumers without handlers,
  `Data.controller`'s `confirmPayment` (nobody calls it) and `updateBundle` (no route), the replays in `VendorApi.controller.ts:231-386` (nobody calls them), the event of
  `discoUp` (`instanceof Boolean` is never true), and publications without a consumer.
* **I/O and listings**: disco status cron, complaints, profiles, meters and power units, mail, SMS, uploads, logging,
  the mock vendor API, routes; product codes and their rates (`ProductCode.controller`, `VendorRates.controller`: single
  rows of tables no vend reads). They write single rows nobody else decides on, or none, with one exception:
  `Profile.controller.updateProfileData` changes an account's address and deletes its access and refresh tokens, as a
  logout would; `Sessions` has `logout` and a fixed address.
* **`confirmPayment` of electricity** (`VendorApi.controller.ts:1084-1105`): an event nobody waits for and no vend reads.
* **Details**: payloads of events and messages, except for the vendor a switch names; the requests to vendors and their
  hashes; the messages' retry counts in `TokenVend`, which only choose wait times; the fetching of discos and bundles;
  the category checks of `createProduct`, which are one more way to throw; mailing a verification code again.
* **Connections**: `ConsumerFactory`'s and the producer's connecting and disconnecting, heartbeats and rebalances
  beyond the sessions they lose; the database's and Redis's own failures beyond an await that throws.

## 7. What to do next

1. The operator's requery as a second kind of request, in a module that extends `TokenVend`, with properties of its own.
2. Two members in `Sessions` with fewer handlers at a time; two processes of the Notification consumer.
3. `ConsumerFactory` in detail, with an at-least-once specification that `TokenVend`'s batches rely on.
