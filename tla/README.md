# A TLA+ model of Evergreen's circulation, its clients and its event processing

Evergreen is an integrated library system: OpenSRF services written in Perl and
C over a PostgreSQL database, and clients that keep a good deal of state of
their own: the XUL staff client, the self-check station, the JavaScript
catalogue. This directory holds TLA+ modules for the parts whose correctness
depends on the order of things, on processes and windows that overlap and on
work that is lost half way:

- **Action/Trigger**: how events are created and processed, once each;
- **circulation**: copies, loans, holds, transits and the hold targeter;
- **my holds**: the catalogue's page that edits holds from an old list;
- **billing and payments**: the server's two-step payment, the staff client's
  bill window, the fines page of the self check;
- **self check**: what one scan does to a copy that desks work on as well;
- **offline circulation**: a workstation without the server, the upload of its
  files and their execution.

The modules are checked by TLC on small instances, and the facts that matter
most are proved with TLAPS for instances of any size.

Paths below are relative to the repository; `perlmods/` stands for
`Open-ILS/src/perlmods/lib/OpenILS/Application/`, `staff/` for
`Open-ILS/xul/staff_client/`, `web/` for `Open-ILS/web/`.

- [The system](#the-system)
- [Modules](#modules)
- [EventLifecycle and TriggerRunner](#eventlifecycle-and-triggerrunner)
- [TriggerHooks](#triggerhooks)
- [Circulation](#circulation)
- [OpacHolds](#opacholds)
- [SelfCheckout](#selfcheckout)
- [Money, BillWindow, SelfPayment](#money-billwindow-selfpayment)
- [Offline circulation](#offline-circulation)
- [Runs](#runs)
- [Fairness](#fairness)
- [What the code does otherwise than it says](#what-the-code-does-otherwise-than-it-says)
- [Proofs](#proofs)
- [Not modelled](#not-modelled)

## The system

Clients (staff client, OPAC, SIP gateway, scripts) call methods of OpenSRF
services over Jabber. Every service is a pool of processes that share nothing
but the database (and memcached); a process serves one call at a time. A
handler opens a database transaction through `open-ils.cstore` or
`open-ils.storage`, changes rows and commits; what it has to tell other
services (retarget this hold, create these events) it sends after the commit.
Cron starts scripts that call the same services.

| Component | State | Operations | Talks to | Hard behaviour | Correct when |
| --- | --- | --- | --- | --- | --- |
| Action/Trigger (`perlmods/Trigger.pm`, `Trigger/Event.pm`, `Trigger/EventGroup.pm`, `support-scripts/action_trigger_runner.pl`) | `action_trigger.event` rows with 12 states, a lock file | create events, list pending ones, gather, group, validate, react, clean up | everybody creates events; reactors mail, mark copies lost, ... | overlapping runs, lock file given up early, a crash or failure at any of the many transactions of one event | a reactor runs once per event; one run works on an event; no event is left half way; the lock is given up |
| Circulation desk (`perlmods/Circ/Circulate.pm`, `Circ.pm`, `Cat/AssetCommon.pm`) | `asset.copy.status`, `action.circulation` | checkin, checkout, renewal, claims returned, lost, mark damaged/missing/..., reshelving done | holds (capture, fulfil, reset), transits, billing, events | a copy that is lent, captured and moving at once; what follows the commit | status, loan, transit and hold of one copy agree |
| Holds and targeter (`perlmods/Circ/Holds.pm`, `Storage/Publisher/action.pm`) | `action.hold_request`, `action.hold_copy_map` | place, suspend, activate, change pickup library, cancel, uncancel, reset, target, capture, fulfil, clear shelf | desk, transits, events | holds compete for copies; the targeter works on an older view; one hold lives through several copies and transits | one hold per copy; a captured hold is deliverable; fulfilled is final |
| Transits (`perlmods/Circ/Transit.pm`) | `action.transit_copy`, `action.hold_transit_copy` | create, receive, abort | desk, holds | abort in the middle of delivery, several transits per hold | one open transit while a copy is in transit, else none |
| Billing and payments (`perlmods/Circ/Money.pm`, `staff/server/patron/bill2.js`) | `money.*`, the patron's credit and `last_xact_id`; a window's list, checks and pending payments | pay, bill, void, refund, use credit; read the list, check rows, type an amount | desk, credit card services | balances read in one transaction and paid in another; a list that is old; an answer that is lost after the card was charged | nothing is paid twice or beyond what is owed; a transaction is closed exactly at balance zero; what was received can be accounted for |
| Self check (`web/js/ui/default/circ/selfcheck/`) | the page, the scan's chain of requests, the functions connected to a button | scan, override, renew, check in, pay fines by card | desk, payments | desks act between two requests of a scan; two stations, one patron | it lends only over the events its library lists; a scan ends; no payment exceeds what is owed |
| My holds (`web/opac/skin/default/js/myopac.js`, `holds.js`) | hold objects as the list gave them | suspend, activate, cancel, edit, in batches | holds | objects sent back whole, long after they were read | the list tells the truth; a batch ends; no captured hold is suspended |
| Fine generator (`support-scripts/fine_generator.pl`, `generate_fines`) | `money.billing`, a lock file | one fine per interval | desk (checkin generates fines, too) | script and checkin at once; a list of overdue loans that is old when its turn comes | each interval billed once, never above the maximum; the accounts stay in order (`Money`) |
| Authentication (`c-apps/oils_auth.c`) | seeds, sessions, failure counts in memcached | init, complete, verify, logout, time-out | every service | seeds expire, counts and sessions race | a session belongs to a login that succeeded |
| Acquisitions, EDI (`perlmods/Acq*`) | line items, purchase orders, fund debits, invoices | order, receive, cancel, invoice, split | EDI vendors, catalogue | batch over many rows, partial failure | debits agree with what was ordered and received |
| Booking (`perlmods/Booking.pm`) | `booking.reservation` | reserve, capture, pick up, return | desk | a resource that is also a copy | no two reservations of one resource overlap |
| Serials, Vandelay, cataloguing, authority (`perlmods/Serial.pm`, `Vandelay.pm`, `Cat*`) | bibliographic data and queues | import, match, overlay, merge | search | batches | data rules |
| Object store, pcrud (`c-apps/oils_cstore.c`, `oils_pcrud.c`, `oils_sql.c`) | one transaction per client connection, savepoints | begin, commit, rollback, CRUD | all services | a client that disconnects in a transaction | a transaction ends with its session |
| Offline circulation (`staff/chrome/content/circ/offline_*.js`, `main/main.js`, `staff/server/admin/offline_manage_xacts.js`, `src/offline/offline.pl`) | the forms' lists and locks, files in the client's profile; sessions, files and flags at the server | scan, save, export, import, upload, execute | desk | windows side by side, answers that are lost, forked children, rows run late | what is keyed is neither lost nor run twice; an item changed meanwhile is left alone |
| Reporter (`src/reporter/clark-kent.pl`) | `reporter.schedule`, lock file | run reports in a fork pool | database | children that die, restart while running | a report runs once |
| PBX allocator (`src/asterisk/pbx-daemon`) | call files | queue, allocate, roll back | telephone exchange | two directories on one machine | limit of concurrent calls |
| SIP, other pages, search, supercat, collections, actor | none or data | adapt or read | the above | - | - |

`PROJECT.json` lists every component with its status, and under `hazards` what
in this code a test would hardly reach, each at its line and with the
properties that cover it or the reason why none does.

## Modules

| Module | Models |
| --- | --- |
| `EventLifecycle` | abstract specification: what Action/Trigger promises about one event row |
| `TriggerRunner` | `--run-pending`: the script, its lock file and `open-ils.trigger`; implements `EventLifecycle` |
| `TriggerHooks` | `--process-hooks`: the script, its lock files and the transaction that creates events |
| `Circulation` | copies, loans, holds, transits, the hold targeter |
| `OpacHolds` | the catalogue's page of holds; extends `Circulation`, whose desks act beside it |
| `SelfCheckout` | a scan at a self-check station; extends `Circulation` in the same way |
| `Money` | one patron's account: payments, bills, voids, credit, fines and the return of loans |
| `BillWindow` | the staff client's bill windows; extends `Money` |
| `SelfPayment` | paying fines at self-check stations; extends `Money` |
| `OfflineFiles` | rows and files, shared by the next three |
| `OfflineStation` | a workstation: forms, locks, files, export and import, the client's side of an upload |
| `OfflineServer` | `offline.pl`: sessions, uploads, execution by forked children |
| `OfflineDelivery` | abstract specification: what offline circulation promises about one transaction |
| `OfflineCirc` | `OfflineStation` and `OfflineServer` joined by the upload page; implements `OfflineDelivery` |
| `MC...` | instances for TLC: values of the constants, symmetry sets |
| `TriggerRunnerProofs`, `TriggerHooksProofs`, `CirculationProofs` | TLAPS proofs about the module each is named for |
| `OfflineProofs` | TLAPS proofs about `OfflineStation`, then about `OfflineCirc`, its refinement of `OfflineDelivery` among them |
| `PatronProofs` | TLAPS proofs about `OpacHolds` and `SelfCheckout`; extends `CirculationProofs` |
| `MoneyProofs` | TLAPS proofs about sums over finite sets and about the steps of `Money`, for its two clients |
| `BillWindowProofs`, `SelfPaymentProofs` | TLAPS proofs about the module each is named for; both extend `MoneyProofs` |

Definitions marked "Mutant" are not part of the specifications: each is a wrong
version of the definition after it, used to see that the properties notice.

A recurring form: where the code is right only while something outside it
behaves (staff wait, windows take turns, the server answers in order), that is
a Boolean constant with a name, and the run says which value it has. With the
other value TLC refutes the property; those refutations are listed
[below](#what-the-code-does-otherwise-than-it-says) with their settings.

## EventLifecycle and TriggerRunner

`action_trigger_runner.pl --run-pending` checks for a lock file, writes its pid
into it, and calls `open-ils.trigger.event.run_all_pending`. The service lists
the pending events, creates an `Event` object for each (which writes `found`),
builds its environment (`collecting`, `collected`), groups the events whose
definition has a `group_field`, and sends a first response. **Then the script
removes its lock file and the next run may start**, while this run's events are
still `validating`, `reacting` and `cleaning`. Each `update_state` is a
transaction, so each is a step of the model.

| Variable | In the code |
| --- | --- |
| `state[e]` | `action_trigger.event.state`; `"absent"` before the row exists |
| `lockfile` | the lock file and the invocation whose pid it holds |
| `rpc[r]` | how far invocation `r` is: `starting` is between the check and the write |
| `batch[r]` | ids `pending_events` returned that have no `Event` object yet |
| `phase[r][e]` | what the `Event` object knows: `valid`, `reacted`, environment complete; `done` once it is dropped |
| `seen[r][e]` | the state `init` read before writing `found`; `KnownValid`, `KnownInvalid`, `KnownReacted` are the flags it derives |
| `reactions[e]` | counts calls of the reactor (history) |
| `failures` | counts crashes and failed updates (bound `MaxFailures`) |

The actions carry the names of what they do; `PROJECT.json` names the lines of
each. `Unit(r, e, P)` is what is fired together: an `EventGroup` changes all its
members in one transaction, an event without group is alone. A group drops the
members that do not validate and goes on with the others.

Abstractions. `CreateEvent` stands for the whole creation side: an event is
created, in the model, when its `run_time` has come and the granularity of the
run fits; `TriggerHooks` has that side. What a validator, reactor or cleanup module decides is a choice: any
outcome, dying included. Looking up the group field fails or not, by choice
(`Ungroupable`). Script and service call are one process here, so the script
giving up on a response is not in this module.

Failures. `UpdateFails`: an `update_state` fails, the caller logs it and goes on
without the event, or without the unit when firing. `Crash`: script and service
call die; rows and lock file stay. Nothing in the code takes `found` or later
rows up again, or removes a dead script's lock file, and neither does the model.

The script checks for the lock file and then writes it; its comment concedes
"a tiny race condition". `Spec` assumes that no second invocation checks in
between; `RacySpec` adds that step (`SlipIn`), and the early returns of `validate`,
`react` and `cleanup` for an event another run has moved on, which only then happen.

`EventLifecycle` is the promise: a row is created once, taken once, reacted to
at most once while taken, then closed or abandoned, for good. `TriggerRunner`
implements it (`ImplementsLifecycle`) under the mapping `Status`: `pending` is
*waiting*, a row some invocation holds is *taken*, otherwise it is *closed* in
a final state and *abandoned* in any other. `Take` is the step
that writes `found`; listing and reading the row before it are stutters, during
which it still says `pending`: that is the gap the lock file has to cover
(`SingleClaim`).

## TriggerHooks

`action_trigger_runner.pl --process-hooks` asks the service, hook by hook, to
create events (`create_batch_events`). The service lists, for each definition of
the hook, the objects that have no event of it yet, and creates one each, all
in one transaction. Several invocations run side by side: one for each
`--granularity`, each with a lock file of its own.

| Variable | In the code |
| --- | --- |
| `due` | which objects meet a definition's condition on its `delay_field` |
| `events[d][t]` | committed `action_trigger.event` rows |
| `lockfile[l]`, `script[s]` | the lock file of a label; where an invocation is |
| `job[s]`, `todo[s]`, `made[s]` | the transaction its request opened: definitions still to be looked at, events created and not yet committed |
| `filter[s]` | definitions whose condition is in the one `$filter` object the service uses for all of them |
| `timeouts`, `failures` | bounds of `TimeOut` (`recv` gives up, the script goes on to unlock) and of `JobDies`, `ScriptDies` |

`NoticedOnce` is what the transaction alone cannot see to: the filter looks at
committed events, so only the lock file keeps two transactions apart. It is
stated for behaviours in which no script has given up (`timeouts = 0`).
`EveryTargetNoticed` is its counterpart: an object that is due gets its event.


## Circulation

A request is one step, because its handler is one transaction (`do_checkin` and
`do_checkout` run between `editor->begin`/`xact` and `commit`, a renewal's
checkin and checkout share one editor). What happens *after* a commit is a step
of its own: `mark_item` commits and then resets the holds it read before,
`abort_transit` commits and then fetches and resets the hold, and placing,
resetting or displacing holds asks the targeter to look at them. Those wait in
`todo`. With `Overlapping = TRUE` other requests are served in between; with
`MaxCrashes > 0` the process may die and one is lost.

| Variable | In the code |
| --- | --- |
| `status[c]` | `asset.copy.status` by its well-known values; `missing` stands for the ones `mark_item` sets |
| `loan[c]` | the open `action.circulation` of the copy (unique by an index), its patron and `stop_fines` |
| `hold[h]` | the `action.hold_request` row: `capture_time`, `cancel_time`, `fulfillment_time`, `frozen`, `current_copy`, `pickup_lib`, `current_shelf_lib` |
| `potential[h]` | `action.hold_copy_map`: copies a checkin may capture for the hold |
| `listed` | holds a run of the targeter has read (`new_hold_copy_targeter`) and not come to |
| `transit[t]` | `action.transit_copy` / `hold_transit_copy` rows; a hold transit stays after it is received, since `_reset_hold` and `cancel_hold` read it again |
| `todo` | work after a commit; a `reset` carries the hold row that will be written whole |

`Requests` is the set of request kinds a run serves, so that each run looks at
one part of the behaviour in a space TLC can finish. Seven kinds are apart
because of what they lead to (listed below): `mark_moving`
(marking a copy with an open transit), `uncancel_moving` (uncancelling a hold
with one), `reset_delivered` (resetting a hold whose earlier deliveries left
transit rows), `reset_reused` (resetting a hold, or aborting its transit, when
the copy it was captured for waits for another hold by now: a filled hold whose
copy came back), `reset_listed` (the same of a fulfilled hold that the targeter
has listed and not come to), `amend_captured` (updating a hold that is suspended
*and* captured) and `fill_related` (the setting `circ.checkout_fills_related_hold`).

The targeter runs in two steps, as in the code. `ListHold` reads the holds that
wait, suspended ones left out (`Listable`); `Targeter` comes to one of them any
time later and asks again only whether it is captured or cancelled (`Targetable`),
not whether it is suspended. So a hold suspended in between is given a copy, and
a checkin captures the copy for it. The next update of the hold, while it is still
suspended, clears `current_copy` (`Amend`, `ChangePickup`): that is `amend_captured`.

Abstractions. Permissions, blocking events and most settings only decide
whether a request goes through: any answer is possible. Where a query takes the
first row of several, the model takes any. All holds are title holds and all
copies belong to the title, so the permit tests of capture are a choice in
`Settle` (`StayHere` covers no permitted hold, a floating copy, a suppressed
transit). Times are reduced to set or not set, money is not there.

The properties, in the order of `Circulation.tla`:

- `LoanedStatus`: loan and status agree.
- `OneHoldPerCopy`: two waiting holds never have the same copy.
- `InTransitOnce`: a copy in transit has one open transit, any other none.
- `CapturedIsReady`: a captured hold has its copy on a shelf or on its way to the
  pickup library of the hold, also if it was suspended on the targeter's list.
- `ShelfBelongsToCapture`: only a captured hold has a shelf.
- `NoLoanInTransit`: a copy on loan is not in transit.
- `FulfilledIsFinal`, `FilledForOwner`: what a step may do to a hold's
  fulfillment.

## OpacHolds

The page *my holds* of the JavaScript catalogue keeps the hold objects its list
came with (`holdCache`) and sends them back whole; `update_hold` writes what it
gets over the row. `Circulation`'s desks, targeter and other requests act
before, between and after (`Elsewhere`).

| Variable | In the code |
| --- | --- |
| `page` | what is shown: nothing, the list, the editor, or "processing" |
| `cache[h]`, `answer[h]` | `holdCache`, `holdStatusCache` |
| `calls`, `awaited` | requests of a batch that are not served; holds whose answer the page still counts on (`processed`) |
| `editor` | the hold in the editor, and which of its controls are disabled |
| `calm` | history: nobody else has acted since the list was fetched |

A batch (`DoHoldAction`) alters the cached objects, sends one request per hold
and shows the list again when the last answer is in (`BatchDone`). A request may
be refused (`Refused`, a missing permission) and requests are served in any
order. `ShowsTruth` compares the list with the rows as long as nobody else has
touched them: a refused change must not stay in the cache. Another thaw date
for suspended holds (`"date"`) sends their whole rows, too. `BatchEnds` is
liveness. `SuspendsNoCaptured` is what the code means to refuse and, for this
client, does not (run `SuspendBeside`).

The list is fetched in one step, so an answer to a list request that was sent
before a batch is not drawn after it.

## SelfCheckout

One scan is a chain of requests: `checkout.full`, then what `handleXactResult`
makes of the events that come back, which may be the same request with
`.override`, a renewal, or the abort of a transit, a checkin and the checkout
again. `call` is the request the chain makes next, `said` what the scan came
to, `debt` whether the patron's fines block, `acts` counts requests of others
during the scan (`MaxActs`). `PermitEvents` is the server's answer to a checkout
(`do_permit`, with the events that end it at once), `Handle` the client's
decision; the circulation itself is `Circulation`'s `Checkout`, `Renew`,
`Checkin` and `AbortTransit`.

`LendsAsConfigured`: what the chain lends over is in the list the library
configured, and no status that blocks is lent, however many requests the chain
had; a scan during which a desk acted is exempt. `ScanEnds` is not: the chain
ends even when the answers change under it.

## Money, BillWindow, SelfPayment

`make_payments` works in two database transactions. The first (`Check`)
compares the client's `last_xact_id` with the patron's, reads the balances and
the patron, and is rolled back; a credit card is charged between the two
(`Charge`); the second (`Record`) writes what the balances read by the first
call for. With `Overlap = TRUE` other requests are served in between.

The second transaction fails in three ways. `RecordingFails`: what
`_recording_failure` answers for, which reports `SUCCESS_WO_RECORD` if this server
charged a card. `UpdateFails`: the last update of the patron fails and the answer
is a plain event, whatever was charged. `CommitFails`: nobody looks at the commit,
and the client is told of a success with a `last_xact_id` the patron never gets.
A card approved elsewhere was charged before the request (`Beforehand`); if its
payment is refused or fails, nothing here says so. The second and third way and
the last case are counted in `unreported`.

The fine generator lists overdue loans once (`ListOverdue`) and comes to each later
(`Fine`): it may fine a loan that was returned or claimed since (`late`), and it stops
the fines of a loan that is still out when the maximum is reached. Unlike `Bill` and
`Void`, it neither opens nor closes the transaction (`CheckOpen`).

| Variable of `Money` | In the code |
| --- | --- |
| `billed[x]`, `paid[x]`, `desk[x]` | sums of `money.billing` (not voided), of `money.payment`, and of the payments that can be refunded |
| `finished`, `stopped` | `xact_finish` of a transaction, `stop_fines` of a circulation |
| `out` | circulations without `checkin_time` |
| `overdue` | loans in the list of a running fine generator that it has not come to |
| `credit`, `last_xact_id` | columns of `actor.usr` |
| `req[c]` | the client's request and what its first transaction read |
| `taken`, `unrecorded`, `unreported`, `late`, `recorded` | history: the money that was received, what was charged and reported as not recorded, what was received and neither recorded nor so reported, loans fined after their fines had stopped, how often one form was recorded |

`BillWindow` is `bill2.js`: a timer appends one row after another (`funcs`,
`rows`), each asks for its details (`answers`), and `bill_map`, `check_map` and
the pending amounts are updated as they come. The patron, whose `last_xact_id`
guards a payment, is read beside the list (`asked`, `patron`). `Tender`,
`Click`, `CheckAll` and the other buttons distribute the typed amount over the
checked rows (`Distribution`); `Apply` sends it. `Lose` and `Answer` are what
becomes of the answer; the form stays as it was if it is lost. `VoidAll`, `Add`,
`BillPatron` act from the window, `Elsewhere` is what befalls a loan beside it: the
fine generator, claims, checkins (`Befalls`).

`SelfPayment` is the fines page of the self check: each drawing of the payment
page connects one more function to the submit button (`connects`), with the
selection of that time; a click runs them all (`firing`).

- `MoneyBalances`: what was received is what was paid plus the credit, what was
  reported as charged and not recorded, and what was lost without a report, to the
  unit. Which failures belong to the last two is decided by the steps above, so the
  property says that nothing else makes or loses money: not the overpay that becomes
  credit, not a refund, not a credit used up, not a form sent twice.
- `PaysWhatIsOwed`: no step pays beyond the bill or refunds below it.
- `ClosedIffSettled`: a closed transaction is settled and no loan whose fines go on;
  a settled one is closed unless it is a loan still out (which a payment closes
  if its fines have stopped, and nothing else does). Loans fined late are excepted.
- `RecordedOnce`: a form that is sent again as it was, after a lost answer or an
  error, is recorded once.

## Offline circulation

*At the workstation.* Five forms collect rows in lists and write them to one
file, `pending_xacts`. `local_lock` is the flag of each form, `oils_lock` the
window's count of locks; `Save`, `Cancel`, `Close`, `CloseConfirmed`, `Crash` and
the registration form act on them. A file is a bag of rows, since one row can be
written twice: `list.js` empties a list only in the callback of a receipt that
printed. The upload renames the file (`Rename`: `transition`), takes the name
back when refused and nothing was saved since (`Revert`), or adds `.complete`
(`Archive`); a page that is gone (`GiveUp`, `Crash`) leaves the renamed file
behind (`left`). The login window exports and imports the file through a
`medium`, with a dialog open between the steps.

*At the server.* Every request to `offline.pl` is a process. An upload looks at
the session (`LoadStart`, `Refused`), writes its file (`LoadWrite`) and then its
row of `offline.script` (`LoadScript`); the disk may be full or the process die in
between. `Execute` collects the files the script rows name and forks; the child
sets `in_process` only after it has connected again (`RunBegin`), runs row after
row in the order of their times (`RunRow`), ends the session (`RunEnd`) and moves
the files (`RunArchive`). A row of an item whose status changed after the row was
keyed is skipped (`Skips`) unless it was this run that changed it (`Seen`).

*Joined*, in `OfflineCirc`: the page acts on the list of sessions it last
retrieved (`view`), an upload travels as a request and an answer (`wire`,
`Arrive`, `RequestLost`, `Answer`).

`OfflineDelivery` is the promise: a transaction is keyed, saved, uploaded and
run, in this order, never back, run once; it may stop anywhere. `OfflineCirc`
implements it (`ImplementsDelivery`) with `keyed` as the rows scanned, `saved` as
the rows written to a file, `uploaded` as the rows in a file that a script row
names, `runs` as the result lines. Losing a row is not a step of `OfflineDelivery` that could
be seen, so it is stated beside it: `SavedIsKept`, `LockedWhileUnsaved`,
`CloseLosesNothing` for the workstation, `PendingNotSent` (what goes out next was
never taken), `CompleteIsUploaded` (what is put aside was) and `EndedIsRun` for
the way.

## Runs

| Run | Instance | Properties | Shows |
| --- | --- | --- | --- |
| `Trigger` | a group of 2 events, 2 invocations, 1 failure, fair | `TypeOK` `ReactedOnce` `SingleClaim` `NothingStranded` `LockGivenUp` `EveryEventEnds` `ImplementsLifecycle` | with the lock, whatever fails, an event is claimed by one invocation, reacted to once and never left half way; without a failure the lock is given up and every event ends |
| `Hooks` | 2 hourly and 1 daily script, 2 hourly and 1 daily definition, 1 object, 1 time-out, 1 death, fair | `TypeOK` `NoticedOnce` `EveryTargetNoticed` | an object gets one event per definition, and gets it |
| `CircLate` | 1 copy, 2 holds, overlapping requests | `TypeOK` `NoLoanInTransit` `OneHoldPerCopy` `FulfilledIsFinal` | late targeting, from a request or from an old list |
| `CircPickup` | 2 copies, 1 hold, nearly every request | `LoanedStatus` `InTransitOnce` `CapturedIsReady` `ShelfBelongsToCapture` `FilledForOwner` | loan, status, transit, shelf and capture stay in step |
| `Opac` | 1 copy, 2 holds of one patron, batches and edits, desks that check in and out and place holds, fair | `ShowsTruth` `BatchEnds` | the list tells the truth, a batch ends |
| `SelfCheck` | 1 copy, 1 hold, desks also during a scan, 1 follow-up that dies, fair | `LendsAsConfigured` `ScanEnds` | a scan lends only what it may, and ends |
| `BillDesk` | 1 window, a loan and another charge, 4 payment types, 1 fault | `TypeOK` `MoneyBalances` `ClosedIffSettled` `RecordedOnce` `PaysWhatIsOwed` | payments, refunds, voids, bills, fines from an old list, claims, checkins and failures in any order |
| `SelfPay` | 2 stations, 1 patron, 2 transactions, 1 fault | `PaysWhatIsOwed` | two logins of one patron |
| `OfflineStation` | 2 workstations, 1 medium, 3 rows, a receipt that fails | `LockedWhileUnsaved` `SavedIsKept` `CloseLosesNothing` | nothing keyed or saved is lost |
| `OfflineDay` | 2 workstations, 1 session, 2 executions, 1 fault | `TypeOK` `EndedIsRun` `SkipsWholeItem` `PendingNotSent` `CompleteIsUploaded` `SkipsForOthers` `ImplementsDelivery` | the whole way from the form to the live system |
| `LeftoverFilter` | 2 definitions on 2 columns, 1 script | `EveryTargetNoticed` | violated, see below |
| `SuspendBeside` | 1 copy, 1 hold | `SuspendsNoCaptured` | violated, see below |

Bounds, and why they are enough.

- *Invocations, scripts, windows, stations, executions*: two are needed to
  overlap. By `SingleClaim` a third invocation meets no situation a second does
  not; the third script of `Hooks` has the other lock file.
- *Events, definitions, objects*: a group of two has a member that validates and
  one that does not (an event without group is a unit of one and meets the same
  steps, but for a second attempt at its environment; the proofs have any mixture); two definitions under one label and one under another
  share the filter and do not share the lock.
- *Copies and holds*: two holds compete for one copy, or one hold moves from one
  copy to the other. *Patrons*: the owner and somebody else; *libraries*: the
  pickup library and another. `Opac` has one patron and one library: its page
  shows one patron's holds, and what another library adds (transits) is
  in `CircPickup` and `SuspendBeside`.
- `MaxTransits = 2`: a copy has at most one open transit in these runs, and a
  hold may have one received transit besides; a request that would need a third row at
  that moment is not served, and rows are freed on arrival or by a reset.
- `MaxFailures`, `MaxTimeouts`, `MaxCrashes`, `MaxFaults = 1`: one failure at
  every point; what it leaves behind is not touched again, or is met by a later
  request of the same kind.
- `MaxActs = 1`: one request of a desk in each gap of a scan's chain is what can
  make an answer stale; after it, the chain goes on as with a fresh copy.
- `MaxBilled`, `Amounts`, `MaxVersion`: in `BillDesk` a loan that owes nothing at
  first and another charge of 1 unit, so that 2 pays both after a fine, leaves change,
  overpays what was voided, or is spread over an old list; in `SelfPay` two charges of
  up to 2 units. After `MaxVersion` payments, two or three, a form can be as many
  payments old. `MaxRows = 1` leaves out a refresh while the timer still appends
  (`Patient`). `Voids` names the transactions whose bills are voided. `MaxLost = 0`: no
  second card is approved elsewhere once money was lost without a report.
- In `Opac` `cancel` is not among the requests served, so a batch of cancels is always
  refused; suspending, dating and editing may be refused or not.
- A follow-up that is lost (`Crash`) and one that waits for ever look the same to
  safety properties when requests overlap: `CircLate` has the second, `SelfCheck` the first.
- `MaxDrawn = 1`, `MaxLogins = 3`: one payment page per session, three sessions.
- `MaxCopies = 1`: a file is imported where no copy of its rows was put aside, so
  at the other workstation; the theorem `SavedRowsKept` has no such bound.
- `SkipForms` has all three settings switched on, or (not in a run, see below) a
  single one; `Now` is later than every row's time, which the module assumes.
- One upload of a workstation at a time on the server's side.

`CHECK_DEADLOCK FALSE` stands where the system may stop: finite sets of events,
objects, sessions and rows are used up, amounts and versions are bounded. The
circulation runs check for deadlock; a desk never stops.

Symmetry: `PatronSymmetry` swaps two patrons with their holds, `LibrarySymmetry` two
libraries with the copies whose home they are, `KioskSymmetry` the two stations, `RunSymmetry` the two executions. No run with a property that
needs fairness uses symmetry.

## Fairness

- `Trigger`, `Hooks`: weak fairness of each script and each process. Cron starts
  the script again and again, and a process that runs keeps running. There is
  none on the creation of events, on time-outs or on failures; the liveness
  properties hold or a failure has happened.
- `SelfCheck`: weak fairness of the station's requests (they are synchronous, the
  server answers) and of what a handler does after its commit.
- `Opac`: weak fairness of the answer reaching the page, of follow-ups, and *strong*
  fairness of the server taking one of the batch's requests: it is disabled again
  and again while another request's follow-up is due, and the server's
  queue serves a request however many others come in between.

None is assumed of people: nobody has to scan, pay, upload or press a button.

## What the code does otherwise than it says

Two runs expect a violation; the `findings` in `PROJECT.json` quote the lines.

1. **`LeftoverFilter`.** `create_batch_events` uses one filter object for all
   definitions of a hook. What one definition puts under its `delay_field` stays
   for the next, unless that has the same column: an object that is due for the
   second only gets no event.
2. **`SuspendBeside`.** "Disallow hold suspencion if the hold is already
   captured" stands over a test of the object the client sent. When the hold was
   captured after the page got its list, the suspension is accepted and the old
   object is written over the row: the copy belongs to no hold any more.

The other properties hold in the settings of their runs. These settings are
assumptions, and each is needed; TLC refutes the property when it is dropped (in
instances of one copy and one hold, one transaction, one or two windows):

| Setting | Property | What happens |
| --- | --- | --- |
| `Requests` with `"mark_moving"` | `NoLoanInTransit` | "We cannot check out a copy if it is in-transit" (`Circulate.pm`) tests the status; `mark_item` replaces the status of a moving copy and leaves its transit |
| `Requests` with `"reset_delivered"`, 1 hold | `InTransitOnce` | `_reset_hold` looks for a transit without asking for an unreceived one, and may delete an old, received row instead of the open one |
| `Requests` with `"reset"`, `"reset_reused"`, 2 holds | `CapturedIsReady` | `_reset_hold` asks only for `capture_time` and `current_copy`, which a filled hold keeps; if its copy has come back and been captured for another hold, the reset takes it off that hold's shelf |
| `Requests` with `"amend_captured"`, 1 hold | `CapturedIsReady`, `ShelfBelongsToCapture` | the targeter asks of a hold it has listed whether it is captured or cancelled, not whether it is suspended; captured while suspended it loses its copy with the next update ("clearing current_copy and check_time for frozen hold") and stays captured |
| `Requests` with `"reset"`, `"reset_listed"` | `FulfilledIsFinal` | a fulfilled hold that is reset has no `capture_time` any more, so the targeter with its older list gives it a copy, and a checkin captures and clears `fulfillment_time` |
| `Requests` with `"cancel"`, `"uncancel_moving"` | `ShelfBelongsToCapture` | a hold cancelled and uncancelled while its copy moves is put on the shelf on arrival without being captured |
| `Overlapping` with `"mark"` | `FulfilledIsFinal` | `mark_item` reads holds, commits, and then writes the rows it read whole, over a fulfilment in between |
| `RacySpec` instead of `Spec` | `SingleClaim` | the "tiny race condition" of the script: both pass the check of the lock file |
| `Separate` does not hold (a run without `--granularity` beside one with) | `NoticedOnce` | both work on a definition under different lock files |
| no exemption of `timeouts > 0` | `NoticedOnce` | the script unlocks while its transaction is open |
| `Beside = TRUE` (`OfflineStation`, `MaxCopies = 2`) | `SavedIsKept` | "There are already outstanding transactions ... Upload these first" is tested before the file picker opens; the import writes over what was saved while it was open |
| `Careful = FALSE` | `ImplementsDelivery`, `EndedIsRun` | `in_process` is tested by the parent and set by the child after it has connected again: a session executed twice runs every row twice, and an upload let in before stays in a session that ends without it |
| `PrintFails` with `"checkout"` (`OfflineDay`) | `PendingNotSent` | a list whose receipt did not print is still shown and can be saved again after its rows were sent |
| `SkipForms = {"checkin"}` | `SkipsForOthers`, `SkipsWholeItem` | a checkout that is not asked about changes the item, and the checkin after it is skipped for what its own run did |
| `Overlap = TRUE` | `PaysWhatIsOwed`, `ClosedIffSettled` | `last_xact_id` is compared in a transaction that is rolled back before anything is written |
| `Clients` of two windows, with voids | `PaysWhatIsOwed`, `MoneyBalances` | a bill voided at one window does not renew `last_xact_id`; the overpay of a payment at the other becomes credit and stays a refund that is due as well |
| `Rereads = TRUE` | `PaysWhatIsOwed` | printing reads `last_xact_id` again and leaves the old list |
| `Patient = FALSE` | `PaysWhatIsOwed` | after a refresh the balances of rows whose details are still on their way are the old ones |
| `InOrder = FALSE`, 2 windows | `PaysWhatIsOwed` | list and `last_xact_id` are read by requests nothing keeps in order |
| `CardChange = TRUE` | `MoneyBalances` | a card is charged the sum of the payments, and the change becomes credit all the same |
| no exemption of `late` loans | `ClosedIffSettled` | the fine generator bills a loan that was returned and closed after it had made its list, and does not open the transaction again |
| `MaxDrawn = 2` | `PaysWhatIsOwed` | the submit button runs the function of the first drawing as well, with the mark the first answer brought |
| `ReceiptFails = TRUE` | `PaysWhatIsOwed` | the page stays, with the new `last_xact_id`, and a second click pays again |
| no exemption of `acts > 0` | `LendsAsConfigured` | `.override` overrides every event its account may, one that arose in between included |
| `Overlapping` with `"mark"`, `Overrides` of `"PATRON_EXCEEDS_FINES"` only | `LendsAsConfigured` | a marked copy is captured for the patron's hold before the hold is reset; the reset, with the old row, drops the hold during the scan and leaves the copy on the shelf, and the override lends it over `ITEM_ON_HOLDS_SHELF` |
| `Overrides` with `"CIRC_CLAIMS_RETURNED"` | `LendsAsConfigured` | that event is answered alone, so its override sets aside events the station never saw |

## Proofs

`tlapm` checks the eight proof modules from nothing. The assumptions are the named
`ASSUME`s of the modules (the "no such row" values are none of the rows, tables
are functions of the right sets, bounds are numbers) and the one each theorem
states. TLC evaluates the named ones in every run.

**`TriggerRunnerProofs`**: `TypeCorrect` (`Spec => []TypeOK`), `ReactsOnce`
(`Spec => []ReactedOnce`) and `ClaimsAreDisjoint` (`Spec => []SingleClaim`), for
any sets of events and runners, any grouping and any number of failures. `ReactedOnce` is not inductive: it says nothing of who
may run a reactor next. The invariant `IInv` adds
`LockInv` (between its check of the lock file and the end of gathering one
invocation excludes all others, and once it has written the lock file the file
is its own), `HoldInv` (an event that was listed or read but not yet marked
`found` is still `pending`, and one that is marked never is again), `ClaimInv`
(no two invocations have the same event) and `ReactInv` (an event that is
`pending`, or in a phase before its reaction, was not reacted to). The lock covers
listing to gathering, the row state covers the rest: exactly the hand-over the
script relies on when it unlocks with the first response. `LocalInv` is the
lemma for all steps on events in hand.

The same module proves `NoneStranded` (`Spec => []NothingStranded`) and the
refinement, `LifecycleKept` (`Spec => ImplementsLifecycle`). Both rest on one view
of a step: it *advances* a set of events one invocation holds (`Advance`), which
leaves others alone and every event it moves in hand or ended. `SeenInv` (an
object has read `pending` or nothing) is what makes the early returns of
`validate`, `react` and `cleanup` for rows others have moved on unreachable under
`Spec`. An advance is a `React`, a `Leave` or a stutter of `EventLifecycle`; a crash or a
failed update is the `Leave` of what was held.

**`TriggerHooksProofs`**: `TypeCorrect`, and, if `Separate` (every definition is
worked on under one lock file), `NeverNoticedTwice` (`Spec => []NoticedOnce`), for
any scripts, labels, definitions, objects, time-outs and deaths. The invariant
says that a script which has set its lock, and the transaction it asked for, have
the lock file to themselves (`LockInv`), that a transaction holds only its
label's definitions (`JobInv`), and that what it has created has no committed
event yet (`FreshInv`). The last two facts are kept under `timeouts = 0` only: a
script that gives up leaves its transaction without a lock.

**`CirculationProofs`**: `TypeCorrect`, `FulfillmentIsFinal`
(`Spec => FulfilledIsFinal`) and `FilledByLending` (`Spec => FilledForOwner`),
for any copies, holds, patrons, libraries, transits, crashes and requests, if
`Steady`: requests are served one after the other with their follow-ups, or they
overlap and none of them is of the kinds that leave a reset to be done after the
commit (`mark`, `mark_moving`, `abort`); and `reset_listed` is not among them. `CircLate` and
`CircPickup` are instances of one and of the other. The code clears `fulfillment_time` in one place (the capture)
and writes whole rows in another (the reset), so the action properties need an invariant:
`Sealed(hold)`: a fulfilled hold has no potential copies and is captured or has
no copy, so nothing can capture a copy for it (`Capturable`, `PreTargeted`), and one
that is still on the targeter's list is captured, so that it is passed over; and
`ResetsAgree`: a waiting reset carries the fulfillment the hold has; `Orderly`:
without the resetting kinds only targets wait. `ResetsAgree` is what overlapping
requests break, and with `"mark"` TLC then refutes the theorem, so the
assumption cannot be dropped. `Settled` collects what
the end of any checkin leaves (`SettleFacts`), and each request has a lemma of its
own.

The same module, copies with their loans and transits: `OneTransit` (`Spec => []InTransitOnce`), `LoanKeepsStatus`
(`Spec => []LoanedStatus`) and `LoanIsNotMoving` (`Spec => []NoLoanInTransit`), if
`Tidy`: `Steady`, and neither `mark_moving` nor `reset_delivered` is served, the two
kinds TLC refutes these with. The three are inductive only together and with two
more facts, `CopyInv`: no transit restores the status `in_transit` when it arrives
(`TransitInv`), and a reset that will find its copy in transit finds no transit of
the hold but the open ones of that copy (`ResetsSafe`), since `_reset_hold` takes the
first row of the hold. Every request then either ends the open transits of the one
copy it is about (`Cleared`) or opens one, and leaves other copies alone
(`OthersAlone`): `HandledStep` is the lemma all of them use.

Its last part, holds with their copies: `OneHold` (`Spec => []OneHoldPerCopy`), `CapturedAndReady`
(`Spec => []CapturedIsReady`) and `ShelfIsOfCapture`
(`Spec => []ShelfBelongsToCapture`), if `Neat`: `Tidy`, none of `uncancel_moving`,
`amend_captured` and `reset_reused`, and no crash that loses a reset. Both circulation runs are
instances. None of the three is inductive. `HoldInv` joins

- `RowsFine`: a hold with a shelf is captured (a suspended one may have a copy, by an
  old list of the targeter);
- `ListedPlaced`, beside it: a hold on the targeter's list has a row;
- `Unique`: no two live holds name the same copy, captured or only targeted;
- `Carried`: an open transit of a hold is of the copy it is captured for;
- `Ready`: what `CapturedIsReady` says, and that the copy is not on loan and its
  transit will put it on the holds shelf, for every captured hold no reset waits
  for (a waiting target is no excuse). Between `mark_item` or `abort_transit` and
  their resets the copy is neither on a shelf nor on its way;
- `ClosesSafe`: what a waiting reset relies on: no open transit carries its hold,
  and the copy it takes off the shelf waits for nobody else.

The attempt to prove them is how `reset_reused` was found: `ClosesSafe` could not be
shown of a reset of a filled hold whose copy serves another one, and TLC then
found the counterexample, a loan, a return, a second capture and the reset.

**`OfflineProofs`**, first part, one workstation's files, for any workstations and rows:

- `TypeCorrect`; `UnsavedIsLocked` (`StationSpec => []LockedWhileUnsaved`),
  `LocksAreCounted` and `ClosingLosesNothing` (`StationSpec => CloseLosesNothing`),
  without an assumption. The invariant `LockInv` joins the flags of the forms and
  the count of the window: a row on a list keeps its form's flag set
  (`LockedWhileUnsaved`), the registration form has no list (`ListedForms`), and
  the count is the cardinality of the set of flags (`LocksCounted`). A window
  that asks nothing has count zero, hence no flag, hence no unsaved row: none
  of the three gives that alone. `LockCounts` and `UnlockCounts` are the two
  lemmas on cardinality.
- `SavedRowsKept` (`StationSpec => []SavedIsKept`), if `~Beside`. Every step of the
  forms and of an upload only moves rows between files or adds new ones (`Moves`,
  shown by `FormMoves` and `UploadMoves`), so no file of the workstation has to be
  named; the import is the one step that overwrites, and `ImportsOverNothing`, that
  the file is empty while an import's dialog is open, covers it. That is what `Beside`
  breaks.
- `SavedOnceInAFile` (`StationSpec => []SavedOnce`), if there is no exporting and
  every receipt prints. The invariant `OneCopy` counts the copies of every row in
  every file; rows are written from a list they leave in the same step
  (`list \cap written = {}`). With it the server's commands are a set of rows
  (`Commands` of `OfflineServer`), as `OfflineDay` assumes.

Second part, the way to the live system: `DeliveredOnce` (`Spec => ImplementsDelivery`), `EndedHasRun`
(`Spec => []EndedIsRun`), `PendingIsNew` (`Spec => []PendingNotSent`),
`CompleteWillRun` (`Spec => []CompleteIsUploaded`) and `OfflineTypes`
(`Spec => []TypeOK`), for any workstations, rows, sessions, executions and faults, if
`Tended`: `Careful` (a request is let finish before the next one starts) and
`PrintFails = {}`; `ItemsSkippedWhole` (`Spec => []SkipsWholeItem`) and
`SkippedForOthers` (`Spec => SkipsForOthers`), if also `Uniform`: the three settings
for skipping are all on or all off. Without any one of the three TLC refutes one of
the properties (see the table above); whether `PendingIsNew` and `CompleteWillRun`
need `Careful` is open. The run `OfflineDay` has one session; that a row is in no
second one is a result of the proof.

`CircInv`, the inductive invariant, follows a row on its way:

- `OnceInv` of the first part: a saved row is in one file of its workstation;
- `UploadsApart`, `RunsApart`: while an upload is served its session is neither in
  process nor ended, has no script row of the workstation yet, and nothing is being
  forked; a session has one child, whose state agrees with the two flags, and nothing
  of a session that has not ended is archived. That is what `Careful` gives, together
  with the tests of `Refused` and `Execute`;
- `TravelInv`: a row the server has, or that is on its way, is saved and will not go out
  again (`Sent`); it has lines in the files of one session only; and as long as the
  request can still be refused or lost on the way (`Undelivered`) the server has no
  line of it, which is why `Revert` makes no second copy of it. An `ok` the client
  still waits for means that the script row is there (`CompleteIsUploaded`);
- `WorkInv`: a child has still to do what it has not answered (`RunsAll`), and what was
  answered is in a session that is in process or ended (`RunsOnly`). So a session
  that can be executed has nothing done (`NothingDone`), and a second session
  has none of its rows (`OneSession`): a row is run once.

`LinesKept` and `LogsKept` say that a step changes nothing of what the sessions hold; a
lemma for each part shows that most steps of the system are such. Only `LoadWrite` (a
file without its script row is not uploaded yet) and `LoadScript` add to it;
moving the files after the end of a session loses none (`ArchiveKeeps`).
In the refinement `Append` is `Key`, `Register` is `Key` with `Save`, `Save` and a crash in the
middle of one are `Save`, `LoadScript` is `Upload`, `RunRow` is `RunOne`, and every
other step is a stutter. `SkipInv` joins to a running child that its answered rows are
skipped exactly if their item is (`OneAnswer`), and that a status it has set is of an
item it has looked at before (`OwnChanges`).

**`MoneyProofs`** has no theorem of its own: it is the part that windows and
stations share.

- *Sums.* The library's induction theorems take a formula as a parameter, which
  none of the provers can instantiate; its facts on well-founded relations take a set. So the
  claim to be shown is put into a set, of numbers (`CountUp`) or of subsets of a
  finite set (`BuildUp`), and that every number, or subset, is in it follows. With these two
  the recursion behind `SumFunction` is shown to have a solution
  (`PartialSums`), and the sum to be what one expects: `SumInt`, `SumNat`, `SumAdd`,
  `SumUpdate` (one summand changes), `SumMono`, `SumExtend` (zeros added). This is why
  `MoneyAssumption` says that clients and transactions are finite sets.
- *Steps.* `PayInv` is what makes the two transactions of `make_payments` safe: a
  request with the present mark asks for no more than is owed (`Fair`); what a
  request has read still holds as long as it is worked on, and a refund it carries
  gives back all that was overpaid (`Agreed`); one request is worked on at a time;
  what is closed is settled. `CheckPayInv`, `ChargePayInv`, `RecordPayInv`,
  `BillPayInv` and so on show that each step keeps it; `PayIsDue` that it implies
  `PaysWhatIsDue`. `PayBalance` does the same for the sum of what is in the drawer
  and on cards, each amount being found again on one side or the other.

**`BillWindowProofs`**, for any number of windows, transactions, rows, payments, bills and failures:

- `BillTypesKept` (`Spec => []TypeOK`), with every setting. What
  is distributed over the rows is typed because each row takes the place of its own in
  the list (`RowsApart`), and the last row of a transaction settles its figures
  (`LastPlace`). `VersionBound` counts the payments that may still renew the mark.
- `RecordedAtMostOnce` (`Spec => []RecordedOnce`), if `Guarded`: a window does not read
  the patron again over a list from before a payment, and is not answered with a
  state later than the one it asked for (it waits, or answers come in order).
  `MarkInv` says of a window whose form is recorded that every mark it holds,
  waits for or has sent is older than the patron's: a repeated form is refused. Lost answers and overlapping calls
  are allowed.
- `PaysNoMoreThanOwed` (`Spec => PaysWhatIsOwed`) and `ClosedWhenSettled`
  (`Spec => []ClosedIffSettled`), if `Careful`: no overlapping payments, windows whose
  staff wait for the list and do not read the patron over an old one, and either one
  window, or several that are answered in order and void nothing. `ListInv` is about
  a window that has the present mark, or will have it with an answer on its way: the
  balances it shows or waits for are at most the present ones, and so is what is
  entered beside each row. `Distributed` is its core: whatever the amount, the
  checked rows and their order, a row is given no more than the balance that was last known of it.
  The mark is thus enough to make an old list harmless, if list and mark come in this order.
- `ClosedWhenSettled` leaves out the loans in `late`: the fine generator opens nothing.
  For the others the invariant has to follow `stopped` and `out` separately, since
  MAXFINES and claims stop the fines of a loan that is still out, a payment may then
  close it, and the checkin finds it settled or not.
- `ReceivedIsAccounted` (`Spec => []MoneyBalances`), if `Balanced`: `Careful`, and no
  change of a card payment is turned into credit. It holds a payment to account over
  both of its transactions, with every failure between and after them; it does not say
  that `unreported` stays zero, which the code does not try to do.

`RecordedAtMostOnce` needs less than the other two, which is why the assumptions are
apart. `BillDesk` is an instance of all three.

**`SelfPaymentProofs`**: `StationPaysWhatIsOwed` (`Spec => PaysWhatIsOwed`), for any
number of stations, sessions, transactions, bills and faults, if `Single`: no overlapping payments, the payment
page is drawn once in a session, and the server makes every receipt. Without any of
the three TLC refutes `PaysWhatIsOwed`. The invariant (`KioskInv`) follows a station
through its session: with the present mark, what it holds (the rows, a list on its way,
what the button is connected to) is owed (`Held`); after a payment it has the new
mark before it has a new list (`receipts = 1`), and `Held` is then claimed of nothing, but
the page is covered until the list has been asked for again and never goes
back to the old function (`Stage`). `OneStation` and `OthersKeep` reduce each step to the station it happens at:
an account only moves in favour of those who have the present mark (`Later`).

**`PatronProofs`** is about what patrons use without staff. The page of holds:

- `PageTellsTruth` (`PageSpec => []ShowsTruth`), without an assumption. What holds it
  up is `PageInv`: there are requests under way only during a batch, one for each
  of the holds that are awaited. So when nothing is awaited, every request has been served,
  and the list that is fetched then is not older than any of them.
- `StaleRowsSpareCopies` (`PageSpec => [](TypeOK /\ LoanedStatus /\ NoLoanInTransit /\
  InTransitOnce)`), if `Tidy`. The page is not a desk: `update_hold` writes a whole row
  that may be older than somebody else's request, which no action of `Circulation`
  does. TLC refutes `FulfilledIsFinal` and `CapturedIsReady` of `PageSpec` even when
  no request overlaps with a follow-up. The theorem says how far the damage goes: `CopyInv` stays
  inductive with `PageRows`, that a row which is sent back is one of a hold that was
  placed and not fulfilled when it was fetched.

The self-check station:

- `LendsOnlyAsConfigured` (`KioskSpec => LendsAsConfigured`), if `Steady` and if
  `CIRC_CLAIMS_RETURNED` is not overridden; TLC refutes it without either. The invariant
  `JudgedAgain` says of a checkout with `.override`, while no desk has come in
  between, that the copy is neither on loan nor in transit and that all which stands in
  its way *now* is listed. Follow-ups of earlier requests run during a scan and are no desk's
  requests, so they must not add an event. The one that could is a reset that
  takes a copy from the patron's own hold and leaves it on the shelf, for others.
  `RowsCurrent` excludes it: a waiting reset carries the copy its hold is captured
  with (`ResetTakesCopy`), as long as no capture is served after the row was read, which is `Steady`.
- `StationIsDesk` (`KioskSpec => Spec`, `Spec` being that of `Circulation`): a scan reaches the
  copies only through requests a desk makes too. With it, `StationKeepsCirculation`:
  the six invariants proved in `CirculationProofs` hold with a station
  beside the desks, if `Neat`.

Only model-checked: liveness (`LockGivenUp`, `EveryEventEnds`,
`EveryTargetNoticed`, `BatchEnds`, `ScanEnds`), which is out of the prover's reach.

## Not modelled

The core of the system is Perl (`perlmods/`, scripts, `offline.pl`) and SQL. Most
of the JavaScript is pages that show and edit data, the copies of the catalogue
page for each library's skin, and third-party libraries; the models cover what
keeps state across requests. So they stand for a small share of the
repository's JavaScript and for a larger one of its core logic.

In `TriggerRunner` and `TriggerHooks`: events created by other services one at a
time (`autocreate`, passive hooks), `run_time`, opt-in filters, resending and
read-only revalidation; a time-out while events are gathered.

In `Circulation`: open transactions that overlap (each request sees what is
committed, and its own rows), so neither the unique index on open circulations
nor `nearest_hold` in the storage service's own transaction; override and force options of
holds (recall, force and issuance holds, volume, part and copy holds);
precatalogued and noncatalogued items, reservations, floating copies and
suppressed transits as such; `force`, `noop` and `hold_as_transit` options;
clearing the holds shelf; thawing by date; expiry other than by the targeter;
the stand-alone `copy_transit.create`/`receive` methods; aborting a transit
that was received; money and dates. With requests overlapping *and* marking or
aborting allowed, other invariants fail for the same reason as `FulfilledIsFinal`
does; and when the follow-up of `abort_transit` is lost, its hold stays captured
for a copy nobody delivers. `CapturedIsReady` is therefore checked where that
follow-up is not lost.

In `OpacHolds`: placing a hold, the values of dates, notification, a list drawn late, a
server error (which leaves the page "processing"). The editor of a suspended hold
has its box disabled and sends the hold as not suspended, as the code does; no
property of the runs is about it.

In `SelfCheckout` and `SelfPayment`: pages of holds and of items out, receipts
other than a payment's, workstation registration, deposits.

In `Money` and `BillWindow`: forgive, work, goods and check payments as types of
their own, penalties, the bill history, deposits, negative-balance settings,
amounts as decimals; backdating, which voids fines; the dates that decide how much is
fined, and the lock file of `fine_generator.pl`.

In the offline modules: the download of the block list, digits and patrons checked
at the form, clock differences (the delta is taken as right), what a row does on
the live system beyond the status of the item, the results page.

The other components of the table are not modelled: I/O, data maintenance,
formats, or systems of their own (acquisitions, booking, serials, authentication).
